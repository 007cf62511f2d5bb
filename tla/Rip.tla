-------------------------------- MODULE Rip --------------------------------
(***************************************************************************)
(* RIP routers (rip.cc) and their routes to one destination network.       *)
(*                                                                         *)
(* An interface of a router is named by the router at its other end, Stub  *)
(* being the one to the destination itself; a gateway is named by its      *)
(* router, Stub standing for 0.0.0.0, no gateway.  A table is the list     *)
(* m_routes restricted to the destination: a router whose interface comes  *)
(* back may have two entries for it.  Each entry has the event scheduled   *)
(* for it.                                                                 *)
(*                                                                         *)
(* A tick is one and a half UnsolicitedRoutingUpdate, the longest time     *)
(* between two periodic updates of a router: in each tick every router     *)
(* sends one, at any point of it.  Messages travel and triggered updates   *)
(* are sent within the tick, and a message is received before its sender   *)
(* runs its next event.                                                    *)
(***************************************************************************)
EXTENDS Integers, Sequences, FiniteSets, SequencesExt

CONSTANTS
    Router,
    Stub,           \* the destination network
    Cost,           \* m_interfaceMetrics: <<router, interface>> -> metric
    LinkDown,       \* attribute LinkDownValue
    TimeoutDelay,   \* attribute TimeoutDelay, in ticks
    GarbageCollectionDelay, \* attribute GarbageCollectionDelay, in ticks
    Strategies,     \* values of the attribute SplitHorizon to consider
    Unstable,       \* bound: the interfaces that go up and down
    MaxChanges,     \* bound: how often an interface goes up or down
    MaxSenders,     \* bound: how many routers have messages on the way
    MaxLosses       \* bound: how many messages are lost

Interface == DOMAIN Cost

ASSUME RipAssumption ==
    /\ IsFiniteSet(Router)
    /\ Stub \notin Router
    /\ Interface \subseteq Router \X (Router \cup {Stub})
    /\ \A i \in Interface :
          i[2] # i[1] /\ (i[2] # Stub => <<i[2], i[1]>> \in Interface)
    /\ LinkDown \in Nat \ {0}
    /\ Cost \in [Interface -> 1..LinkDown]
    /\ TimeoutDelay \in Nat \ {0}
    /\ GarbageCollectionDelay \in Nat \ {0}
    /\ Strategies \subseteq {"NO_SPLIT_HORIZON", "SPLIT_HORIZON", "POISON_REVERSE"}
    /\ Unstable \subseteq Interface
    /\ MaxChanges \in Nat
    /\ MaxSenders \in Nat \ {0}
    /\ MaxLosses \in Nat

VARIABLES
    strategy,   \* m_splitHorizonStrategy, the same everywhere
    routes,     \* m_routes of each router
    triggered,  \* what m_nextTriggeredUpdate will do
    due,        \* routers whose periodic update of this tick is to come
    up,         \* interfaces that are up
    net,        \* messages on the way, by <<sender, receiver>>
    changes,    \* how often an interface changed
    losses      \* how many messages were lost

vars == <<strategy, routes, triggered, due, up, net, changes, losses>>
configVars == <<strategy, up, changes>>

Metric == 1..LinkDown
Entry == [status : {"RIP_VALID", "RIP_INVALID"}, metric : Metric,
          gateway : Router \cup {Stub}, changed : BOOLEAN,
          event : {"none", "InvalidateRoute", "DeleteRoute"},
          left : 0..(TimeoutDelay + GarbageCollectionDelay)]
Message == [command : {"REQUEST", "RESPONSE"}, rtes : Seq(Metric)]

Links == {i \in Interface : i[2] # Stub}

\* AddNetworkRouteTo, for a network the router is attached to.
Connected ==
    [status |-> "RIP_VALID", metric |-> 1, gateway |-> Stub, changed |-> TRUE,
     event |-> "none", left |-> 0]

Init ==
    /\ strategy \in Strategies
    /\ up = Interface
    /\ routes = [r \in Router |-> IF <<r, Stub>> \in up THEN <<Connected>> ELSE <<>>]
    /\ triggered = [r \in Router |-> "SendRouteRequest"]
    /\ due = Router
    /\ net = [l \in Links |-> <<>>]
    /\ changes = 0
    /\ losses = 0

\* Mutant: the route is marked, but its old event stays scheduled.
InvalidatedKeepsEvent(e) ==
    [e EXCEPT !.status = "RIP_INVALID", !.metric = LinkDown, !.changed = TRUE]

\* InvalidateRoute
Invalidated(e) ==
    [e EXCEPT !.status = "RIP_INVALID", !.metric = LinkDown, !.changed = TRUE,
              !.event = "DeleteRoute", !.left = GarbageCollectionDelay]

\* An event that runs already, be it the request of the start, is left alone.
SendTriggeredRouteUpdate(r) ==
    triggered' = [triggered EXCEPT ![r] =
                    IF @ = "none" THEN "DoSendRouteUpdate" ELSE @]

-----------------------------------------------------------------------------
(* Messages *)

\* Each message of out, a function of links, is appended to its queue, unless
\* it carries no route: a RESPONSE is only sent with one.
Sent(out) ==
    [l \in Links |->
        IF l \in DOMAIN out /\ (out[l].command = "REQUEST" \/ out[l].rtes # <<>>)
          THEN Append(net[l], out[l]) ELSE net[l]]

Response(rtes) == [command |-> "RESPONSE", rtes |-> rtes]
Request == [command |-> "REQUEST", rtes |-> <<LinkDown>>]

\* The links of r that have a sending socket.
Sending(r) == {l \in Links : l[1] = r /\ l \in up}

\* What r tells neighbour n of one of its routes.
Told(e, n) ==
    IF strategy = "POISON_REVERSE" /\ e.gateway = n THEN LinkDown ELSE e.metric

\* What r tells neighbour n of the routes it has chosen, in their order.
Rtes(r, n, chosen) ==
    LET table == routes[r]
        rtes[k \in 0..Len(table)] ==
          IF k = 0 THEN <<>>
          ELSE IF k \in chosen /\ (strategy = "SPLIT_HORIZON" => table[k].gateway # n)
                 THEN Append(rtes[k - 1], Told(table[k], n))
                 ELSE rtes[k - 1]
    IN  rtes[Len(table)]

\* Mutant: the routes keep their mark when it is a triggered update.
DoSendRouteUpdatePeriodicOnly(r, periodic) ==
    LET chosen == {k \in DOMAIN routes[r] : periodic}
    IN  /\ net' = Sent([l \in Sending(r) |-> Response(Rtes(r, l[2], chosen))])
        /\ routes' = [routes EXCEPT ![r] =
                        [k \in DOMAIN @ |-> [@[k] EXCEPT !.changed = FALSE]]]

DoSendRouteUpdate(r, periodic) ==
    LET chosen == {k \in DOMAIN routes[r] : periodic \/ routes[r][k].changed}
    IN  /\ net' = Sent([l \in Sending(r) |-> Response(Rtes(r, l[2], chosen))])
        /\ routes' = [routes EXCEPT ![r] =
                        [k \in DOMAIN @ |-> [@[k] EXCEPT !.changed = FALSE]]]

\* The messages r has sent were received.
Quiet(r) == \A l \in Links : l[1] = r => net[l] = <<>>

\* Router r may send.  A message takes less time than passes between two updates
\* of its sender, and only so many routers send at the same time.
MaySend(r) == Quiet(r) /\ Cardinality({x \in Router : ~Quiet(x)}) < MaxSenders

SendRouteRequest(r) ==
    /\ triggered[r] = "SendRouteRequest"
    /\ MaySend(r)
    /\ triggered' = [triggered EXCEPT ![r] = "none"]
    /\ net' = Sent([l \in Sending(r) |-> Request])
    /\ UNCHANGED <<configVars, routes, due, losses>>

TriggeredUpdate(r) ==
    /\ triggered[r] = "DoSendRouteUpdate"
    /\ MaySend(r)
    /\ triggered' = [triggered EXCEPT ![r] = "none"]
    /\ DoSendRouteUpdate(r, FALSE)
    /\ UNCHANGED <<configVars, due, losses>>

\* The periodic update cancels a triggered one.  The first comes long after the
\* requests of the start: StartupDelay is a second, UnsolicitedRoutingUpdate 30.
SendUnsolicitedRouteUpdate(r) ==
    /\ r \in due
    /\ MaySend(r)
    /\ \A x \in Router : triggered[x] # "SendRouteRequest"
    /\ triggered' = [triggered EXCEPT ![r] = "none"]
    /\ due' = due \ {r}
    /\ DoSendRouteUpdate(r, TRUE)
    /\ UNCHANGED <<configVars, losses>>

\* The interface l names is up at both ends and the next message is taken.
Receive(l, command) ==
    /\ net[l] # <<>>
    /\ Head(net[l]).command = command
    /\ <<l[2], l[1]>> \in up

Taken(l) == [net EXCEPT ![l] = Tail(@)]

\* A request of the start asks for the whole table, of which only valid routes
\* are told.
HandleRequests(l) ==
    LET r == l[2]
        back == <<l[2], l[1]>>
        chosen == {k \in DOMAIN routes[r] : routes[r][k].status = "RIP_VALID"}
        rtes == Rtes(r, l[1], chosen)
    IN  /\ Receive(l, "REQUEST")
        /\ net' = [Taken(l) EXCEPT ![back] =
                     IF rtes = <<>> THEN @ ELSE Append(@, Response(rtes))]
        /\ UNCHANGED <<configVars, routes, triggered, due, losses>>

\* A route with this metric through gateway g, and its timeout.
Learned(m, g) ==
    [status |-> "RIP_VALID", metric |-> m, gateway |-> g, changed |-> TRUE,
     event |-> "InvalidateRoute", left |-> TimeoutDelay]

\* How a route e fares when g offers metric m: g has a shorter one, is a
\* gateway that repeats itself or has changed its mind for the worse, or has
\* one as good while that of e is about to time out.  GetDelayLeft is 0
\* without an event.
Shorter(e, m, g) == m < e.metric
Repeated(e, m, g) == m = e.metric /\ g = e.gateway
AsGood(e, m, g) ==
    m = e.metric /\ g # e.gateway /\ 2 * e.left < TimeoutDelay
Worse(e, m, g) == m > e.metric /\ g = e.gateway

\* Mutant: a gateway that says it is worse off only confirms the route.
AfterOptimistic(e, m, g) ==
    CASE Shorter(e, m, g) \/ AsGood(e, m, g) -> Learned(m, g)
      [] Repeated(e, m, g) \/ Worse(e, m, g) ->
            [e EXCEPT !.event = "InvalidateRoute", !.left = TimeoutDelay]
      [] OTHER -> e

After(e, m, g) ==
    CASE Shorter(e, m, g) \/ AsGood(e, m, g) -> Learned(m, g)
      [] Repeated(e, m, g) -> [e EXCEPT !.event = "InvalidateRoute",
                                        !.left = TimeoutDelay]
      [] Worse(e, m, g) -> IF m < LinkDown THEN Learned(m, g) ELSE Invalidated(e)
      [] OTHER -> e

\* Mutant: the cost of the interface is left out.
OfferFree(rte, l) == rte

\* The metric of a route through the interface the message came in by.
Offer(rte, l) ==
    LET m == rte + Cost[<<l[2], l[1]>>] IN IF m > LinkDown THEN LinkDown ELSE m

\* One RTE of a response: every entry of the destination is compared with it;
\* without one, a new route is put in front.
Processed(table, m, g) ==
    IF table = <<>> THEN IF m # LinkDown THEN <<Learned(m, g)>> ELSE <<>>
    ELSE [k \in DOMAIN table |-> After(table[k], m, g)]

Alters(table, m, g) ==
    IF table = <<>> THEN m # LinkDown
    ELSE \E k \in DOMAIN table :
            LET e == table[k] IN
            Shorter(e, m, g) \/ AsGood(e, m, g) \/ Worse(e, m, g)

\* HandleResponses.  The metrics of a response are those the sender validated
\* its own by, so no message is malformed.
HandleResponses(l) ==
    LET r == l[2]
        g == l[1]
        rtes == Head(net[l]).rtes
        table[k \in 0..Len(rtes)] ==
          IF k = 0 THEN routes[r]
          ELSE Processed(table[k - 1], Offer(rtes[k], l), g)
        changed == \E k \in DOMAIN rtes : Alters(table[k - 1], Offer(rtes[k], l), g)
    IN  /\ Receive(l, "RESPONSE")
        /\ net' = Taken(l)
        /\ routes' = [routes EXCEPT ![r] = table[Len(rtes)]]
        /\ IF changed THEN SendTriggeredRouteUpdate(r)
                      ELSE UNCHANGED triggered
        /\ UNCHANGED <<configVars, due, losses>>

\* A message is lost, or finds the interface of its receiver down.
Lose(l) ==
    /\ net[l] # <<>>
    /\ net' = Taken(l)
    /\ IF <<l[2], l[1]>> \in up
         THEN losses < MaxLosses /\ losses' = losses + 1
         ELSE UNCHANGED losses
    /\ UNCHANGED <<configVars, routes, triggered, due>>

-----------------------------------------------------------------------------
(* Events of a route *)

\* The event of entry k of router r is due.
Due(r, k, event) == routes[r][k].event = event /\ routes[r][k].left = 0

\* The route times out.  Nobody is told before the next update.
InvalidateRoute(r, k) ==
    /\ Due(r, k, "InvalidateRoute")
    /\ routes' = [routes EXCEPT ![r][k] = Invalidated(@)]
    /\ UNCHANGED <<configVars, triggered, due, net, losses>>

DeleteRoute(r, k) ==
    /\ Due(r, k, "DeleteRoute")
    /\ routes' = [routes EXCEPT ![r] = RemoveAt(@, k)]
    /\ UNCHANGED <<configVars, triggered, due, net, losses>>

-----------------------------------------------------------------------------
(* Interfaces *)

\* The routes through interface i are invalidated, its socket is closed.
NotifyInterfaceDown(i) ==
    /\ changes < MaxChanges
    /\ i \in up
    /\ up' = up \ {i}
    /\ changes' = changes + 1
    /\ routes' = [routes EXCEPT ![i[1]] =
                    [k \in DOMAIN @ |-> IF @[k].gateway = i[2]
                                          THEN Invalidated(@[k]) ELSE @[k]]]
    /\ SendTriggeredRouteUpdate(i[1])
    /\ UNCHANGED <<strategy, due, net, losses>>

\* The network of the interface becomes a route, next to an invalid one that
\* may still be there.
NotifyInterfaceUp(i) ==
    /\ changes < MaxChanges
    /\ i \notin up
    /\ up' = up \cup {i}
    /\ changes' = changes + 1
    /\ routes' = IF i[2] = Stub
                   THEN [routes EXCEPT ![i[1]] = Append(@, Connected)]
                   ELSE routes
    /\ SendTriggeredRouteUpdate(i[1])
    /\ UNCHANGED <<strategy, due, net, losses>>

Tick ==
    /\ \A r \in Router :
          /\ Quiet(r)
          /\ triggered[r] = "none"
          /\ \A k \in DOMAIN routes[r] :
                routes[r][k].event # "none" => routes[r][k].left > 0
    /\ due = {}
    /\ due' = Router
    /\ routes' = [r \in Router |->
                    [k \in DOMAIN routes[r] |->
                       [routes[r][k] EXCEPT !.left = IF @ = 0 THEN 0 ELSE @ - 1]]]
    /\ UNCHANGED <<configVars, triggered, net, losses>>

RouterStep(r) ==
    \/ SendRouteRequest(r)
    \/ TriggeredUpdate(r)
    \/ SendUnsolicitedRouteUpdate(r)
    \/ \E k \in DOMAIN routes[r] : InvalidateRoute(r, k) \/ DeleteRoute(r, k)

Deliver(l) == HandleRequests(l) \/ HandleResponses(l)

Progress ==
    \/ \E r \in Router : RouterStep(r)
    \/ \E l \in Links : Deliver(l) \/ Lose(l)
    \/ Tick

Next ==
    \/ Progress
    \/ \E i \in Unstable : NotifyInterfaceDown(i) \/ NotifyInterfaceUp(i)

Spec == Init /\ [][Next]_vars

\* The simulator does not stop while an event is scheduled.
FairSpec == Spec /\ WF_vars(Progress)

-----------------------------------------------------------------------------
(* Distances *)

Neighbours(I, r) == {n \in Router : <<r, n>> \in I /\ <<n, r>> \in I}

\* The metrics of no step at all, and of one step more than those of d.
Start(I) == [r \in Router |-> IF <<r, Stub>> \in I THEN 1 ELSE LinkDown]

Relaxed(I, d) ==
    [r \in Router |->
       IF <<r, Stub>> \in I THEN 1
       ELSE Min({LinkDown} \cup {d[x] + Cost[<<r, x>>] : x \in Neighbours(I, r)})]

\* The least metric of a walk of at most n steps from r to the destination
\* over the interfaces of I that are up at both ends: what RIP should find.
Distance(I) ==
    LET d[n \in 0..Cardinality(Router)] ==
          IF n = 0 THEN Start(I) ELSE Relaxed(I, d[n - 1])
    IN  d[Cardinality(Router)]

ShortestEver == Distance(Interface)

\* The metric of the route that Lookup finds at r, the last of the valid ones;
\* LinkDown without one.
Lookup(r) ==
    LET valid(e) == e.status = "RIP_VALID"
        found == SelectSeq(routes[r], valid)
    IN  IF found = <<>> THEN LinkDown ELSE Last(found).metric

-----------------------------------------------------------------------------
(* Properties *)

TypeOK ==
    /\ strategy \in Strategies
    /\ routes \in [Router -> Seq(Entry)]
    /\ triggered \in [Router -> {"none", "SendRouteRequest", "DoSendRouteUpdate"}]
    /\ due \subseteq Router
    /\ up \subseteq Interface
    /\ net \in [Links -> Seq(Message)]
    /\ changes \in 0..MaxChanges
    /\ losses \in 0..MaxLosses

\* No router believes in, or advertises, a path shorter than the shortest one
\* there is with all interfaces up, whatever is lost, repeated, timed out or
\* taken over from another gateway.
NeverTooShort ==
    /\ \A r \in Router : \A k \in DOMAIN routes[r] : routes[r][k].metric >= ShortestEver[r]
    /\ \A l \in Links : \A j \in DOMAIN net[l] :
          net[l][j].command = "RESPONSE"
            => \A k \in DOMAIN net[l][j].rtes : net[l][j].rtes[k] >= ShortestEver[l[1]]

\* A route that can be used is never deleted by an event of the time it could
\* not, only a connected network stays without an event, and a route that is
\* timing out although it is invalid has metric infinity.
RoutesAge ==
    \A r \in Router : \A k \in DOMAIN routes[r] :
        LET e == routes[r][k] IN
        CASE e.event = "none" -> e.status = "RIP_VALID" /\ e.gateway = Stub
          [] e.event = "InvalidateRoute" ->
                e.gateway # Stub
                  /\ (e.status = "RIP_INVALID" => e.metric = LinkDown)
          [] e.event = "DeleteRoute" -> e.status = "RIP_INVALID"

\* The tables are consistent.
Consistent == TypeOK /\ RoutesAge

\* What n may have heard last of the routes of r: the metric of one of them, or
\* infinity when there is none.  Of several, as r has them when its network goes
\* down and comes back, the last one told counts until it is deleted.
Heard(r, n) ==
    {Told(routes[r][k], n) : k \in DOMAIN routes[r]}
      \cup (IF routes[r] = <<>> \/ <<r, Stub>> \in Unstable THEN {LinkDown} ELSE {})

\* Every change is told, be it by a triggered or a periodic update that cancels
\* it, and understood, and no route times out that its gateway still has: over a
\* link that lost nothing, once the message has arrived and no route of r is
\* marked any more, who goes through r has the metric of r and the cost of the
\* link, infinity when the route is gone.  Not so under split horizon, where the
\* route of r that came from n is withdrawn without a word to n.
NeighboursAgree ==
    \A l \in Links :
        LET r == l[1]
            n == l[2]
        IN  /\ strategy # "SPLIT_HORIZON"
            /\ losses = 0
            /\ {l, <<n, r>>} \cap Unstable = {}
            /\ net[l] = <<>>
            /\ \A k \in DOMAIN routes[r] : ~routes[r][k].changed
            => \A k \in DOMAIN routes[n] :
                  routes[n][k].gateway = r
                    => \E m \in Heard(r, n) : routes[n][k].metric = Offer(m, l)

\* Whatever fails, as long as it fails a bounded number of times: in the end
\* every router has the metric of the shortest path that is left, and
\* infinity when there is none.
Converges == <>[](\A r \in Router : Lookup(r) = Distance(up)[r])
=============================================================================
