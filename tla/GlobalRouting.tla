--------------------------- MODULE GlobalRouting ---------------------------
(***************************************************************************)
(* Global routing (global-router-interface.cc, global-route-manager-       *)
(* impl.cc, candidate-queue.cc, ipv4-global-routing.cc): every router      *)
(* describes its links in LSAs, the manager computes the shortest path     *)
(* tree of each router in turn, as OSPF does, and fills the router's       *)
(* tables; when an interface goes down or up all is computed anew.         *)
(*                                                                         *)
(* A segment is a point-to-point link or a LAN.  An interface is its       *)
(* segment with its router and stands for its address; the lowest address  *)
(* of a segment is that of its lowest router, and the routers are in the   *)
(* order of NodeList.  One external network is injected.                   *)
(***************************************************************************)
EXTENDS Integers, Sequences, FiniteSets, SequencesExt

CONSTANTS
    N,              \* how many routers
    Members,        \* the routers on each segment, a sequence of sets
    Lans,           \* the segments that are LANs
    Metrics,        \* what Ipv4::GetMetric may return, by interface
    Injectors,      \* the routers that inject the route
    MaxChanges      \* bound: how many interfaces stop forwarding or go down

Routers == 1..N
Segments == DOMAIN Members
Interfaces == {i \in Segments \X Routers : i[2] \in Members[i[1]]}

ASSUME GlobalAssumption ==
    /\ N \in Nat
    /\ Members \in Seq((SUBSET Routers) \ {{}})
    /\ Lans \subseteq Segments /\ \A s \in Segments \ Lans : Cardinality(Members[s]) = 2
    /\ Metrics \subseteq [Interfaces -> Nat]
    /\ Injectors \subseteq Routers
    /\ MaxChanges \in Nat

VARIABLES
    metric,     \* of each interface
    ifState,    \* of each interface: "up", "noForward" or "down"
    changes,    \* how many interfaces have been changed
    lsdb,       \* m_lsdb: the LSA of each vertex, NoLsa if there is none
    root,       \* the router whose tree is computed, N + 1 in the end
    phase,      \* where SPFCalculate is
    current,    \* v, the vertex added last
    status,     \* GetStatus of the LSA of each vertex
    spf,        \* the SPFVertex of each vertex
    candidate,  \* CandidateQueue
    hosts, networks, externals, \* the tables of each router: destination and exit
    failed      \* an assertion failed, or a null pointer was followed

topologyVars == <<metric, ifState, changes>>
spfVars == <<current, status, spf, candidate>>
tableVars == <<hosts, networks, externals>>
vars == <<topologyVars, lsdb, root, phase, spfVars, tableVars, failed>>

Router(r) == <<"router", r>>
Network(s) == <<"network", s>>
Vertices == {Router(r) : r \in Routers} \cup {Network(s) : s \in Lans}
IsNetwork(v) == v[1] = "network"

NoLsa == <<>>
NoHop == <<0, 0>>
Default == 0
Unreached == [distance |-> 0, exits |-> {}, parents |-> {}]

-----------------------------------------------------------------------------
(* GlobalRouter: the LSAs *)

Stub(s, m) == [type |-> "StubNetwork", id |-> s, data |-> s, metric |-> m]
Link(s, r, v, m) == [type |-> "Link", id |-> v, data |-> <<s, r>>, metric |-> m]

\* The router at the other end of a point-to-point link.
Peer(s, r) == CHOOSE o \in Members[s] : o # r

\* Mutant: the state of the remote interface does not matter.
ProcessPointToPointLinkBlind(s, r) ==
    <<Link(s, r, Router(Peer(s, r)), metric[<<s, r>>])>> \o <<Stub(s, metric[<<s, r>>])>>

ProcessPointToPointLink(s, r) ==
    LET m == metric[<<s, r>>]
        o == Peer(s, r)
    IN  (IF ifState[<<s, o>>] = "down" THEN <<>> ELSE <<Link(s, r, Router(o), m)>>) \o <<Stub(s, m)>>

\* Another router makes a LAN a transit network, whatever its interface.
ProcessSingleBroadcastLink(s, r) ==
    LET m == metric[<<s, r>>]
    IN  IF Members[s] = {r} THEN <<Stub(s, m)>> ELSE <<Link(s, r, Network(s), m)>>

\* The link records of a router: of interfaces that are up and forward.
RouterLsa(r) ==
    LET on(s) == IF r \notin Members[s] \/ ifState[<<s, r>>] # "up" THEN <<>>
                 ELSE IF s \in Lans THEN ProcessSingleBroadcastLink(s, r)
                 ELSE ProcessPointToPointLink(s, r)
    IN  FlattenSeq([s \in Segments |-> on(s)])

\* The lowest address that is up designates the router; the network has an LSA if that
\* router forwards there and is not alone.  Attached are all that are up.
NetworkLsa(s) ==
    LET alive == {r \in Members[s] : ifState[<<s, r>>] # "down"}
        attached == SetToSortSeq(alive, <)
    IN  IF alive # {} /\ ifState[<<s, attached[1]>>] = "up" /\ Cardinality(Members[s]) > 1
        THEN [i \in DOMAIN attached |-> <<s, attached[i]>>] ELSE NoLsa

BuildGlobalRoutingDatabase ==
    [v \in Vertices |-> IF IsNetwork(v) THEN NetworkLsa(v[2]) ELSE RouterLsa(v[2])]

\* GetLSAByLinkData: the router that has this address on a transit network.
HasLinkData(a) == \E i \in DOMAIN lsdb[Router(a[2])] :
    lsdb[Router(a[2])][i].type = "Link" /\ lsdb[Router(a[2])][i].data = a

-----------------------------------------------------------------------------
(* The candidate queue *)

\* Mutant: networks do not come first.
CompareDistanceOnly(s, v, w) == s[v].distance < s[w].distance

CompareSPFVertex(s, v, w) ==
    \/ s[v].distance < s[w].distance
    \/ s[v].distance = s[w].distance /\ IsNetwork(v) /\ ~ IsNetwork(w)

\* std::upper_bound
Push(s, queue, v) ==
    LET before == SelectSeq(queue, LAMBDA w : ~ CompareSPFVertex(s, v, w))
    IN  before \o <<v>> \o SubSeq(queue, Len(before) + 1, Len(queue))

\* Mutant: the order of the queue is left as it was.
ReorderNot(s, queue) == queue

\* The stable sort: vertex by vertex into its place.
Reorder(s, queue) == FoldLeft(LAMBDA q, v : Push(s, q, v), <<>>, queue)

-----------------------------------------------------------------------------
(* SPFNext *)

\* The first link of router w back to vertex v.
LinksBack(w, v) == SelectSeq(lsdb[w], LAMBDA l : l.type = "Link" /\ l.id = v)

\* SPFNexthopCalculation: from where the root leaves for w, reached from v by link l.
Exits(s, v, w, l) ==
    IF v = Router(root)
    THEN IF IsNetwork(w) THEN {[hop |-> NoHop, oif |-> w[2]]}
         ELSE {[hop |-> LinksBack(w, v)[1].data, oif |-> l.data[1]]}
    ELSE IF IsNetwork(v) /\ Router(root) \in s[v].parents
    THEN {[hop |-> LinksBack(w, v)[1].data, oif |-> e.oif] : e \in s[v].exits}
    ELSE s[v].exits

\* GetRootExitDirection () wants one exit, and a router next to the root a link back.
ExitsFail(s, v, w) ==
    \/ v = Router(root) /\ ~ IsNetwork(w) /\ LinksBack(w, v) = <<>>
    \/ IsNetwork(v) /\ Cardinality(s[v].exits) > 1

\* MergeRootExitDirections and MergeParent
Merged(old, new) == [old EXCEPT !.exits = @ \cup new.exits, !.parents = @ \cup new.parents]

\* One link of v, to w at this distance.
Considered(c, v, w, l, distance) ==
    LET new == [distance |-> distance, exits |-> Exits(c.spf, v, w, l), parents |-> {v}]
        s(entry) == [c.spf EXCEPT ![w] = entry]
        explored == c.status[w] = "CANDIDATE"
    IN  IF c.failed \/ c.status[w] = "IN_SPFTREE" \/ (explored /\ c.spf[w].distance < distance) THEN c
        ELSE IF ExitsFail(c.spf, v, w) THEN [c EXCEPT !.failed = TRUE]
        ELSE IF ~ explored
        THEN [c EXCEPT !.spf = s(new), !.status[w] = "CANDIDATE", !.candidate = Push(s(new), @, w)]
        ELSE IF c.spf[w].distance = distance
        THEN [c EXCEPT !.spf = s(Merged(c.spf[w], new))]
        ELSE [c EXCEPT !.spf = s(new), !.candidate = Reorder(s(new), @)]

\* All links of the router, or of the network, that v is.  NS_ASSERT (w_lsa)
Relaxed(v) ==
    LET c == [spf |-> spf, status |-> status, candidate |-> candidate, failed |-> FALSE]
        link(d, l) ==
            IF l.type = "StubNetwork" THEN d
            ELSE IF IsNetwork(l.id) /\ lsdb[l.id] = NoLsa THEN [d EXCEPT !.failed = TRUE]
            ELSE Considered(d, v, l.id, l, spf[v].distance + l.metric)
        attached(d, a) ==
            IF HasLinkData(a) THEN Considered(d, v, Router(a[2]), NoHop, spf[v].distance) ELSE d
    IN  IF IsNetwork(v) THEN FoldLeft(attached, c, lsdb[v]) ELSE FoldLeft(link, c, lsdb[v])

-----------------------------------------------------------------------------
(* SPFCalculate *)

\* The computation of all tables begins.
InitializeRoutes ==
    /\ root' = 1 /\ phase' = "start"
    /\ hosts' = [r \in Routers |-> {}]
    /\ networks' = [r \in Routers |-> {}]
    /\ externals' = [r \in Routers |-> {}]

\* GlobalRouteManagerLSDB::Initialize, for the next router of NodeList.
NextRoot ==
    /\ root' = root + 1
    /\ phase' = "start"
    /\ current' = NoHop
    /\ status' = [v \in Vertices |-> "NOT_EXPLORED"]
    /\ spf' = [v \in Vertices |-> Unreached]
    /\ candidate' = <<>>

Transits == SelectSeq(lsdb[Router(root)], LAMBDA l : l.type = "Link")

\* Mutant: only point-to-point links are counted.
StubExitsBlind ==
    LET links == SelectSeq(Transits, LAMBDA l : ~ IsNetwork(l.id))
    IN  IF Len(links) # 1 THEN {}
        ELSE IF LinksBack(links[1].id, Router(root)) = <<>> THEN {}
        ELSE {[hop |-> LinksBack(links[1].id, Router(root))[1].data, oif |-> links[1].data[1]]}

\* The default route of a router with one link, to another router, and a link back.
StubExits ==
    IF Len(Transits) # 1 \/ IsNetwork(Transits[1].id)
       \/ LinksBack(Transits[1].id, Router(root)) = <<>> THEN {}
    ELSE {[hop |-> LinksBack(Transits[1].id, Router(root))[1].data, oif |-> Transits[1].data[1]]}

\* CheckForStubNode: no tree is computed for a router with one link or none.
StubNode ==
    /\ root \in Routers /\ phase = "start" /\ ~ failed
    /\ Transits = <<>> \/ StubExits # {}
    /\ networks' = [networks EXCEPT ![root] = {Default} \X StubExits]
    /\ NextRoot
    /\ UNCHANGED <<topologyVars, lsdb, hosts, externals, failed>>

SPFCalculate ==
    /\ root \in Routers /\ phase = "start" /\ ~ failed
    /\ Transits # <<>> /\ StubExits = {}
    /\ current' = Router(root)
    /\ status' = [status EXCEPT ![Router(root)] = "IN_SPFTREE"]
    /\ phase' = "next"
    /\ UNCHANGED <<topologyVars, lsdb, root, spf, candidate, tableVars, failed>>

SPFNext ==
    /\ phase = "next" /\ ~ failed
    /\ LET c == Relaxed(current)
       IN  /\ spf' = c.spf /\ status' = c.status /\ candidate' = c.candidate
           /\ failed' = c.failed
           /\ phase' = IF c.candidate = <<>> THEN "stubs" ELSE "pop"
    /\ UNCHANGED <<topologyVars, lsdb, root, current, tableVars>>

\* The closest candidate joins the tree and its own addresses, or its network, the
\* tables: SPFIntraAddRouter and SPFIntraAddTransit.
Pop ==
    /\ phase = "pop" /\ ~ failed
    /\ LET v == Head(candidate)
           toRouter == {i \in Interfaces : ~ IsNetwork(v) /\
                          \E j \in DOMAIN lsdb[v] : /\ lsdb[v][j].type = "Link"
                                                    /\ ~ IsNetwork(lsdb[v][j].id)
                                                    /\ lsdb[v][j].data = i}
           toNetwork == {s \in Lans : v = Network(s)}
       IN  /\ current' = v
           /\ status' = [status EXCEPT ![v] = "IN_SPFTREE"]
           /\ hosts' = [hosts EXCEPT ![root] = @ \cup (toRouter \X spf[v].exits)]
           /\ networks' = [networks EXCEPT ![root] = @ \cup (toNetwork \X spf[v].exits)]
    /\ candidate' = Tail(candidate)
    /\ phase' = "next"
    /\ UNCHANGED <<topologyVars, lsdb, root, spf, externals, failed>>

\* The tree is complete: the stub networks of its routers and the injected route follow,
\* SPFProcessStubs and ProcessASExternals.
SPFProcessStubs ==
    /\ phase = "stubs" /\ ~ failed
    /\ LET others == {r \in Routers \ {root} : status[Router(r)] = "IN_SPFTREE"}
           stubs(r) == {lsdb[Router(r)][i].id : i \in {j \in DOMAIN lsdb[Router(r)] :
                                                    lsdb[Router(r)][j].type = "StubNetwork"}}
       IN  /\ networks' = [networks EXCEPT ![root] =
                             @ \cup UNION {stubs(r) \X spf[Router(r)].exits : r \in others}]
           /\ externals' = [externals EXCEPT ![root] =
                              UNION {{r} \X spf[Router(r)].exits : r \in others \cap Injectors}]
    /\ NextRoot
    /\ UNCHANGED <<topologyVars, lsdb, hosts, failed>>

-----------------------------------------------------------------------------
(* Interfaces *)

Done == root = N + 1

\* Ipv4GlobalRouting::NotifyInterfaceDown and Up, when RespondToInterfaceEvents is set.
NotifyInterface ==
    /\ Done
    /\ UNCHANGED metric
    /\ lsdb' = BuildGlobalRoutingDatabase'
    /\ InitializeRoutes
    /\ UNCHANGED <<spfVars, failed>>

InterfaceDown(i) ==
    /\ changes < MaxChanges /\ ifState[i] = "up"
    /\ ifState' = [ifState EXCEPT ![i] = "down"]
    /\ changes' = changes + 1
    /\ NotifyInterface

InterfaceUp(i) ==
    /\ ifState[i] = "down"
    /\ ifState' = [ifState EXCEPT ![i] = "up"]
    /\ changes' = changes
    /\ NotifyInterface

Init ==
    /\ metric \in Metrics
    /\ \E quiet \in SUBSET Interfaces :
          /\ Cardinality(quiet) <= MaxChanges
          /\ ifState = [i \in Interfaces |-> IF i \in quiet THEN "noForward" ELSE "up"]
          /\ changes = Cardinality(quiet)
    /\ lsdb = BuildGlobalRoutingDatabase
    /\ root = 1 /\ phase = "start" /\ current = NoHop
    /\ status = [v \in Vertices |-> "NOT_EXPLORED"]
    /\ spf = [v \in Vertices |-> Unreached]
    /\ candidate = <<>>
    /\ hosts = [r \in Routers |-> {}]
    /\ networks = [r \in Routers |-> {}]
    /\ externals = [r \in Routers |-> {}]
    /\ failed = FALSE

Next ==
    \/ StubNode \/ SPFCalculate \/ SPFNext \/ Pop \/ SPFProcessStubs
    \/ \E i \in Interfaces : InterfaceDown(i)
    \/ \E i \in Interfaces : InterfaceUp(i)

Spec == Init /\ [][Next]_vars
-----------------------------------------------------------------------------
(* Forwarding *)

External == NoHop

\* LookupGlobal: host routes, then networks, then the first injected route.
LookupGlobal(u, a) ==
    LET host == {h \in hosts[u] : h[1] = a}
        network == {n \in networks[u] : n[1] \in {Default, a[1]}}
        first == {x \in externals[u] : \A y \in externals[u] : x[1] <= y[1]}
        found == IF host # {} THEN host ELSE IF network # {} \/ a # External THEN network ELSE first
    IN  {f[2] : f \in found}

\* Where the packet goes by its interface's route, not by global routing.
IsDirect(u, a) ==
    IF a = External THEN u \in Injectors
    ELSE u = a[2] \/ (<<a[1], u>> \in Interfaces /\ ifState[<<a[1], u>>] # "down")

\* By this exit the packet comes to an interface that takes it, of one of these routers.
LeadsTo(u, a, e, those) ==
    LET next == IF e.hop = NoHop THEN a ELSE e.hop
    IN  /\ next \in Interfaces /\ next[1] = e.oif /\ next[2] \in those
        /\ ifState[<<e.oif, u>>] = "up" /\ ifState[next] = "up"

\* From where a packet to a arrives in at most k hops, whichever of its routes each
\* router takes.
Arriving(a) ==
    LET within[k \in 0..N] ==
          IF k = 0 THEN {u \in Routers : IsDirect(u, a)}
          ELSE LET those == within[k - 1]
               IN  those \cup {u \in Routers : /\ LookupGlobal(u, a) # {}
                                               /\ \A e \in LookupGlobal(u, a) : LeadsTo(u, a, e, those)}
    IN  within[N]

-----------------------------------------------------------------------------
(* Reference: what the tables should be *)

Infinity == 1000

\* The links from u to w that both advertise, with their costs.
Ways(u, w) ==
    {s \in Segments : /\ u # w /\ {<<s, u>>, <<s, w>>} \subseteq Interfaces
                      /\ ifState[<<s, u>>] = "up"
                      /\ ifState[<<s, w>>] = "up" \/ (s \notin Lans /\ ifState[<<s, w>>] # "down")}

Least(S) == IF S = {} THEN Infinity ELSE CHOOSE x \in S : \A y \in S : x <= y

\* The length of the shortest path between two routers: of the paths of at most k links
\* as triples of both ends and the length, the shortest are kept.
Distance ==
    LET links == {<<i[2], w, metric[i]>> : <<i, w>> \in
                    {x \in Interfaces \X Routers : x[1][1] \in Ways(x[1][2], x[2])}}
        shortest(P) == {p \in P : \A q \in P : <<p[1], p[2]>> = <<q[1], q[2]>> => p[3] <= q[3]}
        upTo[k \in 0..N] ==
          IF k = 0 THEN {<<u, u, 0>> : u \in Routers}
          ELSE LET before == upTo[k - 1]
               IN  shortest(before \cup {<<x[1][1], x[2][2], x[1][3] + x[2][3]>> :
                                           x \in {y \in before \X links : y[1][2] = y[2][1]}})
        paths == upTo[N]
    IN  [p \in Routers \X Routers |-> Least({q[3] : q \in {x \in paths : <<x[1], x[2]>> = p}})]

\* To a LAN, from the router u, with the distances d.
ToLan(d, u, s) ==
    Least({d[<<u, r>>] + metric[<<s, r>>] : r \in {x \in Members[s] : ifState[<<s, x>>] = "up"}})

\* The exits by which the shortest paths from u to the router w begin.
FirstHops(d, u, w) ==
    {[hop |-> <<l[1], l[2]>>, oif |-> l[1]] :
        l \in {x \in Segments \X Routers : /\ x[1] \in Ways(u, x[2])
                                           /\ metric[<<x[1], u>>] + d[<<x[2], w>>] = d[<<u, w>>]}}

\* The exits by which the shortest paths from u to the LAN s begin.
LanExits(d, u, s) ==
    LET near == {r \in Members[s] : /\ ifState[<<s, r>>] = "up"
                                    /\ d[<<u, r>>] + metric[<<s, r>>] = ToLan(d, u, s)}
    IN  UNION {IF r = u THEN {[hop |-> NoHop, oif |-> s]} ELSE FirstHops(d, u, r) : r \in near}

-----------------------------------------------------------------------------
(* Properties *)

InTree == {v \in Vertices : status[v] = "IN_SPFTREE"}

TypeOK ==
    /\ root \in 1..(N + 1)
    /\ phase \in {"start", "next", "pop", "stubs"}
    /\ ToSet(candidate) = {v \in Vertices : status[v] = "CANDIDATE"}
    /\ IsInjective(candidate)
    /\ \A v \in InTree \cup ToSet(candidate) :
          /\ spf[v].distance \in Nat
          /\ spf[v].parents \subseteq InTree
          /\ v # Router(root) => spf[v].exits # {}
    /\ changes \in 0..MaxChanges

\* What joins the tree joins it at its least distance from the root, however often the
\* queue was reordered.
PoppedIsShortest ==
    LET d == Distance
    IN  \A v \in InTree :
          spf[v].distance = IF IsNetwork(v) THEN ToLan(d, root, v[2]) ELSE d[<<root, v[2]>>]

\* The tree is consistent.
Consistent == TypeOK /\ PoppedIsShortest

\* A router in the tree has the exits of all its shortest paths, and no other: next hop
\* and interface, through networks and routers, merged in whatever order they are met.
\* The computation fails for two reasons only: an interface that is up does not forward,
\* or a LAN is reached by several exits equally well.
ExitsAreAllShortest ==
    LET d == Distance
    IN  IF failed
        THEN \/ \E i \in Interfaces : ifState[i] = "noForward"
             \/ \E s \in Lans : Cardinality(LanExits(d, root, s)) > 1
        ELSE \A v \in InTree \ {Router(root)} :
               spf[v].exits = IF IsNetwork(v) THEN LanExits(d, root, v[2])
                              ELSE FirstHops(d, root, v[2])

\* When the tables are complete, a packet to any address that can be reached arrives,
\* whichever of its routes each router takes: no table is older than another, default
\* routes of stub nodes and injected routes lead somewhere.
EveryRouteArrives ==
    Done =>
    LET d == Distance
        reach(u) == {i \in Interfaces : ifState[i] = "up" /\ d[<<u, i[2]>>] < Infinity}
        injects(u) == \E r \in Injectors : d[<<u, r>>] < Infinity
    IN  \A u \in Routers :
          /\ \A a \in reach(u) : u \in Arriving(a)
          /\ injects(u) => u \in Arriving(External)
=============================================================================
