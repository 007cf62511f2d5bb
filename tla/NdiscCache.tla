----------------------------- MODULE NdiscCache -----------------------------
(***************************************************************************)
(* One node's IPv6 neighbour cache (ndisc-cache.cc) driven by              *)
(* Icmpv6L4Protocol (icmpv6-l4-protocol.cc): the IPv6 interface offers     *)
(* packets to Lookup; an unknown neighbour is solicited while its packets  *)
(* wait; a known one is REACHABLE for a time, then STALE, and probed after *)
(* it is used again.                                                       *)
(*                                                                         *)
(* Each entry has one timer, m_nudTimer.  Its value here is the function   *)
(* it will call: delays are left out, a running timer may fire at any      *)
(* time.  The network is left out too: a neighbour may send any of its     *)
(* messages at any time with any of the link-layer addresses it has used,  *)
(* so messages are lost, delayed, duplicated and reordered; only a         *)
(* solicited advertisement needs a solicitation.  A node turns forwarding  *)
(* on and off freely: router solicitations and router advertisements may   *)
(* both arrive.                                                            *)
(***************************************************************************)
EXTENDS Integers, Sequences

CONSTANTS
    Addr,               \* IPv6 neighbours
    LinkLocal,          \* those with a link-local address
    Macs,               \* link-layer addresses the neighbours use
    NoMac,              \* Address (): no link-layer address
    MaxMulticastSolicit,    \* attribute MaxMulticastSolicit
    MaxUnicastSolicit,      \* attribute MaxUnicastSolicit
    UnresolvedQueueSize,    \* attribute UnresolvedQueueSize
    MaxPackets          \* bound: how many packets the interface offers

ASSUME NdiscAssumption ==
    /\ LinkLocal \subseteq Addr
    /\ NoMac \notin Macs
    /\ MaxMulticastSolicit \in Nat
    /\ MaxUnicastSolicit \in Nat \ {0}
    /\ UnresolvedQueueSize \in Nat \ {0}
    /\ MaxPackets \in Nat

VARIABLES
    cache,      \* the entry of each address, Absent without one
    global,     \* the interface has its global address
    asked,      \* history: addresses that were ever solicited
    fate,       \* what became of each packet offered so far
    dest        \* the destination of each packet offered so far

packetVars == <<fate, dest>>
vars == <<cache, global, asked, packetVars>>

EntryState == {"NONE", "INCOMPLETE", "REACHABLE", "STALE", "DELAY", "PROBE",
               "PERMANENT"}
TimerFunction == {"off", "reachable", "retransmit", "delay", "probe"}
Fate == {"waiting", "sent", "displaced", "reported", "cleared", "misdirected"}

Entry == [state : EntryState, mac : Macs \cup {NoMac}, timer : TimerFunction,
          solicits : 0..(MaxMulticastSolicit + MaxUnicastSolicit),
          waiting : Seq(Nat)]

Absent == [state |-> "NONE", mac |-> NoMac, timer |-> "off", solicits |-> 0,
           waiting |-> <<>>]

In(a, S) == cache[a].state \in S

\* The node finds a source address for messages to a.
HasSource(a) == a \in LinkLocal \/ global

Init ==
    /\ cache = [a \in Addr |-> Absent]
    /\ global = TRUE
    /\ asked = {}
    /\ fate = <<>>
    /\ dest = <<>>

Put(a, e) == cache' = [cache EXCEPT ![a] = e]

Packet == Len(fate) + 1

\* The packets that wait for the addresses of A all get fate f.
Settled(A, f) ==
    [p \in DOMAIN fate |->
        IF fate[p] = "waiting" /\ dest[p] \in A THEN f ELSE fate[p]]

-----------------------------------------------------------------------------
(* Lookup: the interface offers a packet for destination a. *)

Offer(a, f) ==
    /\ fate' = Append(fate, f)
    /\ dest' = Append(dest, a)

\* First contact: MarkIncomplete, SendNS and the retransmission timer.  A node
\* without a global address removes the entry of a global destination at once.
LookupNew(a) ==
    /\ In(a, {"NONE"})
    /\ IF HasSource(a)
         THEN /\ Put(a, [Absent EXCEPT !.state = "INCOMPLETE",
                                       !.timer = "retransmit",
                                       !.waiting = <<Packet>>])
              /\ asked' = asked \cup {a}
              /\ Offer(a, "waiting")
         ELSE /\ Offer(a, "cleared")
              /\ UNCHANGED <<cache, asked>>

LookupKnown(a) ==
    /\ In(a, {"REACHABLE", "DELAY", "PERMANENT"})
    /\ Offer(a, "sent")
    /\ UNCHANGED <<cache, asked>>

\* Mutant: MarkDelay without StartDelayTimer.
LookupStaleUntimed(a) ==
    /\ In(a, {"STALE"})
    /\ Put(a, [cache[a] EXCEPT !.state = "DELAY"])
    /\ Offer(a, "sent")
    /\ UNCHANGED asked

LookupStale(a) ==
    /\ In(a, {"STALE"})
    /\ Put(a, [cache[a] EXCEPT !.state = "DELAY", !.timer = "delay"])
    /\ Offer(a, "sent")
    /\ UNCHANGED asked

\* Mutant: a full queue grows by the new packet all the same.
LookupQueuedOffByOne(a) ==
    LET q == cache[a].waiting
        full == Len(q) > UnresolvedQueueSize
    IN  /\ In(a, {"INCOMPLETE", "PROBE"})
        /\ Put(a, [cache[a] EXCEPT !.waiting =
                     Append(IF full THEN Tail(q) ELSE q, Packet)])
        /\ fate' = Append(IF full THEN [fate EXCEPT ![Head(q)] = "displaced"]
                                  ELSE fate, "waiting")
        /\ dest' = Append(dest, a)
        /\ UNCHANGED asked

\* AddWaitingPacket: the oldest packet makes room in a full queue.
LookupQueued(a) ==
    LET q == cache[a].waiting
        full == Len(q) >= UnresolvedQueueSize
    IN  /\ In(a, {"INCOMPLETE", "PROBE"})
        /\ Put(a, [cache[a] EXCEPT !.waiting =
                     Append(IF full THEN Tail(q) ELSE q, Packet)])
        /\ fate' = Append(IF full THEN [fate EXCEPT ![Head(q)] = "displaced"]
                                  ELSE fate, "waiting")
        /\ dest' = Append(dest, a)
        /\ UNCHANGED asked

Lookup(a) ==
    /\ Len(fate) < MaxPackets
    /\ \/ LookupNew(a)
       \/ LookupKnown(a)
       \/ LookupStale(a)
       \/ LookupQueued(a)
    /\ UNCHANGED global

-----------------------------------------------------------------------------
(* Messages of neighbour a, which now uses link-layer address m. *)

\* Mutant: MarkStale (mac) drops the packets that the entry still holds.
MarkedStaleCleared(e, m) ==
    [e EXCEPT !.state = "STALE", !.mac = m, !.waiting = <<>>]

\* MarkStale (mac).  The timer keeps running, and the packets it returns stay
\* in the entry: no caller sends them.
MarkedStale(e, m) == [e EXCEPT !.state = "STALE", !.mac = m]

\* The entry is new, or m differs from the address it has.
Learn(a, m) ==
    /\ Put(a, IF cache[a].mac # m THEN MarkedStale(cache[a], m) ELSE cache[a])
    /\ UNCHANGED <<global, asked, packetVars>>

\* The solicitation of a neighbour carries its link-layer address.
HandleNS(a, m) == Learn(a, m)
HandleRS(a, m) == Learn(a, m)

\* A redirection names target a and its link-layer address.
HandleRedirection(a, m) == Learn(a, m)

\* StopNudTimer, MarkReachable (mac) and StartReachableTimer.
MarkedReachable(e, m) ==
    [e EXCEPT !.state = "REACHABLE", !.mac = m, !.timer = "reachable",
              !.solicits = 0]

\* ... with the waiting packets sent and cleared.
Release(a, e, f) ==
    /\ Put(a, [e EXCEPT !.waiting = <<>>])
    /\ fate' = Settled({a}, f)
    /\ UNCHANGED dest

\* ReceiveLLA: the source link-layer address of a router advertisement.  The
\* packets of an entry in PROBE are not sent: its state is tested after it has
\* become REACHABLE.
ReceiveLLA(a, m) ==
    LET e == cache[a] IN
    /\ IF In(a, {"INCOMPLETE"})
         THEN Release(a, MarkedReachable(e, m), "sent")
         ELSE /\ Put(a, IF e.state = "NONE" \/ e.mac = m
                          THEN MarkedReachable(e, m) ELSE MarkedStale(e, m))
              /\ UNCHANGED packetVars
    /\ UNCHANGED <<global, asked>>

StopNudTimer(e) == [e EXCEPT !.timer = "off", !.solicits = 0]

\* HandleNA for an INCOMPLETE entry.
AdvertisedFirst(a, m, s) ==
    /\ In(a, {"INCOMPLETE"})
    /\ IF s THEN Release(a, MarkedReachable(cache[a], m), "sent")
            ELSE /\ Put(a, MarkedStale(StopNudTimer(cache[a]), m))
                 /\ UNCHANGED packetVars

\* Another address without the override flag: the timer is stopped and only a
\* REACHABLE entry changes its state.
AdvertisedDifferent(a, m, o) ==
    /\ ~In(a, {"NONE", "INCOMPLETE"})
    /\ ~o /\ m # cache[a].mac
    /\ LET e == StopNudTimer(cache[a]) IN
       Put(a, [e EXCEPT !.state = IF @ = "REACHABLE" THEN "STALE" ELSE @])
    /\ UNCHANGED packetVars

\* The same address, or one that overrides it.  Without the solicited flag the
\* entry keeps its state: SetMacAddress has just made the addresses equal, so
\* the test for MarkStale fails.
AdvertisedAgain(a, m, s, o) ==
    /\ ~In(a, {"NONE", "INCOMPLETE"})
    /\ o \/ m = cache[a].mac
    /\ IF s THEN IF In(a, {"PROBE"})
                   THEN Release(a, MarkedReachable(cache[a], m), "sent")
                   ELSE /\ Put(a, MarkedReachable(cache[a], m))
                        /\ UNCHANGED packetVars
            ELSE /\ Put(a, [StopNudTimer(cache[a]) EXCEPT !.mac = m])
                 /\ UNCHANGED packetVars

\* s and o are the flags of the advertisement.  Without an entry it concerns
\* duplicate address detection only.
HandleNA(a, m, s, o) ==
    /\ s => a \in asked
    /\ \/ AdvertisedFirst(a, m, s)
       \/ AdvertisedDifferent(a, m, o)
       \/ AdvertisedAgain(a, m, s, o)
    /\ UNCHANGED <<global, asked>>

\* A packet arrived from a: UpdateReachableTimer.
UpdateReachableTimer(a) ==
    /\ In(a, {"REACHABLE"})
    /\ Put(a, [cache[a] EXCEPT !.timer = "reachable"])
    /\ UNCHANGED <<global, asked, packetVars>>

\* The transport layer confirms a.  The packets that wait in PROBE are sent to
\* the address they come from, it->second.GetSource ().
ReachabilityHint(a) ==
    LET e == [MarkedReachable(cache[a], cache[a].mac)
                EXCEPT !.solicits = cache[a].solicits]
    IN  /\ IF In(a, {"PROBE"})
             THEN Release(a, e, "misdirected")
             ELSE /\ In(a, {"REACHABLE", "STALE", "DELAY"})
                  /\ Put(a, e)
                  /\ UNCHANGED packetVars
        /\ UNCHANGED <<global, asked>>

-----------------------------------------------------------------------------
(* The timer of an entry calls its function. *)

Remove(a, f) ==
    /\ Put(a, Absent)
    /\ fate' = f
    /\ UNCHANGED dest

\* The timer expired with function f.
Expired(a, f) == cache[a].timer = f

FunctionReachableTimeout(a) ==
    /\ Expired(a, "reachable")
    /\ Put(a, [cache[a] EXCEPT !.state = "STALE", !.timer = "off"])
    /\ UNCHANGED <<global, asked, packetVars>>

\* Mutant: the retries are not counted.
FunctionRetransmitTimeoutUncounted(a) ==
    /\ Expired(a, "retransmit")
    /\ UNCHANGED <<cache, global, asked, packetVars>>

\* Give up after MaxMulticastSolicit retries: the sender of the first waiting
\* packet gets an ICMP error, the others are cleared with the entry.
FunctionRetransmitTimeout(a) ==
    LET e == cache[a] IN
    /\ Expired(a, "retransmit")
    /\ IF ~HasSource(a) THEN Remove(a, Settled({a}, "cleared"))
       ELSE IF e.solicits < MaxMulticastSolicit
         THEN /\ Put(a, [e EXCEPT !.solicits = @ + 1])
              /\ UNCHANGED packetVars
         ELSE Remove(a, [Settled({a}, "cleared")
                           EXCEPT ![Head(e.waiting)] = "reported"])
    /\ UNCHANGED <<global, asked>>

FunctionDelayTimeout(a) ==
    /\ Expired(a, "delay")
    /\ IF HasSource(a)
         THEN /\ Put(a, [cache[a] EXCEPT !.state = "PROBE", !.timer = "probe",
                                         !.solicits = 1])
              /\ asked' = asked \cup {a}
              /\ UNCHANGED packetVars
         ELSE /\ Remove(a, Settled({a}, "cleared"))
              /\ UNCHANGED asked
    /\ UNCHANGED global

\* Mutant: the last probe does not arm the timer again.
FunctionProbeTimeoutUnarmed(a) ==
    /\ Expired(a, "probe")
    /\ Put(a, [cache[a] EXCEPT !.solicits = @ + 1, !.timer = "off"])
    /\ UNCHANGED <<global, asked, packetVars>>

\* Mutant: the probes are not counted.
FunctionProbeTimeoutUncounted(a) ==
    /\ Expired(a, "probe")
    /\ UNCHANGED <<cache, global, asked, packetVars>>

FunctionProbeTimeout(a) ==
    /\ Expired(a, "probe")
    /\ IF cache[a].solicits < MaxUnicastSolicit /\ HasSource(a)
         THEN /\ Put(a, [cache[a] EXCEPT !.solicits = @ + 1])
              /\ UNCHANGED packetVars
         ELSE Remove(a, Settled({a}, "cleared"))
    /\ UNCHANGED <<global, asked>>

-----------------------------------------------------------------------------
(* Configuration. *)

\* The link of the device changes, or the interface goes down: every entry is
\* deleted with its packets.
Flush ==
    /\ cache' = [a \in Addr |-> Absent]
    /\ fate' = Settled(Addr, "cleared")
    /\ UNCHANGED <<global, asked, dest>>

\* A script adds a static entry with SetMacAddress and MarkPermanent.
MarkPermanent(a, m) ==
    /\ In(a, {"NONE"})
    /\ Put(a, [Absent EXCEPT !.state = "PERMANENT", !.mac = m])
    /\ UNCHANGED <<global, asked, packetVars>>

\* The global address of the interface is removed, or added again.
ChangeAddress ==
    /\ global' = ~global
    /\ UNCHANGED <<cache, asked, packetVars>>

Timeout(a) ==
    \/ FunctionReachableTimeout(a)
    \/ FunctionRetransmitTimeout(a)
    \/ FunctionDelayTimeout(a)
    \/ FunctionProbeTimeout(a)

Next ==
    \/ \E a \in Addr :
          \/ Lookup(a)
          \/ UpdateReachableTimer(a)
          \/ ReachabilityHint(a)
          \/ Timeout(a)
          \/ \E m \in Macs :
                \/ HandleNS(a, m)
                \/ HandleRS(a, m)
                \/ HandleRedirection(a, m)
                \/ ReceiveLLA(a, m)
                \/ \E s, o \in BOOLEAN : HandleNA(a, m, s, o)
                \/ MarkPermanent(a, m)
    \/ Flush
    \/ ChangeAddress

\* The simulator runs every timer that is left running.
Fairness == \A a \in Addr : WF_vars(Timeout(a))

Spec == Init /\ [][Next]_vars
FairSpec == Spec /\ Fairness

-----------------------------------------------------------------------------
(* What is promised to the interface. *)

Outcome(f) ==
    CASE f = "waiting" -> "queued"
      [] f = "sent"    -> "sent"
      [] OTHER         -> "lost"

Resolution == INSTANCE AddressResolution WITH
    Limit <- UnresolvedQueueSize,
    DropOldest <- TRUE,
    Overtake <- TRUE,
    fate <- [p \in DOMAIN fate |-> Outcome(fate[p])],
    queue <- [a \in Addr |-> cache[a].waiting]

-----------------------------------------------------------------------------
(* Properties *)

TypeOK ==
    /\ cache \in [Addr -> Entry]
    /\ global \in BOOLEAN
    /\ asked \subseteq Addr
    /\ fate \in Seq(Fate)
    /\ dest \in Seq(Addr)
    /\ Len(fate) = Len(dest)

\* When the retransmission timer of an entry gives up it reports the first
\* waiting packet, m_waiting.front (): there is one, although an entry that
\* is no longer INCOMPLETE may still have this timer running (MarkStale does
\* not stop it, StopNudTimer and the other Start...Timer functions do).
RetransmitHasPacket ==
    \A a \in Addr : Expired(a, "retransmit") => cache[a].waiting # <<>>

\* Only in STALE may the timer of an entry call a function meant for another
\* state, left over from before the entry was marked; an INCOMPLETE entry
\* always has its own timer running.
TimerMatchesState ==
    \A a \in Addr :
        LET e == cache[a] IN
        CASE e.state = "INCOMPLETE" -> e.timer = "retransmit"
          [] e.state = "REACHABLE"  -> e.timer \in {"reachable", "off"}
          [] e.state = "DELAY"      -> e.timer \in {"delay", "off"}
          [] e.state = "PROBE"      -> e.timer \in {"probe", "off"}
          [] e.state = "STALE"      -> TRUE
          [] OTHER                  -> e.timer = "off"

\* The entries are consistent.
Consistent == TypeOK /\ RetransmitHasPacket /\ TimerMatchesState

\* The only thing that can leave an entry in REACHABLE, DELAY or PROBE without
\* a timer, so that nothing but another message takes it out of there, is an
\* advertisement that nobody solicited or that disagrees about the address.
TimerLostOnlyToAdvertisement ==
    [][\A a \in Addr :
         (cache'[a].state \in {"REACHABLE", "DELAY", "PROBE"}
            /\ cache'[a].timer = "off" /\ cache'[a] # cache[a])
           => \/ cache[a].timer = "off" /\ cache'[a].state = cache[a].state
              \/ \E m \in Macs, s, o \in BOOLEAN :
                    HandleNA(a, m, s, o) /\ (~s \/ ~o)]_vars

\* No neighbour is solicited for ever: an entry that is being resolved learns a
\* link-layer address or is removed, and probing ends, unless an advertisement
\* stopped the timer of the entry.
SolicitingEnds ==
    \A a \in Addr :
        /\ In(a, {"INCOMPLETE"}) ~> ~In(a, {"INCOMPLETE"})
        /\ In(a, {"DELAY", "PROBE"})
             ~> (~In(a, {"DELAY", "PROBE"}) \/ Expired(a, "off"))

\* The cache keeps the promise of an address resolution cache, except that a
\* packet may overtake those that were left behind in an entry.
KeepsPromise == Resolution!Spec
=============================================================================
