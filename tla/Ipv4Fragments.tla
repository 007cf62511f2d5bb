--------------------------- MODULE Ipv4Fragments ---------------------------
(***************************************************************************)
(* Fragments on the receiving node of an IPv4 network                      *)
(* (ipv4-l3-protocol.cc): reassembly with one list of timeouts for all     *)
(* packets, and the detection of duplicates of multicast packets.  The     *)
(* network may fragment a packet again on its way, and loses, duplicates   *)
(* and reorders what it carries.                                           *)
(*                                                                         *)
(* Lengths and offsets are in units of eight bytes, times in ticks: an     *)
(* entry or event is kept with the ticks that are left.  A packet stands   *)
(* for its FragmentKey_t; that two packets share one, which takes 65536    *)
(* packets within the timeout, is left out.                                *)
(***************************************************************************)
EXTENDS Integers, Sequences, FiniteSets, SequencesExt

CONSTANTS
    Packets,            \* what is sent to the node
    Multicast,          \* those whose duplicates are detected
    Length,             \* the payload of each, in units
    Mtus,               \* how many units of payload fit on the links
    FragmentTimeout,    \* m_fragmentExpirationTimeout
    DuplicateExpire,    \* m_expire
    PurgePeriod,        \* m_purge
    MaxArrivals         \* bound: how much arrives

ASSUME FragmentsAssumption ==
    /\ Multicast \subseteq Packets
    /\ Length \in [Packets -> Nat \ {0}]
    /\ Mtus \subseteq Nat \ {0}
    /\ {FragmentTimeout, DuplicateExpire, PurgePeriod} \subseteq Nat \ {0}
    /\ MaxArrivals \in Nat

VARIABLES
    fragments,      \* m_fragments
    timeoutList,    \* m_timeoutEventList
    timeoutEvents,  \* how many HandleTimeout are scheduled for each time
    dups,           \* m_dups
    cleanDpd,       \* m_cleanDpd: ticks left, or NotRunning
    delivered,      \* the payloads given to the protocol above
    arrivals        \* how much has arrived

reassemblyVars == <<fragments, timeoutList, timeoutEvents, delivered>>
NotRunning == -1

vars == <<reassemblyVars, dups, cleanDpd, arrivals>>

Init ==
    /\ fragments = <<>>
    /\ timeoutList = <<>>
    /\ timeoutEvents = [t \in 0..FragmentTimeout |-> 0]
    /\ dups = <<>>
    /\ cleanDpd = NotRunning
    /\ delivered = [p \in Packets |-> <<>>]
    /\ arrivals = 0

-----------------------------------------------------------------------------
(* The network *)

Whole(p) == [packet |-> p, offset |-> 0, size |-> Length[p], more |-> FALSE]

\* Mutant: the last piece is always the last fragment.
DoFragmentationEnds(f, mtu) ==
    {[packet |-> f.packet, offset |-> f.offset + o, more |-> o + mtu < f.size,
      size |-> IF o + mtu < f.size THEN mtu ELSE f.size - o] :
        o \in {mtu * i : i \in 0..((f.size - 1) \div mtu)}}

\* The pieces of a packet, or of a fragment, for a link.
DoFragmentation(f, mtu) ==
    {[packet |-> f.packet, offset |-> f.offset + o, more |-> o + mtu < f.size \/ f.more,
      size |-> IF o + mtu < f.size THEN mtu ELSE f.size - o] :
        o \in {mtu * i : i \in 0..((f.size - 1) \div mtu)}}

\* What may arrive of the packets, over one link or two.
OverLinks(pieces) == UNION {DoFragmentation(f, mtu) : f \in pieces, mtu \in Mtus}
OnTheWay == OverLinks(OverLinks({Whole(p) : p \in Packets}))

-----------------------------------------------------------------------------
(* Fragments of one packet: list is ordered by offset, more is m_moreFragment *)

Units(from, n) == [i \in 1..n |-> from + i - 1]
EndOf(e) == e.offset + e.size

\* The iterator: the first fragment that starts after f does, or the end.
InsertBefore(list, f) ==
    Min({i \in DOMAIN list : list[i].offset > f.offset} \cup {Len(list) + 1})

\* Mutant: the flag is that of the fragment that came last.
AddFragmentAnywhere(fs, f) ==
    [list |-> InsertAt(fs.list, InsertBefore(fs.list, f), [offset |-> f.offset, size |-> f.size]),
     more |-> f.more]

\* The flag counts of a fragment that goes to the end.
AddFragment(fs, f) ==
    LET at == InsertBefore(fs.list, f)
    IN  [list |-> InsertAt(fs.list, at, [offset |-> f.offset, size |-> f.size]),
         more |-> IF at > Len(fs.list) THEN f.more ELSE fs.more]

IsEntire(fs) ==
    /\ ~fs.more
    /\ \A i \in DOMAIN fs.list :
          \/ fs.list[i].offset = 0
          \/ \E j \in 1..(i - 1) : EndOf(fs.list[j]) >= fs.list[i].offset

\* Mutant: of an overlapping fragment all is taken.
TakenOverlaps(p, e) == p \o Units(e.offset, e.size)

\* Of a fragment that overlaps what is there only the rest is taken.
Taken(p, e) ==
    IF Len(p) > e.offset
    THEN IF e.size > Len(p) - e.offset THEN p \o Units(Len(p), EndOf(e) - Len(p)) ELSE p
    ELSE p \o Units(e.offset, e.size)

GetPacket(fs) ==
    LET taken[i \in 0..Len(fs.list)] ==
          IF i = 0 THEN <<>> ELSE Taken(taken[i - 1], fs.list[i])
    IN  taken[Len(fs.list)]

\* Mutant: the part ends where its last fragment does.
ReachedShrinks(n, e) == IF n >= e.offset THEN EndOf(e) ELSE n

\* The rest of a fragment within what is there has a size below zero, near 2^32,
\* of which nothing can be taken.
Reached(n, e) == IF n >= e.offset /\ EndOf(e) > n THEN EndOf(e) ELSE n

\* How much there is before the first gap.
PartialPacket(fs) ==
    LET reached[i \in 0..Len(fs.list)] ==
          IF i = 0 THEN 0 ELSE Reached(reached[i - 1], fs.list[i])
    IN  reached[Len(fs.list)]

-----------------------------------------------------------------------------
(* Reassembly *)

Added(fun, k, v) == [x \in DOMAIN fun \cup {k} |-> IF x = k THEN v ELSE fun[x]]
Without(fun, k) == [x \in DOMAIN fun \ {k} |-> fun[x]]

Deliver(p, payload) == delivered' = [delivered EXCEPT ![p] = Append(@, payload)]

SetTimeout(key) ==
    /\ timeoutList' = Append(timeoutList, [key |-> key, left |-> FragmentTimeout])
    /\ timeoutEvents' = IF timeoutList = <<>>
                        THEN [timeoutEvents EXCEPT ![FragmentTimeout] = @ + 1]
                        ELSE timeoutEvents

\* Mutant: the timeout of a packet that is complete stays in the list.
CompleteKeepsTimeout(key, fs) ==
    /\ Deliver(key, GetPacket(fs))
    /\ fragments' = Without(fragments, key)
    /\ UNCHANGED <<timeoutList, timeoutEvents>>

\* The packet is complete.  The iterator kept with it tells which timeout goes;
\* the event is not cancelled.
Complete(key, fs) ==
    /\ Deliver(key, GetPacket(fs))
    /\ fragments' = Without(fragments, key)
    /\ \E i \in DOMAIN timeoutList :
          timeoutList[i].key = key /\ timeoutList' = RemoveAt(timeoutList, i)
    /\ UNCHANGED timeoutEvents

\* The first fragment of a packet never completes it.
ProcessFragment(f) ==
    LET isNew == f.packet \notin DOMAIN fragments
        old == IF isNew THEN [list |-> <<>>, more |-> FALSE] ELSE fragments[f.packet]
        fs == AddFragment(old, f)
    IN  IF IsEntire(fs) THEN Complete(f.packet, fs)
        ELSE /\ fragments' = Added(fragments, f.packet, fs)
             /\ IF isNew THEN SetTimeout(f.packet) ELSE UNCHANGED <<timeoutList, timeoutEvents>>
             /\ UNCHANGED delivered

LocalDeliver(f) ==
    IF f.more \/ f.offset # 0 THEN ProcessFragment(f)
    ELSE Deliver(f.packet, Units(0, f.size)) /\ UNCHANGED <<fragments, timeoutList, timeoutEvents>>

\* Mutant: the event ends with the packets that it drops.
HandleTimeoutEnds ==
    LET due == {i \in DOMAIN timeoutList : \A j \in 1..i : timeoutList[j].left = 0}
        rest == SubSeq(timeoutList, Cardinality(due) + 1, Len(timeoutList))
    IN  /\ timeoutEvents[0] > 0
        /\ fragments' = [p \in DOMAIN fragments \ {timeoutList[i].key : i \in due} |-> fragments[p]]
        /\ timeoutList' = rest
        /\ timeoutEvents' = [timeoutEvents EXCEPT ![0] = @ - 1]
        /\ UNCHANGED <<dups, cleanDpd, delivered, arrivals>>

\* All whose time has come are dropped, from the front of the list on, and the
\* next event is scheduled.  An ICMP message about PartialPacket is left out.
HandleTimeout ==
    LET due == {i \in DOMAIN timeoutList : \A j \in 1..i : timeoutList[j].left = 0}
        rest == SubSeq(timeoutList, Cardinality(due) + 1, Len(timeoutList))
        fired == [timeoutEvents EXCEPT ![0] = @ - 1]
    IN  /\ timeoutEvents[0] > 0
        /\ fragments' = [p \in DOMAIN fragments \ {timeoutList[i].key : i \in due} |-> fragments[p]]
        /\ timeoutList' = rest
        /\ timeoutEvents' = IF rest = <<>> THEN fired
                            ELSE [fired EXCEPT ![rest[1].left] = @ + 1]
        /\ UNCHANGED <<dups, cleanDpd, delivered, arrivals>>

-----------------------------------------------------------------------------
(* Duplicates *)

\* What a packet is known by: a fragment by its offset, a whole packet by a hash.
Hash == -1
DupKey(f) == <<f.packet, IF f.more \/ f.offset # 0 THEN f.offset ELSE Hash>>

IsDuplicate(f) == DupKey(f) \in DOMAIN dups /\ dups[DupKey(f)] > 0

UpdateDuplicate(f) ==
    /\ dups' = Added(dups, DupKey(f), DuplicateExpire)
    /\ cleanDpd' = IF cleanDpd = NotRunning THEN DuplicateExpire ELSE cleanDpd

\* Mutant: the event is not scheduled again.
RemoveDuplicatesOnce ==
    /\ cleanDpd = 0
    /\ dups' = [k \in {x \in DOMAIN dups : dups[x] >= 0} |-> dups[k]]
    /\ cleanDpd' = NotRunning
    /\ UNCHANGED <<reassemblyVars, arrivals>>

RemoveDuplicates ==
    /\ cleanDpd = 0
    /\ dups' = [k \in {x \in DOMAIN dups : dups[x] >= 0} |-> dups[k]]
    /\ cleanDpd' = IF DOMAIN dups' = {} THEN NotRunning ELSE PurgePeriod
    /\ UNCHANGED <<reassemblyVars, arrivals>>

-----------------------------------------------------------------------------
(* Actions *)

\* Ipv4L3Protocol::Receive
Receive(f) ==
    /\ arrivals < MaxArrivals
    /\ arrivals' = arrivals + 1
    /\ IF f.packet \in Multicast THEN UpdateDuplicate(f) ELSE UNCHANGED <<dups, cleanDpd>>
    /\ IF f.packet \in Multicast /\ IsDuplicate(f) THEN UNCHANGED reassemblyVars
       ELSE LocalDeliver(f)

\* Time passes, when no event of the present is left and some are to come.
Tick ==
    /\ timeoutEvents[0] = 0 /\ cleanDpd # 0
    /\ cleanDpd > 0 \/ timeoutList # <<>> \/ \E t \in DOMAIN timeoutEvents : timeoutEvents[t] > 0
    /\ timeoutList' = [i \in DOMAIN timeoutList |-> [timeoutList[i] EXCEPT !.left = @ - 1]]
    /\ timeoutEvents' = [t \in DOMAIN timeoutEvents |->
                           IF t = FragmentTimeout THEN 0 ELSE timeoutEvents[t + 1]]
    /\ dups' = [k \in DOMAIN dups |-> IF dups[k] < 0 THEN dups[k] ELSE dups[k] - 1]
    /\ cleanDpd' = IF cleanDpd = NotRunning THEN cleanDpd ELSE cleanDpd - 1
    /\ UNCHANGED <<fragments, delivered, arrivals>>

Next ==
    \/ \E f \in OnTheWay : Receive(f)
    \/ HandleTimeout
    \/ RemoveDuplicates
    \/ Tick

\* The simulator runs its events in the order of their times.
Spec == Init /\ [][Next]_vars
FairSpec == Spec /\ WF_vars(HandleTimeout \/ RemoveDuplicates \/ Tick)
-----------------------------------------------------------------------------
(* Properties *)

TypeOK ==
    /\ DOMAIN fragments \subseteq Packets
    /\ \A p \in DOMAIN fragments :
          /\ fragments[p].list \in Seq([offset : 0..(Length[p] - 1), size : 1..Length[p]])
          /\ fragments[p].more \in BOOLEAN
    /\ timeoutList \in Seq([key : Packets, left : 0..FragmentTimeout])
    /\ \A t \in DOMAIN timeoutEvents : timeoutEvents[t] \in 0..MaxArrivals
    /\ \A k \in DOMAIN dups : k[1] \in Multicast /\ dups[k] \in -1..DuplicateExpire
    /\ cleanDpd \in {NotRunning} \cup 0..Max({DuplicateExpire, PurgePeriod})
    /\ arrivals \in 0..MaxArrivals

\* Whatever overlaps and in whatever order it came, what is delivered is the
\* payload that was sent, each unit once and in its place.
DeliversTheWhole ==
    \A p \in Packets : \A i \in DOMAIN delivered[p] : delivered[p][i] = Units(0, Length[p])

\* The iterators kept with the fragments are valid: each packet that is incomplete
\* has its one timeout in the list, and no timeout is of any other packet.
EachHasItsTimeout ==
    /\ \A p \in DOMAIN fragments : Cardinality({i \in DOMAIN timeoutList : timeoutList[i].key = p}) = 1
    /\ \A i \in DOMAIN timeoutList : timeoutList[i].key \in DOMAIN fragments

\* The list is in the order of time, and an event comes when, or before, the first
\* of it is due, though packets complete, the list empties and fills, and old
\* events come at odd times.
TimerIsNext ==
    /\ \A i, j \in DOMAIN timeoutList : i < j => timeoutList[i].left <= timeoutList[j].left
    /\ timeoutList # <<>> => \E t \in 0..timeoutList[1].left : timeoutEvents[t] > 0

\* The state of the reassembly is consistent.
Consistent == TypeOK /\ EachHasItsTimeout /\ TimerIsNext

Covered(fs) == UNION {e.offset..(EndOf(e) - 1) : e \in ToSet(fs.list)}

\* All of a packet has come and it still waits in one case only: the last of the
\* list is a piece of the last fragment, which the network fragmented again.  And
\* the part of a packet that a timeout reports by ICMP is all there is before the
\* first gap, however the fragments overlap.
PartsAreKnown ==
    \A p \in DOMAIN fragments :
        LET n == PartialPacket(fragments[p])
            covered == Covered(fragments[p])
        IN  /\ covered = 0..(Length[p] - 1) => EndOf(Last(fragments[p].list)) < Length[p]
            /\ 0..(n - 1) \subseteq covered /\ n \notin covered

\* No event is left behind and nothing is kept for ever: when nothing more
\* arrives, all fragments, duplicates and events are gone in the end.
BecomesQuiet ==
    <>[](/\ fragments = <<>> /\ timeoutList = <<>>
         /\ \A t \in DOMAIN timeoutEvents : timeoutEvents[t] = 0
         /\ dups = <<>> /\ cleanDpd = NotRunning)
=============================================================================
