-------------------------- MODULE NdiscCache_proofs --------------------------
(***************************************************************************)
(* Proofs about NdiscCache, for every set of neighbours and link-layer     *)
(* addresses and every value of the attributes: entries, timers and queues *)
(* agree, a timer is lost only to an advertisement, and the cache keeps    *)
(* the promise of AddressResolution.                                       *)
(***************************************************************************)
EXTENDS NdiscCache, SequenceTheorems, TLAPS

-----------------------------------------------------------------------------
(* Facts about sequences *)

\* A sequence with one more element.
LEMMA AppendFacts ==
    ASSUME NEW S, NEW s \in Seq(S), NEW x \in S
    PROVE  /\ Append(s, x) \in Seq(S) /\ Len(s) \in Nat /\ DOMAIN s = 1..Len(s)
           /\ Len(Append(s, x)) = Len(s) + 1
           /\ DOMAIN Append(s, x) = 1..(Len(s) + 1)
           /\ Append(s, x)[Len(s) + 1] = x
           /\ \A i \in 1..Len(s) : Append(s, x)[i] = s[i]
           /\ Append(s, x) = [i \in 1..(Len(s) + 1) |-> IF i = Len(s) + 1 THEN x ELSE s[i]]
  <1>1. Len(s) \in Nat /\ DOMAIN s = 1..Len(s)
    OBVIOUS
  <1>2. /\ Append(s, x) \in Seq(S) /\ Len(Append(s, x)) = Len(s) + 1
        /\ DOMAIN Append(s, x) = 1..(Len(s) + 1)
        /\ Append(s, x)[Len(s) + 1] = x
        /\ \A i \in 1..Len(s) : Append(s, x)[i] = s[i]
    OBVIOUS
  <1>3. \A i \in 1..(Len(s) + 1) : i = Len(s) + 1 \/ i \in 1..Len(s)
    BY <1>1
  <1>4. \A w \in Seq(S) : w = [i \in 1..Len(w) |-> w[i]]
    OBVIOUS
  <1>5. Append(s, x) = [i \in 1..(Len(s) + 1) |-> Append(s, x)[i]]
    BY <1>2, <1>4
  <1>6. Append(s, x) = [i \in 1..(Len(s) + 1) |-> IF i = Len(s) + 1 THEN x ELSE s[i]]
    BY <1>2, <1>3, <1>5
  <1> QED
    BY <1>1, <1>2, <1>6

\* A sequence without its first element.
LEMMA TailFacts ==
    ASSUME NEW S, NEW s \in Seq(S), s # <<>>
    PROVE  /\ Tail(s) \in Seq(S) /\ Len(s) \in Nat \ {0}
           /\ Len(Tail(s)) = Len(s) - 1 /\ Head(s) = s[1]
           /\ \A i \in 1..(Len(s) - 1) : Tail(s)[i] = s[i + 1]
  OBVIOUS

-----------------------------------------------------------------------------

(* What Consistent says of one entry. *)
TimerFits(e) ==
    CASE e.state = "INCOMPLETE" -> e.timer = "retransmit"
      [] e.state = "REACHABLE"  -> e.timer \in {"reachable", "off"}
      [] e.state = "DELAY"      -> e.timer \in {"delay", "off"}
      [] e.state = "PROBE"      -> e.timer \in {"probe", "off"}
      [] e.state = "STALE"      -> TRUE
      [] OTHER                  -> e.timer = "off"

EntryOK(e) ==
    /\ e.timer = "retransmit" => e.waiting # <<>>
    /\ TimerFits(e)

-----------------------------------------------------------------------------
(* Entries *)

LEMMA ConsistentByEntry ==
    Consistent <=> TypeOK /\ \A a \in Addr : EntryOK(cache[a])
  BY DEF Consistent, RetransmitHasPacket, TimerMatchesState, EntryOK, TimerFits, Expired

LEMMA AbsentOK == Absent \in Entry /\ EntryOK(Absent)
  <1>1. Absent \in Entry
    BY NdiscAssumption DEF Absent, Entry, EntryState, TimerFunction
  <1> QED
    BY <1>1 DEF Absent, EntryOK, TimerFits

\* The marks that messages put on an entry.
LEMMA MarksOK ==
    ASSUME NEW e \in Entry, NEW m \in Macs \cup {NoMac}
    PROVE  /\ MarkedReachable(e, m) \in Entry /\ EntryOK(MarkedReachable(e, m))
           /\ MarkedStale(e, m) \in Entry
           /\ EntryOK(e) => EntryOK(MarkedStale(e, m))
           /\ StopNudTimer(e) \in Entry
           /\ e.state # "INCOMPLETE" => EntryOK(StopNudTimer(e))
  <1>1. 0 \in 0..(MaxMulticastSolicit + MaxUnicastSolicit)
    BY NdiscAssumption
  <1>2. MarkedReachable(e, m) \in Entry /\ EntryOK(MarkedReachable(e, m))
    BY <1>1 DEF MarkedReachable, Entry, EntryState, TimerFunction, EntryOK, TimerFits
  <1>3. MarkedStale(e, m) \in Entry /\ (EntryOK(e) => EntryOK(MarkedStale(e, m)))
    BY DEF MarkedStale, Entry, EntryState, EntryOK, TimerFits
  <1>4. StopNudTimer(e) \in Entry /\ (e.state # "INCOMPLETE" => EntryOK(StopNudTimer(e)))
    BY <1>1 DEF StopNudTimer, Entry, EntryState, TimerFunction, EntryOK, TimerFits
  <1> QED
    BY <1>2, <1>3, <1>4

\* The record of fates keeps its type and length when packets are settled.
LEMMA SettledType ==
    ASSUME TypeOK, NEW A, NEW f \in Fate
    PROVE  /\ Settled(A, f) \in Seq(Fate) /\ Len(Settled(A, f)) = Len(fate)
           /\ DOMAIN Settled(A, f) = DOMAIN fate
           /\ Settled(A, f) \in [1..Len(fate) -> Fate]
  <1>1. Len(fate) \in Nat /\ DOMAIN fate = 1..Len(fate)
    BY DEF TypeOK
  <1>2. Settled(A, f) \in [1..Len(fate) -> Fate]
    BY <1>1 DEF Settled, TypeOK
  <1> QED
    BY <1>1, <1>2

\* One entry is replaced by one that is consistent.
LEMMA PutPreserves ==
    ASSUME Consistent, NEW a \in Addr, NEW e \in Entry, EntryOK(e), Put(a, e),
           global' \in BOOLEAN, asked' \subseteq Addr,
           fate' \in Seq(Fate), dest' \in Seq(Addr), Len(fate') = Len(dest')
    PROVE  Consistent'
  <1>1. /\ cache' \in [Addr -> Entry]
        /\ \A b \in Addr : cache'[b] = IF b = a THEN e ELSE cache[b]
    BY DEF Put, Consistent, TypeOK
  <1>2. TypeOK'
    BY <1>1 DEF TypeOK
  <1>3. \A b \in Addr : EntryOK(cache'[b])
    BY <1>1, ConsistentByEntry
  <1> QED
    BY <1>2, <1>3, ConsistentByEntry DEF Consistent, RetransmitHasPacket, TimerMatchesState, EntryOK, TimerFits, Expired

LEMMA PutOnly ==
    ASSUME Consistent, NEW a \in Addr, NEW e \in Entry, EntryOK(e), Put(a, e),
           UNCHANGED <<global, packetVars>>, asked' \subseteq Addr
    PROVE  Consistent'
  BY PutPreserves DEF Consistent, TypeOK, packetVars

LEMMA PutOffer ==
    ASSUME Consistent, NEW a \in Addr, NEW e \in Entry, EntryOK(e), Put(a, e),
           NEW f \in Fate, Offer(a, f), UNCHANGED global, asked' \subseteq Addr
    PROVE  Consistent'
  <1>1. fate' \in Seq(Fate) /\ dest' \in Seq(Addr) /\ Len(fate') = Len(dest')
    BY DEF Offer, Consistent, TypeOK
  <1> QED
    BY <1>1, PutPreserves DEF Consistent, TypeOK

LEMMA EmptiedOK ==
    ASSUME NEW e \in Entry, EntryOK(e), e.timer # "retransmit"
    PROVE  [e EXCEPT !.waiting = <<>>] \in Entry /\ EntryOK([e EXCEPT !.waiting = <<>>])
  <1> DEFINE c == [e EXCEPT !.waiting = <<>>]
  <1>1. <<>> \in Seq(Nat)
    OBVIOUS
  <1>2. c \in Entry
    BY <1>1 DEF Entry
  <1>3. c.timer = e.timer /\ c.state = e.state
    BY DEF Entry
  <1>4. EntryOK(c)
    BY <1>3 DEF EntryOK, TimerFits
  <1> QED
    BY <1>2, <1>4

-----------------------------------------------------------------------------
(* The entries stay consistent *)

LEMMA LookupConsistent ==
    ASSUME Consistent, NEW a \in Addr, Lookup(a)
    PROVE  Consistent'
  <1> DEFINE e == cache[a]
  <1>1. /\ e \in Entry /\ EntryOK(e) /\ Packet \in Nat /\ asked \subseteq Addr
        /\ UNCHANGED global /\ fate \in Seq(Fate)
    BY ConsistentByEntry DEF Consistent, TypeOK, Packet, Lookup
  <1>2. ASSUME NEW f \in Fate, Offer(a, f), UNCHANGED <<cache, asked>>
        PROVE  Consistent'
    <2>1. Put(a, e)
      BY <1>2 DEF Put, Consistent, TypeOK
    <2> QED
      BY <1>1, <1>2, <2>1, PutOffer
  <1>3. CASE LookupNew(a)
    <2>1. CASE HasSource(a)
      <3> DEFINE n == [Absent EXCEPT !.state = "INCOMPLETE", !.timer = "retransmit",
                                     !.waiting = <<Packet>>]
      <3>1. n \in Entry
        <4>1. <<Packet>> \in Seq(Nat)
          BY <1>1
        <4> QED
          BY <4>1, AbsentOK DEF Entry, EntryState, TimerFunction
      <3>2. EntryOK(n)
        BY DEF EntryOK, TimerFits, Absent
      <3> QED
        BY <1>1, <1>3, <2>1, <3>1, <3>2, PutOffer DEF LookupNew, Fate
    <2>2. CASE ~HasSource(a)
      BY <1>2, <1>3, <2>2 DEF LookupNew, Fate
    <2> QED
      BY <2>1, <2>2
  <1>4. CASE LookupKnown(a)
    BY <1>2, <1>4 DEF LookupKnown, Fate
  <1>5. CASE LookupStale(a)
    <2> DEFINE n == [e EXCEPT !.state = "DELAY", !.timer = "delay"]
    <2>1. n \in Entry /\ EntryOK(n)
      BY <1>1 DEF Entry, EntryState, TimerFunction, EntryOK, TimerFits
    <2> QED
      BY <1>1, <1>5, <2>1, PutOffer DEF LookupStale, Fate
  <1>6. CASE LookupQueued(a)
    <2> DEFINE q == e.waiting
               full == Len(q) >= UnresolvedQueueSize
               w == Append(IF full THEN Tail(q) ELSE q, Packet)
               n == [e EXCEPT !.waiting = w]
    <2>1. q \in Seq(Nat) /\ Len(q) \in Nat
      BY <1>1 DEF Entry
    <2>2. full => q # <<>>
      BY <2>1, NdiscAssumption
    <2>3. w \in Seq(Nat) /\ w # <<>>
      <3> DEFINE kept == IF full THEN Tail(q) ELSE q
      <3>1. kept \in Seq(Nat)
        BY <2>1, <2>2
      <3>2. Append(kept, Packet) \in Seq(Nat) /\ Len(Append(kept, Packet)) = Len(kept) + 1
            /\ Len(kept) \in Nat
        BY <1>1, <3>1
      <3>3. w = Append(kept, Packet)
        OBVIOUS
      <3> HIDE DEF kept, w
      <3>4. Len(w) # 0
        BY <3>2, <3>3
      <3> QED
        BY <3>2, <3>3, <3>4
    <2>4. n \in Entry
      BY <1>1, <2>3 DEF Entry
    <2>5. n.timer = e.timer /\ n.state = e.state /\ n.waiting = w
      BY <1>1 DEF Entry
    <2>6. EntryOK(n)
      BY <1>1, <2>3, <2>5 DEF EntryOK, TimerFits
    <2>7. Put(a, n) /\ UNCHANGED asked
      BY <1>6 DEF LookupQueued
    <2>8. fate' \in Seq(Fate) /\ Len(fate') = Len(fate) + 1
      <3>1. [fate EXCEPT ![Head(q)] = "displaced"] \in Seq(Fate)
            /\ Len([fate EXCEPT ![Head(q)] = "displaced"]) = Len(fate)
        <4>1. fate \in [1..Len(fate) -> Fate] /\ Len(fate) \in Nat
          BY <1>1
        <4>2. [fate EXCEPT ![Head(q)] = "displaced"] \in [1..Len(fate) -> Fate]
          BY <4>1 DEF Fate
        <4> QED
          BY <4>1, <4>2
      <3> DEFINE older == IF full THEN [fate EXCEPT ![Head(q)] = "displaced"] ELSE fate
      <3>2. older \in Seq(Fate) /\ Len(older) = Len(fate) /\ "waiting" \in Fate
        BY <1>1, <3>1 DEF Fate
      <3>3. fate' = Append(older, "waiting")
        BY <1>6 DEF LookupQueued
      <3> HIDE DEF older
      <3> QED
        BY <3>2, <3>3
    <2>9. dest' \in Seq(Addr) /\ Len(dest') = Len(dest) + 1
      BY <1>6 DEF LookupQueued, Consistent, TypeOK
    <2> QED
      BY <1>1, <2>4, <2>6, <2>7, <2>8, <2>9, PutPreserves DEF Consistent, TypeOK
  <1> QED
    BY <1>3, <1>4, <1>5, <1>6 DEF Lookup

LEMMA LearnConsistent ==
    ASSUME Consistent, NEW a \in Addr, NEW m \in Macs, Learn(a, m)
    PROVE  Consistent'
  <1>1. cache[a] \in Entry /\ EntryOK(cache[a])
    BY ConsistentByEntry DEF Consistent, TypeOK
  <1>2. MarkedStale(cache[a], m) \in Entry /\ EntryOK(MarkedStale(cache[a], m))
    BY <1>1, MarksOK
  <1>3. asked' \subseteq Addr /\ UNCHANGED <<global, packetVars>>
    BY DEF Learn, Consistent, TypeOK
  <1>4. CASE cache[a].mac # m
    BY <1>2, <1>3, <1>4, PutOnly DEF Learn
  <1>5. CASE cache[a].mac = m
    BY <1>1, <1>3, <1>5, PutOnly DEF Learn
  <1> QED
    BY <1>4, <1>5

LEMMA ReleaseConsistent ==
    ASSUME Consistent, NEW a \in Addr, NEW e \in Entry, EntryOK(e), e.timer # "retransmit",
           NEW f \in Fate, Release(a, e, f), UNCHANGED <<global, asked>>
    PROVE  Consistent'
  <1>1. fate' \in Seq(Fate) /\ Len(fate') = Len(fate)
    BY SettledType DEF Release, Consistent
  <1>2. [e EXCEPT !.waiting = <<>>] \in Entry /\ EntryOK([e EXCEPT !.waiting = <<>>])
    BY EmptiedOK
  <1> QED
    BY <1>1, <1>2, PutPreserves DEF Release, Consistent, TypeOK

LEMMA ReceiveLLAConsistent ==
    ASSUME Consistent, NEW a \in Addr, NEW m \in Macs, ReceiveLLA(a, m)
    PROVE  Consistent'
  <1> DEFINE e == cache[a]
  <1>1. e \in Entry /\ EntryOK(e) /\ asked' \subseteq Addr /\ UNCHANGED <<global, asked>>
    BY ConsistentByEntry DEF ReceiveLLA, Consistent, TypeOK
  <1>2. /\ MarkedReachable(e, m) \in Entry /\ EntryOK(MarkedReachable(e, m))
        /\ MarkedStale(e, m) \in Entry /\ EntryOK(MarkedStale(e, m))
        /\ MarkedReachable(e, m).timer # "retransmit"
    BY <1>1, MarksOK DEF MarkedReachable, Entry
  <1>3. CASE In(a, {"INCOMPLETE"})
    BY <1>1, <1>2, <1>3, ReleaseConsistent DEF ReceiveLLA, Fate
  <1>4. CASE ~In(a, {"INCOMPLETE"})
    BY <1>1, <1>2, <1>4, PutOnly DEF ReceiveLLA
  <1> QED
    BY <1>3, <1>4

LEMMA HandleNAConsistent ==
    ASSUME Consistent, NEW a \in Addr, NEW m \in Macs, NEW s \in BOOLEAN, NEW o \in BOOLEAN,
           HandleNA(a, m, s, o)
    PROVE  Consistent'
  <1> DEFINE e == cache[a]
             stopped == StopNudTimer(e)
  <1>1. e \in Entry /\ EntryOK(e) /\ asked' \subseteq Addr /\ UNCHANGED <<global, asked>>
    BY ConsistentByEntry DEF HandleNA, Consistent, TypeOK
  <1>2. /\ MarkedReachable(e, m) \in Entry /\ EntryOK(MarkedReachable(e, m))
        /\ MarkedReachable(e, m).timer # "retransmit"
    BY <1>1, MarksOK DEF MarkedReachable, Entry
  <1>3. /\ stopped \in Entry /\ stopped.timer = "off" /\ stopped.state = e.state
    BY <1>1, MarksOK DEF StopNudTimer, Entry
  <1>4. CASE AdvertisedFirst(a, m, s)
    <2>1. MarkedStale(stopped, m) \in Entry
      BY <1>3, MarksOK
    <2>2. EntryOK(MarkedStale(stopped, m))
      BY <1>3 DEF MarkedStale, EntryOK, TimerFits, Entry
    <2> QED
      BY <1>1, <1>2, <1>4, <2>1, <2>2, ReleaseConsistent, PutOnly DEF AdvertisedFirst, Fate
  <1>5. CASE AdvertisedDifferent(a, m, o)
    <2> DEFINE n == [stopped EXCEPT !.state = IF @ = "REACHABLE" THEN "STALE" ELSE @]
    <2>1. n \in Entry /\ n.timer = "off" /\ n.state # "INCOMPLETE"
      BY <1>3, <1>5 DEF AdvertisedDifferent, In, Entry, EntryState
    <2>2. EntryOK(n)
      BY <2>1 DEF EntryOK, TimerFits
    <2> QED
      BY <1>1, <1>5, <2>1, <2>2, PutOnly DEF AdvertisedDifferent
  <1>6. CASE AdvertisedAgain(a, m, s, o)
    <2> DEFINE n == [stopped EXCEPT !.mac = m]
    <2>1. n \in Entry /\ n.timer = "off" /\ n.state # "INCOMPLETE"
      BY <1>3, <1>6 DEF AdvertisedAgain, In, Entry
    <2>2. EntryOK(n)
      BY <2>1 DEF EntryOK, TimerFits
    <2>3. CASE s /\ In(a, {"PROBE"})
      BY <1>1, <1>2, <1>6, <2>3, ReleaseConsistent DEF AdvertisedAgain, Fate
    <2>4. CASE s /\ ~In(a, {"PROBE"})
      BY <1>1, <1>2, <1>6, <2>4, PutOnly DEF AdvertisedAgain
    <2>5. CASE ~s
      BY <1>1, <1>6, <2>1, <2>2, <2>5, PutOnly DEF AdvertisedAgain
    <2> QED
      BY <2>3, <2>4, <2>5
  <1> QED
    BY <1>4, <1>5, <1>6 DEF HandleNA

LEMMA ConfirmedConsistent ==
    ASSUME Consistent, NEW a \in Addr, UpdateReachableTimer(a) \/ ReachabilityHint(a)
    PROVE  Consistent'
  <1> DEFINE e == cache[a]
  <1>1. e \in Entry /\ EntryOK(e) /\ asked' \subseteq Addr /\ UNCHANGED <<global, asked>>
    BY ConsistentByEntry DEF UpdateReachableTimer, ReachabilityHint, Consistent, TypeOK
  <1>2. CASE UpdateReachableTimer(a)
    <2> DEFINE n == [e EXCEPT !.timer = "reachable"]
    <2>1. n \in Entry /\ EntryOK(n)
      BY <1>1, <1>2 DEF UpdateReachableTimer, In, Entry, TimerFunction, EntryOK, TimerFits
    <2> QED
      BY <1>1, <1>2, <2>1, PutOnly DEF UpdateReachableTimer
  <1>3. CASE ReachabilityHint(a)
    <2> DEFINE n == [MarkedReachable(e, e.mac) EXCEPT !.solicits = e.solicits]
    <2>1. MarkedReachable(e, e.mac) \in Entry
      BY <1>1, MarksOK DEF Entry
    <2>2. n \in Entry /\ EntryOK(n) /\ n.timer # "retransmit"
      BY <1>1, <2>1 DEF MarkedReachable, Entry, EntryOK, TimerFits
    <2>3. CASE In(a, {"PROBE"})
      BY <1>1, <1>3, <2>2, <2>3, ReleaseConsistent DEF ReachabilityHint, Fate
    <2>4. CASE ~In(a, {"PROBE"})
      BY <1>1, <1>3, <2>2, <2>4, PutOnly DEF ReachabilityHint
    <2> QED
      BY <2>3, <2>4
  <1> QED
    BY <1>2, <1>3

LEMMA RemoveConsistent ==
    ASSUME Consistent, NEW a \in Addr, NEW f \in Seq(Fate), Len(f) = Len(fate),
           Remove(a, f), global' \in BOOLEAN, asked' \subseteq Addr
    PROVE  Consistent'
  BY AbsentOK, PutPreserves DEF Remove, Consistent, TypeOK

LEMMA ClearedConsistent ==
    ASSUME Consistent, NEW a \in Addr, Remove(a, Settled({a}, "cleared")),
           global' \in BOOLEAN, asked' \subseteq Addr
    PROVE  Consistent'
  BY RemoveConsistent, SettledType DEF Consistent, Fate

LEMMA TimeoutConsistent ==
    ASSUME Consistent, NEW a \in Addr, Timeout(a)
    PROVE  Consistent'
  <1> DEFINE e == cache[a]
  <1>1. /\ e \in Entry /\ EntryOK(e) /\ asked' \subseteq Addr
        /\ global' \in BOOLEAN /\ UNCHANGED global
    BY ConsistentByEntry
    DEF Timeout, FunctionReachableTimeout, FunctionRetransmitTimeout, FunctionDelayTimeout,
        FunctionProbeTimeout, Consistent, TypeOK
  <1>2. CASE FunctionReachableTimeout(a)
    <2> DEFINE n == [e EXCEPT !.state = "STALE", !.timer = "off"]
    <2>1. n \in Entry /\ EntryOK(n)
      BY <1>1 DEF Entry, EntryState, TimerFunction, EntryOK, TimerFits
    <2> QED
      BY <1>1, <1>2, <2>1, PutOnly DEF FunctionReachableTimeout
  <1>3. CASE FunctionRetransmitTimeout(a)
    <2>1. CASE ~HasSource(a)
      BY <1>1, <1>3, <2>1, ClearedConsistent DEF FunctionRetransmitTimeout
    <2>2. CASE HasSource(a) /\ e.solicits < MaxMulticastSolicit
      <3> DEFINE n == [e EXCEPT !.solicits = @ + 1]
      <3>1. e.solicits + 1 \in 0..(MaxMulticastSolicit + MaxUnicastSolicit)
        BY <1>1, <2>2, NdiscAssumption DEF Entry
      <3>2. n \in Entry /\ EntryOK(n)
        BY <1>1, <3>1 DEF Entry, EntryOK, TimerFits
      <3> QED
        BY <1>1, <1>3, <2>2, <3>2, PutOnly DEF FunctionRetransmitTimeout
    <2>3. CASE HasSource(a) /\ ~(e.solicits < MaxMulticastSolicit)
      <3> DEFINE cleared == Settled({a}, "cleared")
                 f == [cleared EXCEPT ![Head(e.waiting)] = "reported"]
      <3>1. Len(fate) \in Nat
        BY DEF Consistent, TypeOK
      <3>2. cleared \in [1..Len(fate) -> Fate]
        BY SettledType DEF Consistent, Fate
      <3>3. f \in [1..Len(fate) -> Fate]
        BY <3>2 DEF Fate
      <3>4. f \in Seq(Fate) /\ Len(f) = Len(fate)
        <4> HIDE DEF f
        <4> QED
          BY <3>1, <3>3
      <3>5. Remove(a, f)
        BY <1>3, <2>3 DEF FunctionRetransmitTimeout
      <3> QED
        BY <1>1, <3>4, <3>5, RemoveConsistent
    <2> QED
      BY <2>1, <2>2, <2>3
  <1>4. CASE FunctionDelayTimeout(a)
    <2> DEFINE n == [e EXCEPT !.state = "PROBE", !.timer = "probe", !.solicits = 1]
    <2>1. 1 \in 0..(MaxMulticastSolicit + MaxUnicastSolicit)
      BY NdiscAssumption
    <2>2. n \in Entry /\ EntryOK(n)
      BY <1>1, <2>1 DEF Entry, EntryState, TimerFunction, EntryOK, TimerFits
    <2>3. CASE HasSource(a)
      BY <1>1, <1>4, <2>2, <2>3, PutOnly DEF FunctionDelayTimeout
    <2>4. CASE ~HasSource(a)
      BY <1>1, <1>4, <2>4, ClearedConsistent DEF FunctionDelayTimeout
    <2> QED
      BY <2>3, <2>4
  <1>5. CASE FunctionProbeTimeout(a)
    <2>1. CASE e.solicits < MaxUnicastSolicit /\ HasSource(a)
      <3> DEFINE n == [e EXCEPT !.solicits = @ + 1]
      <3>1. e.solicits + 1 \in 0..(MaxMulticastSolicit + MaxUnicastSolicit)
        BY <1>1, <2>1, NdiscAssumption DEF Entry
      <3>2. n \in Entry /\ EntryOK(n)
        BY <1>1, <3>1 DEF Entry, EntryOK, TimerFits
      <3> QED
        BY <1>1, <1>5, <2>1, <3>2, PutOnly DEF FunctionProbeTimeout
    <2>2. CASE ~(e.solicits < MaxUnicastSolicit /\ HasSource(a))
      BY <1>1, <1>5, <2>2, ClearedConsistent DEF FunctionProbeTimeout
    <2> QED
      BY <2>1, <2>2
  <1> QED
    BY <1>2, <1>3, <1>4, <1>5 DEF Timeout

LEMMA ConfigurationConsistent ==
    ASSUME Consistent,
           \/ Flush
           \/ ChangeAddress
           \/ \E a \in Addr, m \in Macs : MarkPermanent(a, m)
    PROVE  Consistent'
  <1>1. CASE Flush
    <2>1. TypeOK'
      BY <1>1, AbsentOK, SettledType DEF Flush, Consistent, TypeOK, Fate
    <2>2. \A b \in Addr : cache'[b] = Absent
      BY <1>1 DEF Flush
    <2> QED
      BY <2>1, <2>2 DEF Consistent, RetransmitHasPacket, TimerMatchesState, Expired, Absent
  <1>2. CASE ChangeAddress
    BY <1>2 DEF ChangeAddress, packetVars, Consistent, TypeOK, RetransmitHasPacket,
                TimerMatchesState, Expired
  <1>3. ASSUME NEW a \in Addr, NEW m \in Macs, MarkPermanent(a, m)
        PROVE  Consistent'
    <2> DEFINE n == [Absent EXCEPT !.state = "PERMANENT", !.mac = m]
    <2>1. n \in Entry /\ EntryOK(n)
      BY AbsentOK DEF Absent, Entry, EntryState, EntryOK, TimerFits
    <2> QED
      BY <1>3, <2>1, PutOnly DEF MarkPermanent, Consistent, TypeOK
  <1> QED
    BY <1>1, <1>2, <1>3

LEMMA InitConsistent == Init => Consistent
  <1> SUFFICES ASSUME Init PROVE Consistent
    OBVIOUS
  <1>1. TypeOK
    BY AbsentOK DEF Init, TypeOK
  <1>2. \A a \in Addr : EntryOK(cache[a])
    BY AbsentOK DEF Init
  <1> QED
    BY <1>1, <1>2, ConsistentByEntry

LEMMA NextConsistent == Consistent /\ [Next]_vars => Consistent'
  <1> SUFFICES ASSUME Consistent, [Next]_vars PROVE Consistent'
    OBVIOUS
  <1>1. ASSUME NEW a \in Addr,
               \/ Lookup(a)
               \/ UpdateReachableTimer(a) \/ ReachabilityHint(a)
               \/ Timeout(a)
        PROVE  Consistent'
    BY <1>1, LookupConsistent, ConfirmedConsistent, TimeoutConsistent
  <1>2. ASSUME NEW a \in Addr, NEW m \in Macs,
               \/ HandleNS(a, m) \/ HandleRS(a, m) \/ HandleRedirection(a, m)
               \/ ReceiveLLA(a, m)
               \/ \E s, o \in BOOLEAN : HandleNA(a, m, s, o)
        PROVE  Consistent'
    BY <1>2, LearnConsistent, ReceiveLLAConsistent, HandleNAConsistent
    DEF HandleNS, HandleRS, HandleRedirection
  <1>3. CASE UNCHANGED vars
    BY <1>3 DEF vars, packetVars, Consistent, TypeOK, RetransmitHasPacket,
                TimerMatchesState, Expired
  <1> QED
    BY <1>1, <1>2, <1>3, ConfigurationConsistent DEF Next

\* The entries of the cache stay consistent: a retransmission timer always finds
\* a packet to report, and only a STALE entry runs a timer of another state.
THEOREM EntriesConsistent == Spec => []Consistent
  BY InitConsistent, NextConsistent, PTL DEF Spec

-----------------------------------------------------------------------------
(* The timer of an entry *)

\* What may take the timer of the entry of a away.
KeepsTimer(a) ==
    (cache'[a].state \in {"REACHABLE", "DELAY", "PROBE"}
       /\ cache'[a].timer = "off" /\ cache'[a] # cache[a])
      => cache[a].timer = "off" /\ cache'[a].state = cache[a].state

\* A step that gives a one entry, with a timer or in a state that needs none or
\* as it was before, keeps every other timer.
LEMMA PutKeepsTimers ==
    ASSUME Consistent, NEW b \in Addr, NEW e, Put(b, e),
           \/ e.timer # "off"
           \/ e.state \notin {"REACHABLE", "DELAY", "PROBE"}
           \/ e.state = cache[b].state /\ e.timer = cache[b].timer,
           NEW a \in Addr
    PROVE  KeepsTimer(a)
  <1>1. cache'[a] = IF a = b THEN e ELSE cache[a]
    BY DEF Put, Consistent, TypeOK
  <1> QED
    BY <1>1 DEF KeepsTimer

LEMMA OthersKeepTimers ==
    ASSUME Consistent, [Next]_vars, NEW a \in Addr
    PROVE  \/ KeepsTimer(a)
           \/ \E m \in Macs, s, o \in BOOLEAN : HandleNA(a, m, s, o) /\ (~s \/ ~o)
  <1>1. cache \in [Addr -> Entry] /\ \A b \in Addr : cache[b] \in Entry
    BY DEF Consistent, TypeOK
  <1>2. ASSUME UNCHANGED cache PROVE KeepsTimer(a)
    BY <1>2 DEF KeepsTimer
  <1>3. ASSUME NEW b \in Addr, Put(b, Absent) PROVE KeepsTimer(a)
    BY <1>3, AbsentOK, PutKeepsTimers DEF Absent
  <1>4. ASSUME NEW b \in Addr, NEW m \in Macs \cup {NoMac}, 
               \/ Put(b, MarkedReachable(cache[b], m))
               \/ Put(b, MarkedStale(cache[b], m))
               \/ Put(b, [MarkedReachable(cache[b], m) EXCEPT !.waiting = <<>>])
        PROVE  KeepsTimer(a)
    <2>1. /\ MarkedReachable(cache[b], m).timer = "reachable"
          /\ MarkedStale(cache[b], m).state = "STALE"
          /\ MarkedReachable(cache[b], m) \in Entry
      <3>1. MarkedReachable(cache[b], m) \in Entry
        BY <1>1, MarksOK
      <3> QED
        BY <1>1, <3>1 DEF MarkedReachable, MarkedStale, Entry
    <2>2. [MarkedReachable(cache[b], m) EXCEPT !.waiting = <<>>].timer = "reachable"
      BY <2>1 DEF Entry
    <2> QED
      BY <1>4, <2>1, <2>2, PutKeepsTimers
  <1>5. ASSUME NEW b \in Addr, Lookup(b) PROVE KeepsTimer(a)
    <2>1. CASE LookupNew(b)
      <3> DEFINE n == [Absent EXCEPT !.state = "INCOMPLETE", !.timer = "retransmit",
                                     !.waiting = <<Packet>>]
      <3>1. Packet \in Nat
        BY DEF Packet, Consistent, TypeOK
      <3>2. <<Packet>> \in Seq(Nat)
        BY <3>1
      <3>3. n \in Entry /\ n.timer = "retransmit"
        BY <3>2, AbsentOK DEF Entry, EntryState, TimerFunction
      <3> QED
        BY <1>2, <2>1, <3>3, PutKeepsTimers DEF LookupNew
    <2>2. CASE LookupKnown(b)
      BY <1>2, <2>2 DEF LookupKnown
    <2>3. CASE LookupStale(b)
      <3> DEFINE n == [cache[b] EXCEPT !.state = "DELAY", !.timer = "delay"]
      <3>1. n \in Entry /\ n.timer = "delay"
        BY <1>1 DEF Entry, EntryState, TimerFunction
      <3> QED
        BY <2>3, <3>1, PutKeepsTimers DEF LookupStale
    <2>4. CASE LookupQueued(b)
      <3>1. PICK w : Put(b, [cache[b] EXCEPT !.waiting = w])
        BY <2>4 DEF LookupQueued
      <3> DEFINE n == [cache[b] EXCEPT !.waiting = w]
      <3>2. n.state = cache[b].state /\ n.timer = cache[b].timer
        BY <1>1 DEF Entry
      <3> QED
        BY <3>1, <3>2, PutKeepsTimers
    <2> QED
      BY <1>5, <2>1, <2>2, <2>3, <2>4 DEF Lookup
  <1>6. ASSUME NEW b \in Addr, Timeout(b) PROVE KeepsTimer(a)
    <2>1. CASE FunctionReachableTimeout(b)
      <3> DEFINE n == [cache[b] EXCEPT !.state = "STALE", !.timer = "off"]
      <3>1. n \in Entry /\ n.state = "STALE"
        BY <1>1 DEF Entry, EntryState, TimerFunction
      <3> QED
        BY <2>1, <3>1, PutKeepsTimers DEF FunctionReachableTimeout
    <2>2. ASSUME Put(b, [cache[b] EXCEPT !.solicits = @ + 1]) PROVE KeepsTimer(a)
      <3> DEFINE n == [cache[b] EXCEPT !.solicits = @ + 1]
      <3>1. n.state = cache[b].state /\ n.timer = cache[b].timer
        BY <1>1 DEF Entry
      <3> QED
        BY <2>2, <3>1, PutKeepsTimers
    <2>3. CASE FunctionRetransmitTimeout(b)
      BY <1>3, <2>2, <2>3 DEF FunctionRetransmitTimeout, Remove
    <2>4. CASE FunctionProbeTimeout(b)
      BY <1>3, <2>2, <2>4 DEF FunctionProbeTimeout, Remove
    <2>5. CASE FunctionDelayTimeout(b)
      <3> DEFINE n == [cache[b] EXCEPT !.state = "PROBE", !.timer = "probe", !.solicits = 1]
      <3>1. n.timer = "probe"
        BY <1>1 DEF Entry
      <3> QED
        BY <1>3, <2>5, <3>1, PutKeepsTimers DEF FunctionDelayTimeout, Remove
    <2> QED
      BY <1>6, <2>1, <2>3, <2>4, <2>5 DEF Timeout
  <1>7. ASSUME NEW b \in Addr, UpdateReachableTimer(b) \/ ReachabilityHint(b)
        PROVE  KeepsTimer(a)
    <2>1. CASE UpdateReachableTimer(b)
      <3> DEFINE n == [cache[b] EXCEPT !.timer = "reachable"]
      <3>1. n \in Entry /\ n.timer = "reachable"
        BY <1>1 DEF Entry, TimerFunction
      <3> QED
        BY <2>1, <3>1, PutKeepsTimers DEF UpdateReachableTimer
    <2>2. CASE ReachabilityHint(b)
      <3> DEFINE n == [MarkedReachable(cache[b], cache[b].mac) EXCEPT !.solicits = cache[b].solicits]
                 c == [n EXCEPT !.waiting = <<>>]
      <3>1. MarkedReachable(cache[b], cache[b].mac) \in Entry
        BY <1>1, MarksOK DEF Entry
      <3>2. n \in Entry /\ n.timer = "reachable"
        BY <1>1, <3>1 DEF MarkedReachable, Entry
      <3>3. c.timer = "reachable"
        BY <3>2 DEF Entry
      <3> QED
        BY <2>2, <3>2, <3>3, PutKeepsTimers DEF ReachabilityHint, Release
    <2> QED
      BY <1>7, <2>1, <2>2
  <1>8. ASSUME NEW b \in Addr, NEW m \in Macs, Learn(b, m) PROVE KeepsTimer(a)
    <2>1. CASE cache[b].mac = m
      BY <1>1, <1>2, <1>8, <2>1 DEF Learn, Put
    <2> QED
      BY <1>4, <1>8, <2>1 DEF Learn
  <1>9. ASSUME NEW b \in Addr, NEW m \in Macs, ReceiveLLA(b, m) PROVE KeepsTimer(a)
    BY <1>4, <1>9 DEF ReceiveLLA, Release
  <1>10. ASSUME NEW b \in Addr, NEW m \in Macs, NEW s \in BOOLEAN, NEW o \in BOOLEAN,
                HandleNA(b, m, s, o)
         PROVE  KeepsTimer(a) \/ (a = b /\ (~s \/ ~o))
    <2>1. CASE s /\ o
      BY <1>4, <1>10, <2>1
      DEF HandleNA, AdvertisedFirst, AdvertisedDifferent, AdvertisedAgain, Release
    <2>2. CASE a # b
      <3>1. \E e : Put(b, e)
        BY <1>10 DEF HandleNA, AdvertisedFirst, AdvertisedDifferent, AdvertisedAgain, Release
      <3> QED
        BY <1>1, <2>2, <3>1 DEF Put, KeepsTimer
    <2> QED
      BY <2>1, <2>2
  <1>11. CASE Flush
    BY <1>11 DEF Flush, KeepsTimer, Absent
  <1>12. ASSUME NEW b \in Addr, NEW m \in Macs, MarkPermanent(b, m) PROVE KeepsTimer(a)
    <2> DEFINE n == [Absent EXCEPT !.state = "PERMANENT", !.mac = m]
    <2>1. n \in Entry /\ n.state = "PERMANENT"
      BY AbsentOK DEF Absent, Entry, EntryState
    <2> QED
      BY <1>12, <2>1, PutKeepsTimers DEF MarkPermanent
  <1>13. CASE ChangeAddress \/ UNCHANGED vars
    BY <1>2, <1>13 DEF ChangeAddress, vars
  <1> QED
    BY <1>5, <1>6, <1>7, <1>8, <1>9, <1>10, <1>11, <1>12, <1>13
    DEF Next, HandleNS, HandleRS, HandleRedirection

\* Only an advertisement that nobody solicited, or that disagrees about the
\* address, leaves an entry in REACHABLE, DELAY or PROBE without its timer.
THEOREM TimerLost == Spec => TimerLostOnlyToAdvertisement
  <1>1. ASSUME Consistent, [Next]_vars
        PROVE  \A a \in Addr :
                 (cache'[a].state \in {"REACHABLE", "DELAY", "PROBE"}
                    /\ cache'[a].timer = "off" /\ cache'[a] # cache[a])
                   => \/ cache[a].timer = "off" /\ cache'[a].state = cache[a].state
                      \/ \E m \in Macs, s, o \in BOOLEAN :
                            HandleNA(a, m, s, o) /\ (~s \/ ~o)
    BY <1>1, OthersKeepTimers DEF KeepsTimer
  <1> QED
    BY <1>1, EntriesConsistent, PTL DEF Spec, TimerLostOnlyToAdvertisement

-----------------------------------------------------------------------------
(* Queues of packet numbers *)

\* q holds packet p.
Holds(q, p) == \E i \in 1..Len(q) : q[i] = p

\* q holds packets of 1..n, each once and the oldest first.
InOrder(q, n) ==
    \A i \in 1..Len(q) : /\ q[i] \in 1..n
                         /\ \A j \in 1..Len(q) : i < j => q[i] < q[j]

LEMMA HoldsAppend ==
    ASSUME NEW q \in Seq(Nat), NEW x \in Nat, NEW p
    PROVE  Holds(Append(q, x), p) <=> Holds(q, p) \/ p = x
  <1> DEFINE w == Append(q, x)
  <1>1. /\ Len(q) \in Nat /\ Len(w) = Len(q) + 1 /\ w[Len(q) + 1] = x
        /\ \A i \in 1..Len(q) : w[i] = q[i]
    BY AppendFacts
  <1> HIDE DEF w
  <1>2. \A i : i \in 1..Len(w) <=> i \in 1..Len(q) \/ i = Len(q) + 1
    BY <1>1
  <1>3. Holds(w, p) <=> Holds(q, p) \/ p = x
    BY <1>1, <1>2 DEF Holds
  <1> QED
    BY <1>3 DEF w

LEMMA InOrderAppend ==
    ASSUME NEW q \in Seq(Nat), NEW n \in Nat, InOrder(q, n)
    PROVE  InOrder(Append(q, n + 1), n + 1) /\ InOrder(q, n + 1)
  <1> DEFINE w == Append(q, n + 1)
  <1>1. /\ Len(q) \in Nat /\ Len(w) = Len(q) + 1 /\ w[Len(q) + 1] = n + 1
        /\ \A i \in 1..Len(q) : w[i] = q[i]
    BY AppendFacts
  <1> HIDE DEF w
  <1>2. \A i : i \in 1..Len(w) <=> i \in 1..Len(q) \/ i = Len(q) + 1
    BY <1>1
  <1>3. \A i \in 1..Len(q) : q[i] \in 1..n /\ q[i] \in 1..(n + 1) /\ q[i] < n + 1
    BY DEF InOrder
  <1>4. InOrder(w, n + 1)
    <2> SUFFICES ASSUME NEW i \in 1..Len(w)
                 PROVE  w[i] \in 1..(n + 1) /\ \A j \in 1..Len(w) : i < j => w[i] < w[j]
      BY DEF InOrder
    <2>1. CASE i \in 1..Len(q)
      <3>1. ASSUME NEW j \in 1..Len(w), i < j PROVE w[i] < w[j]
        BY <1>1, <1>2, <1>3, <2>1, <3>1 DEF InOrder
      <3> QED
        BY <1>1, <1>3, <2>1, <3>1
    <2>2. CASE i = Len(q) + 1
      <3>1. \A j \in 1..Len(w) : ~(i < j)
        BY <1>1, <2>2
      <3> QED
        BY <1>1, <2>2, <3>1
    <2> QED
      BY <1>2, <2>1, <2>2
  <1>5. InOrder(q, n + 1)
    BY <1>3 DEF InOrder
  <1> QED
    BY <1>4, <1>5 DEF w

\* The tail of a queue holds what the queue holds, but for its oldest packet.
LEMMA InOrderTail ==
    ASSUME NEW q \in Seq(Nat), NEW n \in Nat, InOrder(q, n), q # <<>>
    PROVE  /\ Tail(q) \in Seq(Nat) /\ InOrder(Tail(q), n)
           /\ Holds(q, Head(q)) /\ Head(q) \in 1..n
           /\ \A p : Holds(Tail(q), p) <=> Holds(q, p) /\ p # Head(q)
  <1> DEFINE t == Tail(q)
             k == Len(q)
  <1>1. /\ t \in Seq(Nat) /\ k \in Nat \ {0} /\ Len(t) = k - 1 /\ Head(q) = q[1]
        /\ \A i \in 1..(k - 1) : t[i] = q[i + 1]
    BY TailFacts
  <1>2. \A i \in 1..k : q[i] \in 1..n
    BY DEF InOrder
  <1>3. \A i, j \in 1..k : i < j => q[i] < q[j]
    BY DEF InOrder
  <1> HIDE DEF t, k
  <1>4. 1 \in 1..k /\ \A i \in 1..(k - 1) : i + 1 \in 1..k
    BY <1>1
  <1>5. InOrder(t, n)
    <2> SUFFICES ASSUME NEW i \in 1..(k - 1)
                 PROVE  t[i] \in 1..n /\ \A j \in 1..(k - 1) : i < j => t[i] < t[j]
      BY <1>1 DEF InOrder
    <2>1. t[i] \in 1..n
      BY <1>1, <1>2, <1>4
    <2>2. ASSUME NEW j \in 1..(k - 1), i < j PROVE t[i] < t[j]
      <3>1. i + 1 < j + 1
        BY <1>1, <2>2
      <3>2. i + 1 \in 1..k /\ j + 1 \in 1..k
        BY <1>4
      <3>3. q[i + 1] < q[j + 1]
        BY <1>3, <3>1, <3>2
      <3> QED
        BY <1>1, <3>3
    <2> QED
      BY <2>1, <2>2
  <1>6. ASSUME NEW p PROVE Holds(t, p) <=> Holds(q, p) /\ p # q[1]
    <2>1. ASSUME NEW i \in 1..(k - 1), t[i] = p
          PROVE  Holds(q, p) /\ p # q[1]
      <3>1. q[i + 1] = p /\ i + 1 \in 1..k /\ 1 < i + 1
        BY <1>1, <1>4, <2>1
      <3>2. q[1] < q[i + 1] /\ q[1] \in 1..n /\ q[i + 1] \in 1..n
        BY <1>2, <1>3, <1>4, <3>1
      <3> QED
        BY <3>1, <3>2 DEF Holds, k
    <2>2. ASSUME NEW i \in 1..k, q[i] = p, p # q[1]
          PROVE  Holds(t, p)
      <3>1. i - 1 \in 1..(k - 1) /\ (i - 1) + 1 = i
        BY <1>1, <2>2
      <3>2. t[i - 1] = p
        BY <1>1, <2>2, <3>1
      <3> QED
        BY <1>1, <3>1, <3>2 DEF Holds
    <2> QED
      BY <1>1, <2>1, <2>2 DEF Holds, k
  <1>7. Holds(q, q[1])
    BY <1>4 DEF Holds, k
  <1> QED
    BY <1>1, <1>2, <1>4, <1>5, <1>6, <1>7 DEF t

-----------------------------------------------------------------------------
(* The cache keeps the promise of an address resolution cache *)

\* The queue of an entry holds exactly the packets for its address that wait.
QueueIsExact ==
    \A a \in Addr, p \in DOMAIN fate :
        (fate[p] = "waiting" /\ dest[p] = a) <=> Holds(cache[a].waiting, p)

\* Only packets that were offered are queued, each once and in their order: the
\* oldest, which a full queue gives up, is not queued a second time.
QueuedInOrder == \A a \in Addr : InOrder(cache[a].waiting, Len(fate))

\* First contact with a neighbour finds no packets that wait.
UnknownHoldNothing == \A a \in Addr : In(a, {"NONE"}) => cache[a].waiting = <<>>

QInv == QueueIsExact /\ QueuedInOrder /\ UnknownHoldNothing

FateBar == [p \in DOMAIN fate |-> Outcome(fate[p])]
QueueBar == [a \in Addr |-> cache[a].waiting]

LEMMA BarTypes ==
    ASSUME Consistent
    PROVE  /\ FateBar \in Seq({"queued", "sent", "lost"})
           /\ Len(FateBar) = Len(fate)
           /\ DOMAIN FateBar = DOMAIN fate
           /\ DOMAIN fate = 1..Len(fate) /\ Len(fate) \in Nat
           /\ Packet = Len(fate) + 1 /\ Packet = Resolution!Packet
           /\ \A a \in Addr : cache[a].waiting \in Seq(Nat)
  <1>1. DOMAIN fate = 1..Len(fate) /\ Len(fate) \in Nat
    BY DEF Consistent, TypeOK
  <1>2. FateBar \in [1..Len(fate) -> {"queued", "sent", "lost"}]
    BY <1>1 DEF FateBar, Outcome
  <1>3. FateBar \in Seq({"queued", "sent", "lost"}) /\ Len(FateBar) = Len(fate)
    BY <1>1, <1>2
  <1>4. Packet = Resolution!Packet
    BY <1>3 DEF Packet, Resolution!Packet, FateBar
  <1>5. \A a \in Addr : cache[a].waiting \in Seq(Nat)
    BY DEF Consistent, TypeOK, Entry
  <1> QED
    BY <1>1, <1>2, <1>3, <1>4, <1>5 DEF Packet

LEMMA PutMaps ==
    ASSUME Consistent, NEW a \in Addr, NEW e, Put(a, e)
    PROVE  /\ \A b \in Addr : cache'[b] = IF b = a THEN e ELSE cache[b]
           /\ QueueBar' = [QueueBar EXCEPT ![a] = e.waiting]
  <1>1. \A b \in Addr : cache'[b] = IF b = a THEN e ELSE cache[b]
    BY DEF Put, Consistent, TypeOK
  <1> QED
    BY <1>1 DEF QueueBar

\* A packet that is offered appends its outcome.
LEMMA AppendMaps ==
    ASSUME NEW old \in Seq(Fate), NEW f \in Fate, fate' = Append(old, f)
    PROVE  FateBar' = Append([p \in DOMAIN old |-> Outcome(old[p])], Outcome(f))
  <1> DEFINE bar == [p \in DOMAIN old |-> Outcome(old[p])]
             n == Len(old)
  <1>1. /\ n \in Nat /\ DOMAIN old = 1..n
        /\ DOMAIN fate' = 1..(n + 1) /\ fate'[n + 1] = f
        /\ \A p \in 1..n : fate'[p] = old[p]
    BY AppendFacts
  <1>2. bar \in [1..n -> {"queued", "sent", "lost"}] /\ Outcome(f) \in {"queued", "sent", "lost"}
        /\ \A p \in 1..n : bar[p] = Outcome(old[p])
    BY <1>1 DEF Outcome
  <1> HIDE DEF bar, n
  <1>3. bar \in Seq({"queued", "sent", "lost"}) /\ Len(bar) = n
    <2>1. n \in Nat /\ bar \in [1..n -> {"queued", "sent", "lost"}]
      BY <1>1, <1>2
    <2> QED
      BY <2>1
  <1>4. Append(bar, Outcome(f))
          = [p \in 1..(n + 1) |-> IF p = n + 1 THEN Outcome(f) ELSE bar[p]]
    BY <1>2, <1>3, AppendFacts
  <1>5. FateBar' = [p \in 1..(n + 1) |-> IF p = n + 1 THEN Outcome(f) ELSE bar[p]]
    BY <1>1, <1>2 DEF FateBar
  <1>6. FateBar' = Append(bar, Outcome(f))
    BY <1>4, <1>5
  <1> QED
    BY <1>6 DEF bar

\* A step that leaves every packet where it is is a stuttering step.
LEMMA StutterStep ==
    ASSUME Consistent, QInv, NEW a \in Addr, NEW e, Put(a, e), UNCHANGED packetVars,
           e.waiting = cache[a].waiting, e.state # "NONE" \/ e.waiting = <<>>
    PROVE  QInv' /\ UNCHANGED Resolution!vars
  <1>1. /\ \A b \in Addr : cache'[b] = IF b = a THEN e ELSE cache[b]
        /\ fate' = fate /\ dest' = dest
    BY PutMaps DEF packetVars
  <1>2. \A b \in Addr : cache'[b].waiting = cache[b].waiting
    BY <1>1
  <1>3. QueueIsExact' /\ QueuedInOrder'
    BY <1>1, <1>2 DEF QInv, QueueIsExact, QueuedInOrder
  <1>4. UnknownHoldNothing'
    BY <1>1 DEF QInv, UnknownHoldNothing, In
  <1>5. UNCHANGED Resolution!vars
    BY <1>1, <1>2 DEF Resolution!vars
  <1> QED
    BY <1>3, <1>4, <1>5 DEF QInv

\* What the queues of A hold are the packets that wait for A.
LEMMA QueuedIsWaiting ==
    ASSUME Consistent, QInv, NEW A \in SUBSET Addr, NEW p \in DOMAIN fate
    PROVE  p \in Resolution!Queued(A) <=> fate[p] = "waiting" /\ dest[p] \in A
  <1>1. dest[p] \in Addr
    BY DEF Consistent, TypeOK
  <1>2. \A a \in A : QueueBar[a] = cache[a].waiting
    BY DEF QueueBar
  <1>3. Resolution!Queued(A) = UNION {{QueueBar[a][i] : i \in 1..Len(QueueBar[a])} : a \in A}
    BY DEF Resolution!Queued, QueueBar
  <1>4. p \in Resolution!Queued(A) <=> \E a \in A : Holds(QueueBar[a], p)
    BY <1>3 DEF Holds
  <1>5. p \in Resolution!Queued(A) <=> \E a \in A : fate[p] = "waiting" /\ dest[p] = a
    BY <1>2, <1>4 DEF QInv, QueueIsExact
  <1> QED
    BY <1>1, <1>5

\* The entries of A hold no packets any more, which all have the outcome o.
LEMMA SettleStep ==
    ASSUME Consistent, QInv, NEW A \in SUBSET Addr, NEW o, o # "queued",
           \A b \in Addr : IF b \in A THEN cache'[b].waiting = <<>>
                                      ELSE cache'[b] = cache[b],
           DOMAIN fate' = DOMAIN fate, Len(fate') = Len(fate), dest' = dest,
           \A p \in DOMAIN fate :
              IF fate[p] = "waiting" /\ dest[p] \in A THEN Outcome(fate'[p]) = o
                                                      ELSE fate'[p] = fate[p]
    PROVE  QInv' /\ Resolution!Settle(A, o)
  <1>1. \A p : Holds(<<>>, p) = FALSE
    BY DEF Holds
  <1>2. \A n : InOrder(<<>>, n)
    BY DEF InOrder
  <1>3. \A p \in DOMAIN fate :
            fate[p] = "waiting" /\ dest[p] \in A => fate'[p] # "waiting"
    BY DEF Outcome
  <1>4. QueueIsExact'
    BY <1>1, <1>3 DEF QInv, QueueIsExact
  <1>5. QueuedInOrder'
    BY <1>2 DEF QInv, QueuedInOrder
  <1>6. UnknownHoldNothing'
    BY DEF QInv, UnknownHoldNothing, In
  <1>7. FateBar' = [p \in DOMAIN FateBar |->
                       IF p \in Resolution!Queued(A) THEN o ELSE FateBar[p]]
    BY QueuedIsWaiting DEF FateBar
  <1>8. QueueBar' = [a \in Addr |-> IF a \in A THEN <<>> ELSE QueueBar[a]]
    BY DEF QueueBar
  <1>9. Resolution!Settle(A, o)
    BY <1>7, <1>8 DEF Resolution!Settle, FateBar, QueueBar
  <1> QED
    BY <1>4, <1>5, <1>6, <1>9 DEF QInv

\* A packet is sent or refused while the queue of its address stays as it is.
LEMMA PassStep ==
    ASSUME Consistent, QInv, NEW a \in Addr, NEW f \in Fate \ {"waiting"}, Offer(a, f),
           \A b \in Addr : /\ cache'[b].waiting = cache[b].waiting
                           /\ cache'[b].state = "NONE" => cache[b].state = "NONE"
    PROVE  QInv' /\ Resolution!Next
  <1> DEFINE n == Len(fate)
  <1>1. /\ n \in Nat /\ DOMAIN fate = 1..n /\ DOMAIN fate' = 1..(n + 1)
        /\ Len(fate') = n + 1 /\ fate'[n + 1] = f /\ dest'[n + 1] = a
        /\ \A p \in 1..n : fate'[p] = fate[p] /\ dest'[p] = dest[p]
    BY AppendFacts DEF Consistent, TypeOK, Offer
  <1>2. QueuedInOrder'
    BY <1>1, InOrderAppend, BarTypes DEF QInv, QueuedInOrder
  <1>3. UnknownHoldNothing'
    BY DEF QInv, UnknownHoldNothing, In
  <1>4. ASSUME NEW b \in Addr, NEW p \in 1..(n + 1)
        PROVE  (fate'[p] = "waiting" /\ dest'[p] = b) <=> Holds(cache[b].waiting, p)
    <2>1. CASE p \in 1..n
      BY <1>1, <2>1 DEF QInv, QueueIsExact
    <2>2. CASE p = n + 1
      <3>1. ~Holds(cache[b].waiting, p)
        BY <1>1, <2>2 DEF QInv, QueuedInOrder, InOrder, Holds
      <3> QED
        BY <1>1, <2>2, <3>1
    <2> QED
      BY <1>1, <2>1, <2>2
  <1>5. QueueIsExact'
    BY <1>1, <1>4 DEF QueueIsExact
  <1>6. FateBar' = Append(FateBar, Outcome(f)) /\ Outcome(f) \in {"sent", "lost"}
    BY AppendMaps DEF Offer, FateBar, Consistent, TypeOK, Fate, Outcome
  <1>7. QueueBar' = QueueBar
    BY DEF QueueBar
  <1>8. Resolution!Refuse \/ Resolution!Send(a)
    BY <1>6, <1>7 DEF Resolution!Refuse, Resolution!Send, FateBar, QueueBar
  <1> QED
    BY <1>2, <1>3, <1>5, <1>8 DEF QInv, Resolution!Next

\* The packet that is offered to a joins its queue, in entry e, behind those of
\* q: all that wait there, but for the one that a full queue gives up.  older
\* are the fates of the packets that were offered before.
Joins(a, q, older, e) ==
    LET n == Len(fate) IN
    /\ \A p \in 1..n : (older[p] = "waiting" /\ dest[p] = a) <=> Holds(q, p)
    /\ \A b \in Addr \ {a}, p \in 1..n :
          (older[p] = "waiting" /\ dest[p] = b) <=> (fate[p] = "waiting" /\ dest[p] = b)
    /\ e.state # "NONE" /\ InOrder(e.waiting, n + 1)
    /\ \A p : Holds(e.waiting, p) <=> Holds(q, p) \/ p = n + 1
    /\ \A b \in Addr : cache'[b] = IF b = a THEN e ELSE cache[b]
    /\ Len(fate') = n + 1 /\ DOMAIN fate' = 1..(n + 1) /\ fate'[n + 1] = "waiting"
    /\ \A p \in 1..n : fate'[p] = older[p]
    /\ dest'[n + 1] = a /\ \A p \in 1..n : dest'[p] = dest[p]

LEMMA JoinQueue ==
    ASSUME Consistent, QInv, NEW a \in Addr, NEW q, NEW older, NEW e, Joins(a, q, older, e)
    PROVE  QInv'
  <1> DEFINE n == Len(fate)
  <1>0. /\ \A p \in 1..n : (older[p] = "waiting" /\ dest[p] = a) <=> Holds(q, p)
        /\ \A b \in Addr \ {a}, p \in 1..n :
              (older[p] = "waiting" /\ dest[p] = b) <=> (fate[p] = "waiting" /\ dest[p] = b)
        /\ e.state # "NONE" /\ InOrder(e.waiting, n + 1)
        /\ \A p : Holds(e.waiting, p) <=> Holds(q, p) \/ p = n + 1
        /\ \A b \in Addr : cache'[b] = IF b = a THEN e ELSE cache[b]
        /\ Len(fate') = n + 1 /\ DOMAIN fate' = 1..(n + 1) /\ fate'[n + 1] = "waiting"
        /\ \A p \in 1..n : fate'[p] = older[p]
        /\ dest'[n + 1] = a /\ \A p \in 1..n : dest'[p] = dest[p]
    BY DEF Joins
  <1>1. n \in Nat /\ DOMAIN fate = 1..n /\ n + 1 \in Nat
    BY BarTypes
  <1>2. \A p : p \in 1..(n + 1) <=> p \in 1..n \/ p = n + 1
    BY <1>1
  <1>3. \A b \in Addr : InOrder(cache[b].waiting, n) /\ cache[b].waiting \in Seq(Nat)
    BY BarTypes DEF QInv, QueuedInOrder
  <1>4. \A b \in Addr : InOrder(cache[b].waiting, n + 1)
    BY <1>1, <1>3, InOrderAppend
  <1>5. QueuedInOrder'
    BY <1>0, <1>1, <1>4 DEF QueuedInOrder
  <1>6. ASSUME NEW b \in Addr, NEW p \in 1..(n + 1)
        PROVE  (fate'[p] = "waiting" /\ dest'[p] = b) <=> Holds(cache'[b].waiting, p)
    <2>1. CASE b = a
      <3>1. Holds(cache'[b].waiting, p) <=> Holds(q, p) \/ p = n + 1
        BY <1>0, <2>1
      <3>2. CASE p = n + 1
        BY <1>0, <2>1, <3>1, <3>2
      <3>3. CASE p \in 1..n
        <4>1. p # n + 1
          BY <1>1, <3>3
        <4> QED
          BY <1>0, <1>1, <2>1, <3>1, <3>3, <4>1
      <3> QED
        BY <1>2, <3>2, <3>3
    <2>2. CASE b # a
      <3>1. cache'[b] = cache[b]
        BY <1>0, <2>2
      <3>2. CASE p = n + 1
        <4>1. \A x : Holds(cache[b].waiting, x) => x \in 1..n
          BY <1>3 DEF InOrder, Holds
        <4>2. ~Holds(cache[b].waiting, p)
          BY <1>1, <3>2, <4>1
        <4> QED
          BY <1>0, <2>2, <3>1, <3>2, <4>2
      <3>3. CASE p \in 1..n
        <4>1. (fate[p] = "waiting" /\ dest[p] = b) <=> Holds(cache[b].waiting, p)
          BY <1>1, <3>3 DEF QInv, QueueIsExact
        <4> QED
          BY <1>0, <1>1, <2>2, <3>1, <3>3, <4>1
      <3> QED
        BY <1>2, <3>2, <3>3
    <2> QED
      BY <2>1, <2>2
  <1>7. QueueIsExact'
    BY <1>0, <1>6 DEF QueueIsExact
  <1>8. UnknownHoldNothing'
    BY <1>0 DEF QInv, UnknownHoldNothing, In
  <1> QED
    BY <1>5, <1>7, <1>8 DEF QInv

\* There is room in the queue.
LEMMA EnqueueStep ==
    ASSUME Consistent, QInv, NEW a \in Addr, NEW e, Put(a, e), Offer(a, "waiting"),
           Len(cache[a].waiting) < UnresolvedQueueSize,
           e.waiting = Append(cache[a].waiting, Packet), e.state # "NONE"
    PROVE  QInv' /\ Resolution!Next
  <1> DEFINE n == Len(fate)
             q == cache[a].waiting
  <1>1. /\ \A b \in Addr : cache'[b] = IF b = a THEN e ELSE cache[b]
        /\ QueueBar' = [QueueBar EXCEPT ![a] = e.waiting]
    BY PutMaps
  <1>2. /\ n \in Nat /\ DOMAIN fate = 1..n /\ q \in Seq(Nat) /\ Packet = n + 1
        /\ InOrder(q, n) /\ e.waiting = Append(q, n + 1)
    BY BarTypes DEF QInv, QueuedInOrder
  <1>3. InOrder(e.waiting, n + 1) /\ \A p : Holds(e.waiting, p) <=> Holds(q, p) \/ p = n + 1
    BY <1>2, InOrderAppend, HoldsAppend
  <1>4. /\ Len(fate') = n + 1 /\ DOMAIN fate' = 1..(n + 1) /\ fate'[n + 1] = "waiting"
        /\ \A p \in 1..n : fate'[p] = fate[p]
        /\ dest'[n + 1] = a /\ \A p \in 1..n : dest'[p] = dest[p]
    BY AppendFacts DEF Offer, Consistent, TypeOK, Fate
  <1>5. \A p \in DOMAIN fate : (fate[p] = "waiting" /\ dest[p] = a) <=> Holds(q, p)
    BY DEF QInv, QueueIsExact
  <1>6. QInv'
    <2>1. Joins(a, q, fate, e)
      BY <1>1, <1>2, <1>3, <1>4, <1>5 DEF Joins
    <2> HIDE DEF q
    <2> QED
      BY <2>1, JoinQueue
  <1>7. FateBar' = Append(FateBar, "queued")
    BY AppendMaps DEF Offer, FateBar, Consistent, TypeOK, Fate, Outcome
  <1>8. QueueBar[a] = q
    BY DEF QueueBar
  <1>9. QueueBar' = [QueueBar EXCEPT ![a] = Append(@, Packet)]
    BY <1>1, <1>8 DEF QueueBar
  <1>10. Resolution!Enqueue(a)
    BY <1>7, <1>8, <1>9, BarTypes DEF Resolution!Enqueue, FateBar, QueueBar
  <1> QED
    BY <1>6, <1>10 DEF Resolution!Next

\* A full queue gives up its oldest packet.
LEMMA DisplaceStep ==
    ASSUME Consistent, QInv, NEW a \in Addr, NEW e, Put(a, e),
           NEW q, q = cache[a].waiting, q # <<>>,
           e.waiting = Append(Tail(q), Packet), e.state # "NONE",
           fate' = Append([fate EXCEPT ![Head(q)] = "displaced"], "waiting"),
           dest' = Append(dest, a)
    PROVE  QInv' /\ Resolution!Next
  <1> DEFINE n == Len(fate)
             older == [fate EXCEPT ![Head(q)] = "displaced"]
             h == Head(q)
  <1>1. /\ \A b \in Addr : cache'[b] = IF b = a THEN e ELSE cache[b]
        /\ QueueBar' = [QueueBar EXCEPT ![a] = e.waiting]
    BY PutMaps
  <1>2. /\ n \in Nat /\ DOMAIN fate = 1..n /\ q \in Seq(Nat) /\ Packet = n + 1
        /\ InOrder(q, n) /\ fate \in Seq(Fate) /\ dest \in Seq(Addr) /\ Len(dest) = n
    BY BarTypes DEF QInv, QueuedInOrder, Consistent, TypeOK
  <1>3. /\ Tail(q) \in Seq(Nat) /\ InOrder(Tail(q), n) /\ Holds(q, h) /\ h \in 1..n
        /\ \A p : Holds(Tail(q), p) <=> Holds(q, p) /\ p # h
    BY <1>2, InOrderTail
  <1>4. /\ InOrder(e.waiting, n + 1)
        /\ \A p : Holds(e.waiting, p) <=> Holds(Tail(q), p) \/ p = n + 1
    <2> DEFINE t == Tail(q)
    <2>1. e.waiting = Append(t, n + 1)
      BY <1>2
    <2> HIDE DEF t
    <2>2. t \in Seq(Nat) /\ InOrder(t, n) /\ n \in Nat /\ n + 1 \in Nat
      BY <1>2, <1>3 DEF t
    <2>3. InOrder(Append(t, n + 1), n + 1)
      BY <2>2, InOrderAppend
    <2>4. \A p : Holds(Append(t, n + 1), p) <=> Holds(t, p) \/ p = n + 1
      BY <2>2, HoldsAppend
    <2>5. InOrder(e.waiting, n + 1) /\ \A p : Holds(e.waiting, p) <=> Holds(t, p) \/ p = n + 1
      BY <2>1, <2>3, <2>4
    <2> QED
      BY <2>5 DEF t
  <1>5. /\ older \in Seq(Fate) /\ Len(older) = n
        /\ \A p \in 1..n : older[p] = IF p = h THEN "displaced" ELSE fate[p]
    BY <1>2, <1>3, ExceptSeq DEF Fate
  <1>6. \A p \in DOMAIN fate : (fate[p] = "waiting" /\ dest[p] = a) <=> Holds(q, p)
    BY DEF QInv, QueueIsExact
  <1>7. fate[h] = "waiting" /\ dest[h] = a
    BY <1>2, <1>3, <1>6
  <1>8. /\ \A p \in 1..n : (older[p] = "waiting" /\ dest[p] = a) <=> Holds(Tail(q), p)
        /\ \A b \in Addr \ {a}, p \in 1..n :
              (older[p] = "waiting" /\ dest[p] = b) <=> (fate[p] = "waiting" /\ dest[p] = b)
    <2> HIDE DEF older, h
    <2> QED
      BY <1>2, <1>3, <1>5, <1>6, <1>7
  <1>9. fate' = Append(older, "waiting") /\ "waiting" \in Fate
    BY DEF Fate
  <1>10. /\ Len(fate') = n + 1 /\ DOMAIN fate' = 1..(n + 1) /\ fate'[n + 1] = "waiting"
         /\ \A p \in 1..n : fate'[p] = older[p]
         /\ dest'[n + 1] = a /\ \A p \in 1..n : dest'[p] = dest[p]
    <2> HIDE DEF older
    <2> QED
      BY <1>2, <1>5, <1>9, AppendFacts
  <1>11. QInv'
    <2> HIDE DEF older, h
    <2>1. Joins(a, Tail(q), older, e)
      BY <1>1, <1>2, <1>4, <1>8, <1>10 DEF Joins
    <2> QED
      BY <2>1, JoinQueue
  <1>12. FateBar' = Append([FateBar EXCEPT ![h] = "lost"], "queued")
    <2>1. [p \in DOMAIN older |-> Outcome(older[p])] = [FateBar EXCEPT ![h] = "lost"]
      <3>1. DOMAIN older = 1..n /\ DOMAIN FateBar = 1..n
        BY <1>2, <1>5 DEF FateBar
      <3>2. \A p \in 1..n : Outcome(older[p]) = IF p = h THEN "lost" ELSE Outcome(fate[p])
        BY <1>5 DEF Outcome
      <3> HIDE DEF older, h
      <3> QED
        BY <3>1, <3>2 DEF FateBar
    <2>2. Outcome("waiting") = "queued"
      BY DEF Outcome
    <2>3. FateBar' = Append([p \in DOMAIN older |-> Outcome(older[p])], "queued")
      <3> HIDE DEF older
      <3> QED
        BY <1>5, <1>9, <2>2, AppendMaps
    <2> HIDE DEF older
    <2> QED
      BY <2>1, <2>3
  <1>13. QueueBar[a] = q
    BY DEF QueueBar
  <1>14. QueueBar' = [QueueBar EXCEPT ![a] = Append(Tail(@), Packet)]
    BY <1>1, <1>13 DEF QueueBar
  <1>15. Resolution!Displace(a)
    BY <1>12, <1>13, <1>14, BarTypes DEF Resolution!Displace, FateBar, QueueBar
  <1> QED
    BY <1>11, <1>15 DEF Resolution!Next

\* The packets that wait for a are all sent or all lost.
LEMMA SettleOne ==
    ASSUME Consistent, QInv, NEW a \in Addr, NEW e, Put(a, e), e.waiting = <<>>,
           NEW f \in Fate \ {"waiting"}, fate' = Settled({a}, f), dest' = dest
    PROVE  QInv' /\ Resolution!Next
  <1>1. \A b \in Addr : cache'[b] = IF b = a THEN e ELSE cache[b]
    BY PutMaps
  <1>2. DOMAIN fate' = DOMAIN fate /\ Len(fate') = Len(fate)
    BY SettledType DEF Consistent
  <1>3. Outcome(f) \in {"sent", "lost"} /\ {a} \in SUBSET Addr
    BY DEF Outcome, Fate
  <1>4. \A p \in DOMAIN fate :
            fate'[p] = IF fate[p] = "waiting" /\ dest[p] \in {a} THEN f ELSE fate[p]
    BY DEF Settled
  <1>5. QInv' /\ Resolution!Settle({a}, Outcome(f))
    BY <1>1, <1>2, <1>3, <1>4, SettleStep
  <1> QED
    BY <1>3, <1>5 DEF Resolution!Next, Resolution!Release, Resolution!GiveUp

\* A step of the abstract cache, or none of its.
Implemented == QInv' /\ (Resolution!Next \/ UNCHANGED Resolution!vars)

LEMMA LookupImplements ==
    ASSUME Consistent, QInv, NEW a \in Addr, Lookup(a)
    PROVE  Implemented
  <1> DEFINE q == cache[a].waiting
  <1>1. \A b \in Addr : cache[b] \in Entry
    BY DEF Consistent, TypeOK
  <1>2. Packet = Len(fate) + 1 /\ Len(fate) \in Nat /\ q \in Seq(Nat)
    BY BarTypes
  <1>3. CASE LookupNew(a)
    <2>1. CASE HasSource(a)
      <3> DEFINE n == [Absent EXCEPT !.state = "INCOMPLETE", !.timer = "retransmit",
                                     !.waiting = <<Packet>>]
      <3>1. q = <<>>
        BY <1>3 DEF LookupNew, QInv, UnknownHoldNothing
      <3>2. n.waiting = Append(q, Packet) /\ n.state # "NONE"
        BY <3>1 DEF Absent
      <3>3. Len(q) < UnresolvedQueueSize
        BY <3>1, NdiscAssumption
      <3> QED
        BY <1>3, <2>1, <3>2, <3>3, EnqueueStep DEF LookupNew, Implemented
    <2>2. CASE ~HasSource(a)
      BY <1>3, <2>2, PassStep DEF LookupNew, Implemented, Fate
    <2> QED
      BY <2>1, <2>2
  <1>4. CASE LookupKnown(a)
    BY <1>4, PassStep DEF LookupKnown, Implemented, Fate
  <1>5. CASE LookupStale(a)
    <2> DEFINE n == [cache[a] EXCEPT !.state = "DELAY", !.timer = "delay"]
    <2>1. n.waiting = cache[a].waiting /\ n.state = "DELAY"
      BY <1>1 DEF Entry
    <2>2. \A b \in Addr : cache'[b] = IF b = a THEN n ELSE cache[b]
      BY <1>5, PutMaps DEF LookupStale
    <2>3. Offer(a, "sent") /\ "sent" \in Fate \ {"waiting"}
      BY <1>5 DEF LookupStale, Fate
    <2>4. \A b \in Addr : /\ cache'[b].waiting = cache[b].waiting
                          /\ cache'[b].state = "NONE" => cache[b].state = "NONE"
      BY <2>1, <2>2
    <2> QED
      BY <2>3, <2>4, PassStep DEF Implemented
  <1>6. CASE LookupQueued(a)
    <2> DEFINE full == Len(q) >= UnresolvedQueueSize
               w == Append(IF full THEN Tail(q) ELSE q, Packet)
               n == [cache[a] EXCEPT !.waiting = w]
    <2>1. n.waiting = w /\ n.state = cache[a].state /\ cache[a].state # "NONE"
      BY <1>1, <1>6 DEF LookupQueued, In, Entry
    <2>2. Put(a, n)
      BY <1>6 DEF LookupQueued
    <2>3. CASE full
      <3>1. q # <<>>
        BY <1>2, <2>3, NdiscAssumption
      <3>2. n.waiting = Append(Tail(q), Packet)
        BY <2>1, <2>3
      <3>3. /\ fate' = Append([fate EXCEPT ![Head(q)] = "displaced"], "waiting")
            /\ dest' = Append(dest, a)
        BY <1>6, <2>3 DEF LookupQueued
      <3> HIDE DEF n, q
      <3>4. QInv' /\ Resolution!Next
        BY <2>1, <2>2, <3>1, <3>2, <3>3, DisplaceStep DEF q
      <3> QED
        BY <3>4 DEF Implemented
    <2>4. CASE ~full
      <3>1. Len(q) < UnresolvedQueueSize
        BY <1>2, <2>4, NdiscAssumption
      <3>2. n.waiting = Append(q, Packet)
        BY <2>1, <2>4
      <3>3. Offer(a, "waiting")
        BY <1>6, <2>4 DEF LookupQueued, Offer
      <3> HIDE DEF n
      <3>4. QInv' /\ Resolution!Next
        BY <2>1, <2>2, <3>1, <3>2, <3>3, EnqueueStep
      <3> QED
        BY <3>4 DEF Implemented
    <2> QED
      BY <2>3, <2>4
  <1> QED
    BY <1>3, <1>4, <1>5, <1>6 DEF Lookup

LEMMA MarksKeepPackets ==
    ASSUME NEW e \in Entry, NEW m
    PROVE  /\ MarkedReachable(e, m).waiting = e.waiting
           /\ MarkedReachable(e, m).state = "REACHABLE"
           /\ MarkedStale(e, m).waiting = e.waiting
           /\ MarkedStale(e, m).state = "STALE"
           /\ StopNudTimer(e).waiting = e.waiting
           /\ StopNudTimer(e).state = e.state
  BY DEF MarkedReachable, MarkedStale, StopNudTimer, Entry

\* The waiting packets of a are sent from an entry.
LEMMA ReleaseStep ==
    ASSUME Consistent, QInv, NEW a \in Addr, NEW e \in Entry, NEW f \in Fate \ {"waiting"},
           Release(a, e, f)
    PROVE  Implemented
  <1>1. [e EXCEPT !.waiting = <<>>].waiting = <<>>
    BY DEF Entry
  <1> QED
    BY <1>1, SettleOne DEF Release, Implemented

LEMMA MessageImplements ==
    ASSUME Consistent, QInv, NEW a \in Addr, NEW m \in Macs,
           \/ Learn(a, m)
           \/ ReceiveLLA(a, m)
           \/ \E s, o \in BOOLEAN : HandleNA(a, m, s, o)
    PROVE  Implemented
  <1> DEFINE e == cache[a]
             stopped == StopNudTimer(e)
  <1>1. e \in Entry
    BY DEF Consistent, TypeOK
  <1>2. stopped \in Entry /\ MarkedReachable(e, m) \in Entry
    BY <1>1, MarksOK
  <1>3. ASSUME NEW n, Put(a, n), UNCHANGED packetVars, n.waiting = e.waiting, n.state # "NONE"
        PROVE  Implemented
    BY <1>3, StutterStep DEF Implemented
  <1>4. CASE Learn(a, m)
    <2>1. CASE e.mac # m
      BY <1>1, <1>3, <1>4, <2>1, MarksKeepPackets DEF Learn
    <2>2. CASE e.mac = m
      <3>1. Put(a, e) /\ UNCHANGED packetVars
        BY <1>4, <2>2 DEF Learn
      <3>2. e.state # "NONE" \/ e.waiting = <<>>
        BY DEF QInv, UnknownHoldNothing, In
      <3> QED
        BY <3>1, <3>2, StutterStep DEF Implemented
    <2> QED
      BY <2>1, <2>2
  <1>5. CASE ReceiveLLA(a, m)
    <2>1. CASE In(a, {"INCOMPLETE"})
      BY <1>2, <1>5, <2>1, ReleaseStep DEF ReceiveLLA, Fate
    <2>2. CASE ~In(a, {"INCOMPLETE"})
      BY <1>1, <1>3, <1>5, <2>2, MarksKeepPackets DEF ReceiveLLA
    <2> QED
      BY <2>1, <2>2
  <1>6. ASSUME NEW s \in BOOLEAN, NEW o \in BOOLEAN, HandleNA(a, m, s, o)
        PROVE  Implemented
    <2>1. CASE AdvertisedFirst(a, m, s)
      <3>1. CASE s
        BY <1>2, <2>1, <3>1, ReleaseStep DEF AdvertisedFirst, Fate
      <3>2. CASE ~s
        BY <1>1, <1>2, <1>3, <2>1, <3>2, MarksKeepPackets DEF AdvertisedFirst
      <3> QED
        BY <3>1, <3>2
    <2>2. CASE AdvertisedDifferent(a, m, o)
      <3> DEFINE n == [stopped EXCEPT !.state = IF @ = "REACHABLE" THEN "STALE" ELSE @]
      <3>1. stopped.waiting = e.waiting /\ stopped.state = e.state
        BY <1>1, MarksKeepPackets
      <3>2. n.waiting = stopped.waiting
            /\ n.state = IF stopped.state = "REACHABLE" THEN "STALE" ELSE stopped.state
        BY <1>2 DEF Entry
      <3>3. e.state # "NONE" /\ Put(a, n) /\ UNCHANGED packetVars
        BY <2>2 DEF AdvertisedDifferent, In
      <3>4. n.waiting = e.waiting /\ n.state # "NONE"
        BY <3>1, <3>2, <3>3
      <3> HIDE DEF n
      <3> QED
        BY <1>3, <3>3, <3>4
    <2>3. CASE AdvertisedAgain(a, m, s, o)
      <3>1. CASE s /\ In(a, {"PROBE"})
        BY <1>2, <2>3, <3>1, ReleaseStep DEF AdvertisedAgain, Fate
      <3>2. CASE s /\ ~In(a, {"PROBE"})
        BY <1>1, <1>3, <2>3, <3>2, MarksKeepPackets DEF AdvertisedAgain
      <3>3. CASE ~s
        <4> DEFINE n == [stopped EXCEPT !.mac = m]
        <4>1. stopped.waiting = e.waiting /\ stopped.state = e.state
          BY <1>1, MarksKeepPackets
        <4>2. n.waiting = stopped.waiting /\ n.state = stopped.state
          BY <1>2 DEF Entry
        <4>3. e.state # "NONE" /\ Put(a, n) /\ UNCHANGED packetVars
          BY <2>3, <3>3 DEF AdvertisedAgain, In
        <4> QED
          BY <1>3, <4>1, <4>2, <4>3
      <3> QED
        BY <3>1, <3>2, <3>3
    <2> QED
      BY <1>6, <2>1, <2>2, <2>3 DEF HandleNA
  <1> QED
    BY <1>4, <1>5, <1>6

LEMMA ConfirmationImplements ==
    ASSUME Consistent, QInv, NEW a \in Addr, UpdateReachableTimer(a) \/ ReachabilityHint(a)
    PROVE  Implemented
  <1> DEFINE e == cache[a]
  <1>1. e \in Entry
    BY DEF Consistent, TypeOK
  <1>2. CASE UpdateReachableTimer(a)
    <2> DEFINE n == [e EXCEPT !.timer = "reachable"]
    <2>1. n.waiting = e.waiting /\ n.state = e.state
      BY <1>1 DEF Entry
    <2>2. Put(a, n) /\ UNCHANGED packetVars /\ e.state # "NONE"
      BY <1>2 DEF UpdateReachableTimer, In
    <2> QED
      BY <2>1, <2>2, StutterStep DEF Implemented
  <1>3. CASE ReachabilityHint(a)
    <2> DEFINE n == [MarkedReachable(e, e.mac) EXCEPT !.solicits = e.solicits]
    <2>1. MarkedReachable(e, e.mac) \in Entry
      BY <1>1, MarksOK DEF Entry
    <2>2. n \in Entry
      BY <1>1, <2>1 DEF Entry
    <2>3. n.waiting = MarkedReachable(e, e.mac).waiting
          /\ n.state = MarkedReachable(e, e.mac).state
      BY <2>1 DEF Entry
    <2>4. n.waiting = e.waiting /\ n.state = "REACHABLE"
      BY <1>1, <2>3, MarksKeepPackets
    <2>5. CASE In(a, {"PROBE"})
      BY <1>3, <2>2, <2>5, ReleaseStep DEF ReachabilityHint, Fate
    <2>6. CASE ~In(a, {"PROBE"})
      <3>1. Put(a, n) /\ UNCHANGED packetVars
        BY <1>3, <2>6 DEF ReachabilityHint
      <3> QED
        BY <2>4, <3>1, StutterStep DEF Implemented
    <2> QED
      BY <2>5, <2>6
  <1> QED
    BY <1>2, <1>3

LEMMA ClearedStep ==
    ASSUME Consistent, QInv, NEW a \in Addr, Remove(a, Settled({a}, "cleared"))
    PROVE  Implemented
  BY SettleOne DEF Remove, Absent, Fate, Implemented

\* The sender of the oldest packet gets an error, which is lost with the others.
LEMMA ReportedStep ==
    ASSUME Consistent, QInv, NEW a \in Addr, cache[a].waiting # <<>>,
           Remove(a, [Settled({a}, "cleared") EXCEPT ![Head(cache[a].waiting)] = "reported"])
    PROVE  Implemented
  <1> DEFINE q == cache[a].waiting
             h == Head(q)
             cleared == Settled({a}, "cleared")
             n == Len(fate)
  <1>1. n \in Nat /\ DOMAIN fate = 1..n /\ q \in Seq(Nat) /\ InOrder(q, n)
    BY BarTypes DEF QInv, QueuedInOrder
  <1>2. h \in 1..n /\ Holds(q, h)
    BY <1>1, InOrderTail
  <1>3. fate[h] = "waiting" /\ dest[h] = a
    BY <1>1, <1>2 DEF QInv, QueueIsExact
  <1>4. cleared \in Seq(Fate) /\ Len(cleared) = n
    BY SettledType DEF Consistent, Fate
  <1>5. \A p \in 1..n :
            cleared[p] = IF fate[p] = "waiting" /\ dest[p] \in {a} THEN "cleared" ELSE fate[p]
    BY <1>1 DEF Settled
  <1>6. fate' = [cleared EXCEPT ![h] = "reported"] /\ dest' = dest /\ "reported" \in Fate
    BY DEF Remove, Fate
  <1> HIDE DEF cleared, h
  <1>7. /\ fate' \in Seq(Fate) /\ Len(fate') = n
        /\ \A p \in 1..n : fate'[p] = IF p = h THEN "reported" ELSE cleared[p]
    BY <1>2, <1>4, <1>6, ExceptSeq
  <1>8. DOMAIN fate' = DOMAIN fate
    BY <1>1, <1>7
  <1>9. \A p \in DOMAIN fate :
            IF fate[p] = "waiting" /\ dest[p] \in {a} THEN Outcome(fate'[p]) = "lost"
                                                      ELSE fate'[p] = fate[p]
    BY <1>1, <1>3, <1>5, <1>7 DEF Outcome
  <1>10. \A b \in Addr : cache'[b] = IF b = a THEN Absent ELSE cache[b]
    BY PutMaps DEF Remove
  <1>11. \A b \in Addr : IF b \in {a} THEN cache'[b].waiting = <<>> ELSE cache'[b] = cache[b]
    BY <1>10 DEF Absent
  <1>12. QInv' /\ Resolution!Settle({a}, "lost")
    BY <1>6, <1>7, <1>8, <1>9, <1>11, SettleStep
  <1> QED
    BY <1>12 DEF Implemented, Resolution!Next, Resolution!GiveUp

LEMMA TimeoutImplements ==
    ASSUME Consistent, QInv, NEW a \in Addr, Timeout(a)
    PROVE  Implemented
  <1> DEFINE e == cache[a]
  <1>1. e \in Entry /\ EntryOK(e)
    BY ConsistentByEntry DEF Consistent, TypeOK
  <1>2. e.timer # "off" => e.state # "NONE"
    BY <1>1 DEF EntryOK, TimerFits
  <1>3. ASSUME Put(a, [e EXCEPT !.solicits = @ + 1]), UNCHANGED packetVars, e.timer # "off"
        PROVE  Implemented
    <2> DEFINE n == [e EXCEPT !.solicits = @ + 1]
    <2>1. n.waiting = e.waiting /\ n.state = e.state
      BY <1>1 DEF Entry
    <2> QED
      BY <1>2, <1>3, <2>1, StutterStep DEF Implemented
  <1>4. CASE FunctionReachableTimeout(a)
    <2> DEFINE n == [e EXCEPT !.state = "STALE", !.timer = "off"]
    <2>1. n.waiting = e.waiting /\ n.state = "STALE"
      BY <1>1 DEF Entry
    <2> QED
      BY <1>4, <2>1, StutterStep DEF FunctionReachableTimeout, Implemented
  <1>5. CASE FunctionRetransmitTimeout(a)
    <2>1. e.timer = "retransmit" /\ e.waiting # <<>>
      BY <1>1, <1>5 DEF FunctionRetransmitTimeout, Expired, EntryOK
    <2>2. CASE ~HasSource(a)
      BY <1>5, <2>2, ClearedStep DEF FunctionRetransmitTimeout
    <2>3. CASE HasSource(a) /\ e.solicits < MaxMulticastSolicit
      BY <1>3, <1>5, <2>1, <2>3 DEF FunctionRetransmitTimeout
    <2>4. CASE HasSource(a) /\ ~(e.solicits < MaxMulticastSolicit)
      BY <1>5, <2>1, <2>4, ReportedStep DEF FunctionRetransmitTimeout
    <2> QED
      BY <2>2, <2>3, <2>4
  <1>6. CASE FunctionDelayTimeout(a)
    <2> DEFINE n == [e EXCEPT !.state = "PROBE", !.timer = "probe", !.solicits = 1]
    <2>1. n.waiting = e.waiting /\ n.state = "PROBE"
      BY <1>1 DEF Entry
    <2>2. CASE HasSource(a)
      BY <1>6, <2>1, <2>2, StutterStep DEF FunctionDelayTimeout, Implemented
    <2>3. CASE ~HasSource(a)
      BY <1>6, <2>3, ClearedStep DEF FunctionDelayTimeout
    <2> QED
      BY <2>2, <2>3
  <1>7. CASE FunctionProbeTimeout(a)
    <2>1. e.timer # "off"
      BY <1>7 DEF FunctionProbeTimeout, Expired
    <2>2. CASE e.solicits < MaxUnicastSolicit /\ HasSource(a)
      BY <1>3, <1>7, <2>1, <2>2 DEF FunctionProbeTimeout
    <2>3. CASE ~(e.solicits < MaxUnicastSolicit /\ HasSource(a))
      BY <1>7, <2>3, ClearedStep DEF FunctionProbeTimeout
    <2> QED
      BY <2>2, <2>3
  <1> QED
    BY <1>4, <1>5, <1>6, <1>7 DEF Timeout

LEMMA ConfigurationImplements ==
    ASSUME Consistent, QInv,
           \/ Flush
           \/ ChangeAddress
           \/ UNCHANGED vars
           \/ \E a \in Addr, m \in Macs : MarkPermanent(a, m)
    PROVE  Implemented
  <1>1. CASE Flush
    <2>1. DOMAIN fate' = DOMAIN fate /\ Len(fate') = Len(fate) /\ dest' = dest
      BY <1>1, SettledType DEF Flush, Consistent, Fate
    <2>2. \A p \in DOMAIN fate :
            IF fate[p] = "waiting" /\ dest[p] \in Addr THEN Outcome(fate'[p]) = "lost"
                                                       ELSE fate'[p] = fate[p]
      BY <1>1 DEF Flush, Settled, Outcome
    <2>3. \A b \in Addr : IF b \in Addr THEN cache'[b].waiting = <<>> ELSE cache'[b] = cache[b]
      BY <1>1 DEF Flush, Absent
    <2>4. QInv' /\ Resolution!Settle(Addr, "lost")
      BY <2>1, <2>2, <2>3, SettleStep
    <2> QED
      BY <2>4 DEF Implemented, Resolution!Next, Resolution!GiveUp
  <1>2. CASE UNCHANGED <<cache, packetVars>>
    BY <1>2 DEF packetVars, Implemented, QInv, QueueIsExact, QueuedInOrder,
                UnknownHoldNothing, In, Resolution!vars
  <1>3. ASSUME NEW a \in Addr, NEW m \in Macs, MarkPermanent(a, m)
        PROVE  Implemented
    <2> DEFINE n == [Absent EXCEPT !.state = "PERMANENT", !.mac = m]
    <2>1. n.waiting = <<>> /\ n.state = "PERMANENT"
      BY DEF Absent
    <2>2. cache[a].waiting = <<>> /\ Put(a, n) /\ UNCHANGED packetVars
      BY <1>3 DEF MarkPermanent, QInv, UnknownHoldNothing
    <2> QED
      BY <2>1, <2>2, StutterStep DEF Implemented
  <1> QED
    BY <1>1, <1>2, <1>3 DEF ChangeAddress, vars

\* Every step of the cache is one step of the abstract cache, or none of its.
LEMMA NextImplements ==
    Consistent /\ QInv /\ [Next]_vars => QInv' /\ [Resolution!Next]_(Resolution!vars)
  <1> SUFFICES ASSUME Consistent, QInv, [Next]_vars PROVE Implemented
    BY DEF Implemented
  <1>1. ASSUME NEW a \in Addr,
               \/ Lookup(a)
               \/ UpdateReachableTimer(a) \/ ReachabilityHint(a)
               \/ Timeout(a)
        PROVE  Implemented
    BY <1>1, LookupImplements, ConfirmationImplements, TimeoutImplements
  <1>2. ASSUME NEW a \in Addr, NEW m \in Macs,
               \/ HandleNS(a, m) \/ HandleRS(a, m) \/ HandleRedirection(a, m)
               \/ ReceiveLLA(a, m)
               \/ \E s, o \in BOOLEAN : HandleNA(a, m, s, o)
        PROVE  Implemented
    BY <1>2, MessageImplements DEF HandleNS, HandleRS, HandleRedirection
  <1> QED
    BY <1>1, <1>2, ConfigurationImplements DEF Next

LEMMA InitImplements == Init => QInv /\ Resolution!Init
  BY DEF Init, Absent, QInv, QueueIsExact, QueuedInOrder, UnknownHoldNothing, Holds, InOrder,
         Resolution!Init

\* The cache implements AddressResolution with queues that drop their oldest
\* packet, whatever the attributes, the neighbours and the messages they send:
\* nothing is sent twice, after it was lost, or out of the order of its queue.
THEOREM KeepsItsPromise == Spec => KeepsPromise
  <1>1. Init => Consistent /\ QInv /\ Resolution!Init
    BY InitConsistent, InitImplements
  <1>2. Consistent /\ QInv /\ [Next]_vars
          => Consistent' /\ QInv' /\ [Resolution!Next]_(Resolution!vars)
    BY NextConsistent, NextImplements
  <1> QED
    BY <1>1, <1>2, PTL DEF Spec, KeepsPromise, Resolution!Spec
=============================================================================
