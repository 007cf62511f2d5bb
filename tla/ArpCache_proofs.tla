-------------------------- MODULE ArpCache_proofs --------------------------
(***************************************************************************)
(* Proofs about ArpCache, for every set of addresses and every value of    *)
(* the attributes: type correctness, the NS_FATAL_ERROR of Lookup is never *)
(* reached, the shared timer covers every waiting entry, only waiting      *)
(* entries hold packets, every wait is bounded, and the cache implements   *)
(* AddressResolution.                                                      *)
(***************************************************************************)
EXTENDS ArpCache, TLAPS

(* The ticks an entry may have spent waiting before its next retry. *)
Budget(r) == (r + 1) * WaitReplyTimeout

(* An entry that is not waiting has no retries and no wait on its account. *)
NothingOnAccount ==
    \A a \in Addr : ~Waiting(a) => retries[a] = 0 /\ waited[a] = 0

(* The time already waited and the time left of the timer fit the retries. *)
WaitWithinBudget ==
    \A a \in Addr : Waiting(a) => waited[a] + timer <= Budget(retries[a])

(* The inductive invariant.  TypeOK and PendingOnlyWhileWaiting are          *)
(* inductive together; the timer, the age and the budget need one another.   *)
IInv ==
    /\ TypeOK
    /\ TimerCoversWaiting
    /\ NoFatalError
    /\ PendingOnlyWhileWaiting
    /\ NothingOnAccount
    /\ WaitWithinBudget

-----------------------------------------------------------------------------
(* Lemmas about the operators *)

\* The cap on ages lies above each of the three timeouts.
LEMMA AgeCapProperties ==
    /\ AgeCap \in Nat
    /\ WaitReplyTimeout < AgeCap
    /\ AliveTimeout < AgeCap
    /\ DeadTimeout < AgeCap
  BY ArpAssumption DEF AgeCap, AtLeast

\* One more retry buys one more timeout, and no entry outlives MaxRetries.
LEMMA BudgetGrows ==
    /\ \A r \in Nat : Budget(r) \in Nat
    /\ \A r \in Nat : Budget(r + 1) = Budget(r) + WaitReplyTimeout
    /\ Budget(0) = WaitReplyTimeout
    /\ \A r \in 0..MaxRetries : Budget(r) <= Budget(MaxRetries)
  <1> DEFINE W == WaitReplyTimeout
  <1>0. W \in Nat /\ MaxRetries \in Nat
    BY ArpAssumption
  <1>1. \A r \in Nat : (r + 1) * W \in Nat
    BY <1>0
  <1>2. \A r \in Nat : (r + 1 + 1) * W = (r + 1) * W + W
    BY <1>0
  <1>3. (0 + 1) * W = W
    BY <1>0
  <1>4. \A r \in 0..MaxRetries : (r + 1) * W <= (MaxRetries + 1) * W
    <2> TAKE r \in 0..MaxRetries
    <2>1. PICK d \in Nat : MaxRetries = r + d
      BY <1>0
    <2>2. (MaxRetries + 1) * W = (r + 1) * W + d * W
      BY <1>0, <2>1
    <2>3. d * W \in Nat /\ (r + 1) * W \in Nat
      BY <1>0
    <2> QED
      BY <2>2, <2>3
  <1> QED
    BY <1>1, <1>2, <1>3, <1>4 DEF Budget

\* Settling packets keeps the record of fates a sequence of the same length.
LEMMA SettledType ==
    ASSUME fate \in Seq(Fate), NEW A, NEW f \in Fate
    PROVE  Settled(A, f) \in Seq(Fate) /\ Len(Settled(A, f)) = Len(fate)
  <1>1. Len(fate) \in Nat /\ DOMAIN fate = 1..Len(fate)
    OBVIOUS
  <1>2. Settled(A, f) \in [1..Len(fate) -> Fate]
    BY <1>1 DEF Settled
  <1> QED
    BY <1>1, <1>2

-----------------------------------------------------------------------------
(* The invariant holds initially *)

LEMMA InitEstablishes == Init => IInv
  <1> SUFFICES ASSUME Init PROVE IInv
    OBVIOUS
  <1>1. TypeOK
    <2>1. /\ age \in [Addr -> 0..AgeCap]
          /\ retries \in [Addr -> 0..MaxRetries]
          /\ waited \in [Addr -> Nat]
          /\ timer \in Off..WaitReplyTimeout
      BY ArpAssumption, AgeCapProperties DEF Init, Off
    <2>2. /\ state \in [Addr -> EntryState]
          /\ scheduled \in SUBSET Addr
          /\ net \in SUBSET Message
      BY DEF Init, EntryState
    <2>3. pending \in [Addr -> Seq(Nat)]
      BY DEF Init
    <2>4. fate \in Seq(Fate) /\ dest \in Seq(Addr) /\ Len(fate) = Len(dest)
      BY DEF Init
    <2>5. fatal \in BOOLEAN
      BY DEF Init
    <2> QED
      BY <2>1, <2>2, <2>3, <2>4, <2>5 DEF TypeOK
  <1> QED
    BY <1>1 DEF Init, IInv, TimerCoversWaiting, NoFatalError, Waiting,
                PendingOnlyWhileWaiting, NothingOnAccount, WaitWithinBudget

-----------------------------------------------------------------------------
(* Steps that leave the entries and the timer alone *)

\* Only TypeOK has to be shown of a step that touches no entry and no timer.
LEMMA EntriesUntouched ==
    ASSUME IInv, UNCHANGED <<entryVars, timer, fatal>>, TypeOK'
    PROVE  IInv'
  BY DEF IInv, entryVars, TimerCoversWaiting, NoFatalError, Waiting,
         PendingOnlyWhileWaiting, NothingOnAccount, WaitWithinBudget

\* Offering a packet extends the two records of packets by one place.
LEMMA OfferType ==
    ASSUME TypeOK, NEW a \in Addr, NEW f \in Fate, Offer(a, f)
    PROVE  fate' \in Seq(Fate) /\ dest' \in Seq(Addr) /\ Len(fate') = Len(dest')
  BY DEF TypeOK, Offer

LEMMA OfferOnly ==
    ASSUME IInv, NEW a \in Addr, NEW f \in Fate, Offer(a, f),
           UNCHANGED <<entryVars, timer, scheduled, net, fatal>>
    PROVE  IInv'
  <1>1. TypeOK'
    <2>1. fate' \in Seq(Fate) /\ dest' \in Seq(Addr) /\ Len(fate') = Len(dest')
      BY OfferType DEF IInv
    <2> QED
      BY <2>1 DEF IInv, TypeOK, entryVars
  <1> QED
    BY <1>1, EntriesUntouched

LEMMA LookupResolvedPreserves ==
    ASSUME IInv, NEW a \in Addr, LookupResolved(a)
    PROVE  IInv'
  BY OfferOnly DEF LookupResolved, Fate

LEMMA LookupDeadPreserves ==
    ASSUME IInv, NEW a \in Addr, LookupDead(a)
    PROVE  IInv'
  BY OfferOnly DEF LookupDead, Fate

\* Messages come and go without touching the cache.
LEMMA NetworkPreserves ==
    ASSUME IInv,
           \/ \E a \in Addr : SendArpRequest(a) \/ ReceiveRequest(a)
           \/ \E m \in net : Lose(m)
    PROVE  IInv'
  <1>1. UNCHANGED <<entryVars, timer, packetVars, fatal>>
    BY DEF SendArpRequest, ReceiveRequest, Lose
  <1>2. net' \in SUBSET Message /\ scheduled' \in SUBSET Addr
    <2>1. \A a \in Addr : Request(a) \in Message /\ Reply(a) \in Message
      BY DEF Message, Request, Reply
    <2> QED
      BY <2>1 DEF IInv, TypeOK, SendArpRequest, ReceiveRequest, Lose
  <1>3. TypeOK'
    BY <1>1, <1>2 DEF IInv, TypeOK, entryVars, packetVars
  <1> QED
    BY <1>1, <1>3, EntriesUntouched

-----------------------------------------------------------------------------
(* A packet meets an address that is not resolved *)

LEMMA LookupUnresolvedPreserves ==
    ASSUME IInv, NEW a \in Addr, LookupUnresolved(a)
    PROVE  IInv'
  <1>1. ~Waiting(a) /\ MarkWaitReply(a)
    BY DEF LookupUnresolved, Waiting
  <1>2. pending[a] = <<>> /\ retries[a] = 0
    BY <1>1 DEF IInv, PendingOnlyWhileWaiting, NothingOnAccount
  <1>3. timer' \in 0..WaitReplyTimeout
    BY <1>1, ArpAssumption DEF MarkWaitReply, StartWaitReplyTimer, IInv, TypeOK, Off
  <1>4. TypeOK'
    <2>1. fate' \in Seq(Fate) /\ dest' \in Seq(Addr) /\ Len(fate') = Len(dest')
      BY <1>1, OfferType DEF MarkWaitReply, IInv, Fate
    <2>2. Packet \in Nat
      BY DEF Packet, IInv, TypeOK
    <2>3. pending' \in [Addr -> Seq(Nat)]
      BY <1>1, <2>2 DEF MarkWaitReply, IInv, TypeOK
    <2>4. /\ state' \in [Addr -> EntryState]
          /\ age' \in [Addr -> 0..AgeCap]
          /\ waited' \in [Addr -> Nat]
          /\ scheduled' \in SUBSET Addr
      BY <1>1, AgeCapProperties DEF MarkWaitReply, IInv, TypeOK, EntryState
    <2> QED
      BY <1>1, <1>3, <2>1, <2>3, <2>4 DEF MarkWaitReply, IInv, TypeOK, Off
  <1>5. TimerCoversWaiting'
    <2> SUFFICES ASSUME NEW b \in Addr, Waiting(b)'
                 PROVE  timer' # Off /\ timer' + age'[b] <= WaitReplyTimeout
      BY DEF TimerCoversWaiting
    <2>1. CASE b = a
      <3>1. age'[b] \in 0..0
        BY <1>1, <2>1 DEF MarkWaitReply, IInv, TypeOK
      <3>2. timer' \in Int /\ timer' >= 0 /\ timer' <= WaitReplyTimeout
        BY <1>3, ArpAssumption
      <3> QED
        BY <3>1, <3>2, ArpAssumption DEF Off
    <2>2. CASE b # a
      <3>1. Waiting(b) /\ age'[b] = age[b]
        BY <1>1, <2>2 DEF MarkWaitReply, IInv, TypeOK, Waiting
      <3>2. timer' = timer
        BY <1>1, <3>1
        DEF MarkWaitReply, StartWaitReplyTimer, IInv, TimerCoversWaiting
      <3> QED
        BY <3>1, <3>2 DEF IInv, TimerCoversWaiting
    <2> QED
      BY <2>1, <2>2
  <1>6. PendingOnlyWhileWaiting'
    <2> SUFFICES ASSUME NEW b \in Addr
                 PROVE  IF Waiting(b)' THEN Len(pending'[b]) \in 1..AtLeast(1, PendingQueueSize)
                                       ELSE pending'[b] = <<>>
      BY DEF PendingOnlyWhileWaiting, Waiting
    <2>1. pending \in [Addr -> Seq(Nat)] /\ state \in [Addr -> EntryState]
      BY DEF IInv, TypeOK
    <2>2. CASE b = a
      <3>1. pending'[a] = Append(<<>>, Packet) /\ Waiting(a)'
        BY <1>1, <1>2, <2>1 DEF MarkWaitReply, Waiting
      <3>2. Len(pending'[a]) = 1
        BY <3>1
      <3>3. 1 \in 1..AtLeast(1, PendingQueueSize)
        BY ArpAssumption DEF AtLeast
      <3> QED
        BY <2>2, <3>1, <3>2, <3>3
    <2>3. CASE b # a
      <3>1. pending'[b] = pending[b] /\ (Waiting(b)' <=> Waiting(b))
        BY <1>1, <2>1, <2>3 DEF MarkWaitReply, Waiting
      <3> QED
        BY <3>1 DEF IInv, PendingOnlyWhileWaiting
    <2> QED
      BY <2>2, <2>3
  <1>7. NothingOnAccount'
    BY <1>1 DEF MarkWaitReply, IInv, TypeOK, NothingOnAccount, Waiting
  <1>8. WaitWithinBudget'
    <2> SUFFICES ASSUME NEW b \in Addr, Waiting(b)'
                 PROVE  waited'[b] + timer' <= Budget(retries'[b])
      BY DEF WaitWithinBudget, Budget
    <2>1. CASE b = a
      <3>1. waited'[b] = 0 /\ retries'[b] = 0
        BY <1>1, <1>2, <2>1 DEF MarkWaitReply, IInv, TypeOK
      <3> QED
        BY <3>1, <1>3, BudgetGrows, ArpAssumption
    <2>2. CASE b # a
      <3>1. Waiting(b) /\ waited'[b] = waited[b] /\ retries'[b] = retries[b]
        BY <1>1, <2>2 DEF MarkWaitReply, IInv, TypeOK, Waiting
      <3>2. timer' = timer
        BY <1>1, <3>1
        DEF MarkWaitReply, StartWaitReplyTimer, IInv, TimerCoversWaiting
      <3> QED
        BY <3>1, <3>2 DEF IInv, WaitWithinBudget
    <2> QED
      BY <2>1, <2>2
  <1>9. NoFatalError'
    BY <1>1 DEF MarkWaitReply, IInv, NoFatalError
  <1> QED
    BY <1>4, <1>5, <1>6, <1>7, <1>8, <1>9 DEF IInv

-----------------------------------------------------------------------------
(* A packet meets an entry that waits *)

\* The age of a waiting entry is at most its timeout: it is never expired.
LEMMA WaitingNotExpired ==
    ASSUME IInv, NEW a \in Addr, Waiting(a)
    PROVE  ~IsExpired(a)
  <1>1. timer \in Off..WaitReplyTimeout /\ timer # Off /\ age[a] \in 0..AgeCap
    BY DEF IInv, TypeOK, TimerCoversWaiting
  <1>2. timer + age[a] <= WaitReplyTimeout
    BY DEF IInv, TimerCoversWaiting
  <1>3. age[a] <= WaitReplyTimeout
    BY <1>1, <1>2, ArpAssumption, AgeCapProperties DEF Off
  <1>4. Timeout(a) = WaitReplyTimeout
    BY DEF Timeout, Waiting
  <1> QED
    BY <1>1, <1>3, <1>4, ArpAssumption, AgeCapProperties DEF IsExpired

LEMMA LookupWaitingPreserves ==
    ASSUME IInv, NEW a \in Addr, LookupWaiting(a)
    PROVE  IInv'
  <1>1. UNCHANGED <<state, age, retries, waited, timer, scheduled, net, fatal>>
    <2>1. ~IsExpired(a)
      BY WaitingNotExpired DEF LookupWaiting
    <2>2. IsExpired(a) = FALSE
      BY <2>1 DEF IsExpired
    <2>3. fatal = FALSE
      BY DEF IInv, TypeOK, NoFatalError
    <2> QED
      BY <2>2, <2>3 DEF LookupWaiting
  <1>2. Packet \in Nat /\ pending[a] \in Seq(Nat)
    BY DEF Packet, IInv, TypeOK
  <1>3. \/ pending' = pending
        \/ /\ Len(pending[a]) < PendingQueueSize
           /\ pending' = [pending EXCEPT ![a] = Append(@, Packet)]
    BY <1>2, ArpAssumption DEF LookupWaiting
  <1>4. TypeOK'
    <2>1. fate' \in Seq(Fate) /\ dest' \in Seq(Addr) /\ Len(fate') = Len(dest')
      BY OfferType DEF LookupWaiting, IInv, Fate
    <2>2. pending \in [Addr -> Seq(Nat)] /\ Append(pending[a], Packet) \in Seq(Nat)
      BY <1>2 DEF IInv, TypeOK
    <2>3. pending' \in [Addr -> Seq(Nat)]
      BY <1>3, <2>2
    <2> QED
      BY <1>1, <2>1, <2>3 DEF IInv, TypeOK
  <1>5. PendingOnlyWhileWaiting'
    <2> SUFFICES ASSUME NEW b \in Addr
                 PROVE  IF Waiting(b)
                        THEN Len(pending'[b]) \in 1..AtLeast(1, PendingQueueSize)
                        ELSE pending'[b] = <<>>
      BY <1>1 DEF PendingOnlyWhileWaiting, Waiting
    <2>1. CASE pending'[b] = pending[b]
      BY <2>1 DEF IInv, PendingOnlyWhileWaiting
    <2>2. CASE pending'[b] # pending[b]
      <3>1. b = a /\ Len(pending[a]) < PendingQueueSize
        BY <1>3, <2>2 DEF IInv, TypeOK
      <3>2. pending'[a] = Append(pending[a], Packet)
        BY <1>3, <2>2, <3>1 DEF IInv, TypeOK
      <3>3. Len(pending'[a]) = Len(pending[a]) + 1 /\ Len(pending[a]) \in Nat
        BY <1>2, <3>2
      <3> QED
        BY <3>1, <3>3, ArpAssumption DEF LookupWaiting, AtLeast
    <2> QED
      BY <2>1, <2>2
  <1> QED
    BY <1>1, <1>4, <1>5
    DEF IInv, TimerCoversWaiting, NoFatalError, NothingOnAccount,
        WaitWithinBudget, Waiting

LEMMA LookupPreserves ==
    ASSUME IInv, NEW a \in Addr, Lookup(a)
    PROVE  IInv'
  BY LookupUnresolvedPreserves, LookupResolvedPreserves, LookupDeadPreserves,
     LookupWaitingPreserves
  DEF Lookup

-----------------------------------------------------------------------------
(* An entry stops waiting *)

\* Taking one entry to a state in which it does not wait, with its queue and
\* its accounts cleared, keeps the invariant.
LEMMA EntryLeaves ==
    ASSUME IInv, NEW a \in Addr, NEW s \in EntryState \ {"WAIT_REPLY"},
           state' = [state EXCEPT ![a] = s],
           age' = [age EXCEPT ![a] = 0],
           retries' = [retries EXCEPT ![a] = 0],
           pending' = [pending EXCEPT ![a] = <<>>],
           waited' = [waited EXCEPT ![a] = 0],
           UNCHANGED <<timer, scheduled, net, dest, fatal>>,
           fate' \in Seq(Fate), Len(fate') = Len(fate)
    PROVE  IInv'
  <1>1. TypeOK'
    <2>1. /\ state' \in [Addr -> EntryState]
          /\ age' \in [Addr -> 0..AgeCap]
          /\ retries' \in [Addr -> 0..MaxRetries]
          /\ waited' \in [Addr -> Nat]
      BY AgeCapProperties, ArpAssumption DEF IInv, TypeOK
    <2>2. pending' \in [Addr -> Seq(Nat)]
      BY DEF IInv, TypeOK
    <2> QED
      BY <2>1, <2>2 DEF IInv, TypeOK
  <1>2. ~Waiting(a)'
    BY DEF Waiting, IInv, TypeOK
  <1>3. \A b \in Addr \ {a} :
          /\ state'[b] = state[b] /\ age'[b] = age[b] /\ retries'[b] = retries[b]
          /\ pending'[b] = pending[b] /\ waited'[b] = waited[b]
    BY DEF IInv, TypeOK
  <1>4. retries'[a] = 0 /\ waited'[a] = 0 /\ pending'[a] = <<>>
    BY DEF IInv, TypeOK
  <1>5. TimerCoversWaiting' /\ WaitWithinBudget' /\ NothingOnAccount'
    BY <1>2, <1>3, <1>4
    DEF IInv, TimerCoversWaiting, WaitWithinBudget, NothingOnAccount, Waiting, Budget
  <1>6. PendingOnlyWhileWaiting'
    BY <1>2, <1>3, <1>4 DEF IInv, PendingOnlyWhileWaiting, Waiting
  <1> QED
    BY <1>1, <1>5, <1>6 DEF IInv, NoFatalError

LEMMA ReceiveReplyPreserves ==
    ASSUME IInv, NEW a \in Addr, ReceiveReply(a)
    PROVE  IInv'
  <1>1. fate' \in Seq(Fate) /\ Len(fate') = Len(fate)
    BY SettledType DEF ReceiveReply, IInv, TypeOK, Fate
  <1>2. "ALIVE" \in EntryState \ {"WAIT_REPLY"}
    BY DEF EntryState
  <1> QED
    BY <1>1, <1>2, EntryLeaves DEF ReceiveReply

LEMMA RemovePreserves ==
    ASSUME IInv, NEW a \in Addr, Remove(a)
    PROVE  IInv'
  <1>1. fate' \in Seq(Fate) /\ Len(fate') = Len(fate)
    BY SettledType DEF Remove, IInv, TypeOK, Fate
  <1>2. "NONE" \in EntryState \ {"WAIT_REPLY"}
    BY DEF EntryState
  <1> QED
    BY <1>1, <1>2, EntryLeaves DEF Remove

LEMMA MarkPermanentPreserves ==
    ASSUME IInv, NEW a \in Addr, MarkPermanent(a)
    PROVE  IInv'
  <1>1. ~Waiting(a)
    BY DEF MarkPermanent, Waiting
  <1>2. pending[a] = <<>> /\ waited[a] = 0
    BY <1>1 DEF IInv, PendingOnlyWhileWaiting, NothingOnAccount
  <1>3. pending' = [pending EXCEPT ![a] = <<>>] /\ waited' = [waited EXCEPT ![a] = 0]
    BY <1>2 DEF MarkPermanent, IInv, TypeOK
  <1>4. "PERMANENT" \in EntryState \ {"WAIT_REPLY"}
    BY DEF EntryState
  <1>5. fate' \in Seq(Fate) /\ Len(fate') = Len(fate)
    BY DEF MarkPermanent, packetVars, IInv, TypeOK
  <1> QED
    BY <1>3, <1>4, <1>5, EntryLeaves DEF MarkPermanent, packetVars

LEMMA FlushPreserves ==
    ASSUME IInv, Flush
    PROVE  IInv'
  <1>1. fate' \in Seq(Fate) /\ Len(fate') = Len(fate)
    BY SettledType DEF Flush, IInv, TypeOK, Fate
  <1>2. TypeOK'
    <2>1. /\ state' \in [Addr -> EntryState]
          /\ age' \in [Addr -> 0..AgeCap]
          /\ retries' \in [Addr -> 0..MaxRetries]
          /\ waited' \in [Addr -> Nat]
          /\ timer' \in Off..WaitReplyTimeout
      BY AgeCapProperties, ArpAssumption DEF Flush, EntryState, Off
    <2>2. pending' \in [Addr -> Seq(Nat)]
      BY DEF Flush
    <2> QED
      BY <1>1, <2>1, <2>2 DEF Flush, IInv, TypeOK
  <1> QED
    BY <1>2 DEF Flush, IInv, TimerCoversWaiting, NoFatalError, Waiting,
                PendingOnlyWhileWaiting, NothingOnAccount, WaitWithinBudget

-----------------------------------------------------------------------------
(* Time advances and the timer fires *)

LEMMA TickPreserves ==
    ASSUME IInv, Tick
    PROVE  IInv'
  <1>1. /\ timer \in Int /\ timer >= -1 /\ timer # 0
        /\ WaitReplyTimeout \in Nat /\ timer <= WaitReplyTimeout
    BY ArpAssumption DEF Tick, IInv, TypeOK, Off
  <1>2. timer' = IF timer = Off THEN Off ELSE timer - 1
    BY DEF Tick
  <1>3. UNCHANGED <<state, retries, pending, scheduled, net, packetVars, fatal>>
    BY DEF Tick
  <1>4. \A a \in Addr :
          /\ age[a] \in Nat /\ age'[a] \in Nat
          /\ age'[a] <= AgeCap /\ age'[a] <= age[a] + 1
    BY AgeCapProperties DEF Tick, IInv, TypeOK
  <1>5. \A a \in Addr :
          /\ waited[a] \in Nat /\ waited'[a] \in Nat
          /\ waited'[a] <= waited[a] + 1
          /\ ~Waiting(a) => waited'[a] = waited[a]
    BY DEF Tick, IInv, TypeOK
  <1>6. TypeOK'
    <2>1. timer' \in Off..WaitReplyTimeout
      BY <1>1, <1>2 DEF Off
    <2>2. age' \in [Addr -> 0..AgeCap]
      BY <1>4, AgeCapProperties DEF Tick, IInv, TypeOK
    <2>3. waited' \in [Addr -> Nat]
      BY <1>5 DEF Tick
    <2> QED
      BY <1>3, <2>1, <2>2, <2>3 DEF IInv, TypeOK, packetVars
  <1>7. ASSUME NEW a \in Addr, Waiting(a)'
        PROVE  /\ Waiting(a) /\ timer # Off /\ timer' = timer - 1
               /\ timer' # Off
               /\ timer + age[a] <= WaitReplyTimeout
               /\ waited[a] + timer <= Budget(retries[a])
    <2>1. Waiting(a)
      BY <1>3, <1>7 DEF Waiting
    <2>2. timer # Off /\ timer + age[a] <= WaitReplyTimeout
      BY <2>1 DEF IInv, TimerCoversWaiting
    <2>3. waited[a] + timer <= Budget(retries[a])
      BY <2>1 DEF IInv, WaitWithinBudget
    <2>4. timer' = timer - 1 /\ timer' # Off
      BY <1>1, <1>2, <2>2 DEF Off
    <2> QED
      BY <2>1, <2>2, <2>3, <2>4
  <1>8. TimerCoversWaiting'
    <2> SUFFICES ASSUME NEW a \in Addr, Waiting(a)'
                 PROVE  timer' # Off /\ timer' + age'[a] <= WaitReplyTimeout
      BY DEF TimerCoversWaiting
    <2> QED
      BY <1>1, <1>4, <1>7
  <1>9. WaitWithinBudget'
    <2> SUFFICES ASSUME NEW a \in Addr, Waiting(a)'
                 PROVE  waited'[a] + timer' <= Budget(retries'[a])
      BY DEF WaitWithinBudget, Budget
    <2>1. waited'[a] <= waited[a] + 1 /\ timer' = timer - 1
      BY <1>5, <1>7
    <2>2. waited'[a] + timer' <= waited[a] + timer
      BY <2>1, <1>1, <1>5
    <2>3. retries[a] \in Nat
      BY ArpAssumption DEF IInv, TypeOK
    <2>4. retries'[a] = retries[a] /\ Budget(retries[a]) \in Nat
      BY <1>3, <2>3, BudgetGrows
    <2> QED
      BY <2>2, <2>4, <1>1, <1>5, <1>7
  <1>10. PendingOnlyWhileWaiting' /\ NothingOnAccount' /\ NoFatalError'
    BY <1>3, <1>5
    DEF IInv, PendingOnlyWhileWaiting, NothingOnAccount, NoFatalError, Waiting
  <1> QED
    BY <1>6, <1>8, <1>9, <1>10 DEF IInv

LEMMA TimeoutPreserves ==
    ASSUME IInv, HandleWaitReplyTimeout
    PROVE  IInv'
  <1>1. timer = 0 /\ WaitReplyTimeout \in Nat /\ MaxRetries \in Nat
    BY ArpAssumption DEF HandleWaitReplyTimeout
  <1>2. \A a \in Addr : Waiting(a) <=> a \in Retried \cup GivenUp
    BY <1>1 DEF Retried, GivenUp, IInv, TypeOK
  <1>3. Retried \cap GivenUp = {}
    BY <1>1 DEF Retried, GivenUp, IInv, TypeOK
  <1>4. TypeOK'
    <2>1. fate' \in Seq(Fate) /\ Len(fate') = Len(fate)
      BY SettledType DEF HandleWaitReplyTimeout, IInv, TypeOK, Fate
    <2>2. state' \in [Addr -> EntryState] /\ pending' \in [Addr -> Seq(Nat)]
      BY DEF HandleWaitReplyTimeout, IInv, TypeOK, EntryState
    <2>3. retries' \in [Addr -> 0..MaxRetries]
      BY <1>1 DEF HandleWaitReplyTimeout, Retried, IInv, TypeOK
    <2>4. age' \in [Addr -> 0..AgeCap] /\ waited' \in [Addr -> Nat]
      BY AgeCapProperties DEF HandleWaitReplyTimeout, IInv, TypeOK
    <2>5. timer' \in Off..WaitReplyTimeout
      BY <1>1 DEF HandleWaitReplyTimeout, Off
    <2>6. \A a \in Addr : Request(a) \in Message
      BY DEF Request, Message
    <2>7. net' \in SUBSET Message
      BY <2>6 DEF HandleWaitReplyTimeout, Retried, IInv, TypeOK
    <2> QED
      BY <2>1, <2>2, <2>3, <2>4, <2>5, <2>7
      DEF HandleWaitReplyTimeout, IInv, TypeOK
  <1>5. ASSUME NEW a \in Addr, Waiting(a)'
        PROVE  /\ a \in Retried /\ Waiting(a)
               /\ timer' = WaitReplyTimeout
               /\ age'[a] \in 0..0
               /\ retries'[a] = retries[a] + 1
               /\ waited'[a] = waited[a]
    <2>1. Waiting(a) /\ a \notin GivenUp
      BY <1>5 DEF HandleWaitReplyTimeout, Waiting
    <2>2. a \in Retried
      BY <2>1, <1>2
    <2> QED
      BY <2>1, <2>2 DEF HandleWaitReplyTimeout
  <1>6. TimerCoversWaiting'
    <2> SUFFICES ASSUME NEW a \in Addr, Waiting(a)'
                 PROVE  timer' # Off /\ timer' + age'[a] <= WaitReplyTimeout
      BY DEF TimerCoversWaiting
    <2> QED
      BY <1>1, <1>5 DEF Off
  <1>7. WaitWithinBudget'
    <2> SUFFICES ASSUME NEW a \in Addr, Waiting(a)'
                 PROVE  waited'[a] + timer' <= Budget(retries'[a])
      BY DEF WaitWithinBudget, Budget
    <2>1. retries[a] \in Nat /\ waited[a] \in Nat
      BY <1>1 DEF IInv, TypeOK
    <2>2. waited[a] <= Budget(retries[a])
      BY <1>1, <1>5, <2>1 DEF IInv, WaitWithinBudget
    <2>3. Budget(retries'[a]) = Budget(retries[a]) + WaitReplyTimeout
      BY <1>5, <2>1, BudgetGrows
    <2>4. Budget(retries[a]) \in Nat
      BY <2>1, BudgetGrows
    <2> QED
      BY <1>1, <1>5, <2>1, <2>2, <2>3, <2>4
  <1>8. PendingOnlyWhileWaiting'
    BY <1>2 DEF HandleWaitReplyTimeout, IInv, PendingOnlyWhileWaiting, Waiting
  <1>9. NothingOnAccount'
    BY <1>2, <1>3 DEF HandleWaitReplyTimeout, IInv, NothingOnAccount, Waiting
  <1>10. NoFatalError'
    BY DEF HandleWaitReplyTimeout, IInv, NoFatalError
  <1> QED
    BY <1>4, <1>6, <1>7, <1>8, <1>9, <1>10 DEF IInv

-----------------------------------------------------------------------------
(* The invariant is inductive *)

LEMMA NextPreserves == IInv /\ [Next]_vars => IInv'
  <1> SUFFICES ASSUME IInv, [Next]_vars PROVE IInv'
    OBVIOUS
  <1>1. ASSUME NEW a \in Addr, Lookup(a) PROVE IInv'
    BY <1>1, LookupPreserves
  <1>2. ASSUME NEW a \in Addr, SendArpRequest(a) \/ ReceiveRequest(a) PROVE IInv'
    BY <1>2, NetworkPreserves
  <1>3. ASSUME NEW a \in Addr, ReceiveReply(a) PROVE IInv'
    BY <1>3, ReceiveReplyPreserves
  <1>4. ASSUME NEW a \in Addr, Remove(a) PROVE IInv'
    BY <1>4, RemovePreserves
  <1>5. ASSUME NEW a \in Addr, MarkPermanent(a) PROVE IInv'
    BY <1>5, MarkPermanentPreserves
  <1>6. ASSUME NEW m \in net, Lose(m) PROVE IInv'
    BY <1>6, NetworkPreserves
  <1>7. CASE HandleWaitReplyTimeout
    BY <1>7, TimeoutPreserves
  <1>8. CASE Flush
    BY <1>8, FlushPreserves
  <1>9. CASE Tick
    BY <1>9, TickPreserves
  <1>10. CASE UNCHANGED vars
    <2>1. TypeOK'
      BY <1>10 DEF vars, entryVars, packetVars, IInv, TypeOK
    <2> QED
      BY <1>10, <2>1, EntriesUntouched DEF vars, entryVars
  <1> QED
    BY <1>1, <1>2, <1>3, <1>4, <1>5, <1>6, <1>7, <1>8, <1>9, <1>10 DEF Next

LEMMA Invariance == Spec => []IInv
  <1> QED
    BY InitEstablishes, NextPreserves, PTL DEF Spec

\* The entries, the timer and the packet records keep their types.
THEOREM TypeCorrect == Spec => []TypeOK
  <1>1. IInv => TypeOK
    BY DEF IInv
  <1> QED
    BY <1>1, Invariance, PTL

\* Lookup never reaches its NS_FATAL_ERROR, whatever the timeouts, the number
\* of addresses and the order of packets, replies and timer expiries.
THEOREM LookupNeverFatal == Spec => []NoFatalError
  <1>1. IInv => NoFatalError
    BY DEF IInv
  <1> QED
    BY <1>1, Invariance, PTL

\* The one timer of the cache covers every entry that waits for a reply.
THEOREM TimerCovers == Spec => []TimerCoversWaiting
  <1>1. IInv => TimerCoversWaiting
    BY DEF IInv
  <1> QED
    BY <1>1, Invariance, PTL

\* No packet stays behind in an entry that no longer waits, and queues are
\* bounded by the attribute PendingQueueSize.
THEOREM PacketsOnlyWhileWaiting == Spec => []PendingOnlyWhileWaiting
  <1>1. IInv => PendingOnlyWhileWaiting
    BY DEF IInv
  <1> QED
    BY <1>1, Invariance, PTL

\* An address is resolved or given up within (MaxRetries + 1) timeouts.
THEOREM WaitBounded == Spec => []BoundedWait
  <1>1. IInv => BoundedWait
    <2> SUFFICES ASSUME IInv, NEW a \in Addr
                 PROVE  waited[a] <= Budget(MaxRetries)
      BY DEF BoundedWait, Budget
    <2>1. waited[a] \in Nat /\ retries[a] \in 0..MaxRetries /\ MaxRetries \in Nat
      BY ArpAssumption DEF IInv, TypeOK
    <2>2. Budget(MaxRetries) \in Nat /\ Budget(retries[a]) \in Nat
      BY <2>1, BudgetGrows
    <2>3. CASE Waiting(a)
      <3>1. timer \in Int /\ timer >= 0
        BY <2>3, ArpAssumption DEF IInv, TypeOK, TimerCoversWaiting, Off
      <3>2. waited[a] + timer <= Budget(retries[a])
        BY <2>3 DEF IInv, WaitWithinBudget
      <3>3. Budget(retries[a]) <= Budget(MaxRetries)
        BY <2>1, BudgetGrows
      <3> QED
        BY <2>1, <2>2, <3>1, <3>2, <3>3
    <2>4. CASE ~Waiting(a)
      BY <2>1, <2>2, <2>4 DEF IInv, NothingOnAccount
    <2> QED
      BY <2>3, <2>4
  <1> QED
    BY <1>1, Invariance, PTL

-----------------------------------------------------------------------------
(* The cache keeps the promise of an address resolution cache *)

\* The queue of an address holds exactly the packets for it that are pending.
QueueIsExact ==
    \A a \in Addr, p \in DOMAIN fate :
        (fate[p] = "pending" /\ dest[p] = a)
            <=> \E i \in 1..Len(pending[a]) : pending[a][i] = p

\* Only packets that were offered are queued.
QueuedAreOffered ==
    \A a \in Addr : \A i \in 1..Len(pending[a]) : pending[a][i] \in DOMAIN fate

PInv == IInv /\ QueueIsExact /\ QueuedAreOffered

FateBar == [p \in DOMAIN fate |-> Outcome(fate[p])]

LEMMA FateBarSeq ==
    ASSUME TypeOK
    PROVE  /\ FateBar \in Seq({"queued", "sent", "lost"})
           /\ Len(FateBar) = Len(fate)
           /\ DOMAIN FateBar = DOMAIN fate
           /\ DOMAIN fate = 1..Len(fate) /\ Len(fate) \in Nat
  <1>1. DOMAIN fate = 1..Len(fate) /\ Len(fate) \in Nat
    BY DEF TypeOK
  <1>2. FateBar \in [1..Len(fate) -> {"queued", "sent", "lost"}]
    BY <1>1 DEF FateBar, Outcome
  <1> DEFINE bar == FateBar
             n == Len(fate)
  <1>3. bar \in [1..n -> {"queued", "sent", "lost"}] /\ n \in Nat
    BY <1>1, <1>2
  <1> HIDE DEF bar, n
  <1>4. bar \in Seq({"queued", "sent", "lost"}) /\ Len(bar) = n /\ DOMAIN bar = 1..n
    BY <1>3
  <1> QED
    BY <1>1, <1>4 DEF bar, n

\* A packet that is offered appends its outcome.
LEMMA OfferMaps ==
    ASSUME TypeOK, NEW a \in Addr, NEW f \in Fate, Offer(a, f)
    PROVE  FateBar' = Append(FateBar, Outcome(f))
  <1>1. fate' \in Seq(Fate) /\ Len(fate') = Len(fate) + 1
        /\ fate'[Len(fate) + 1] = f
        /\ \A p \in 1..Len(fate) : fate'[p] = fate[p]
    BY DEF TypeOK, Offer
  <1>2. DOMAIN fate' = 1..(Len(fate) + 1)
    BY <1>1
  <1> QED
    BY <1>1, <1>2, FateBarSeq DEF FateBar

\* Settling the packets of some addresses settles what their queues hold.
LEMMA SettledMaps ==
    ASSUME PInv, NEW A \in SUBSET Addr, NEW f \in Fate \ {"pending"},
           fate' = Settled(A, f)
    PROVE  FateBar' = [p \in DOMAIN FateBar |->
                          IF p \in Resolution!Queued(A) THEN Outcome(f) ELSE FateBar[p]]
  <1>1. TypeOK /\ DOMAIN FateBar = DOMAIN fate
    BY DEF PInv, IInv, FateBar
  <1>2. DOMAIN fate' = DOMAIN fate
    BY DEF Settled
  <1>3. \A p \in DOMAIN fate : dest[p] \in Addr
    BY <1>1 DEF TypeOK
  <1>4. \A p \in DOMAIN fate :
            p \in Resolution!Queued(A) <=> fate[p] = "pending" /\ dest[p] \in A
    <2> TAKE p \in DOMAIN fate
    <2>1. p \in Resolution!Queued(A)
            <=> \E a \in A : \E i \in 1..Len(pending[a]) : pending[a][i] = p
      BY DEF Resolution!Queued
    <2> QED
      BY <2>1, <1>3 DEF PInv, QueueIsExact
  <1>5. \A p \in DOMAIN fate :
            fate'[p] = IF p \in Resolution!Queued(A) THEN f ELSE fate[p]
    BY <1>4 DEF Settled
  <1> QED
    BY <1>1, <1>2, <1>5 DEF FateBar

\* ... and keeps the other queues exact, when those of A are emptied.
LEMMA SettledExact ==
    ASSUME PInv, NEW A \in SUBSET Addr, NEW f \in Fate \ {"pending"},
           fate' = Settled(A, f), dest' = dest,
           pending' = [a \in Addr |-> IF a \in A THEN <<>> ELSE pending[a]]
    PROVE  QueueIsExact' /\ QueuedAreOffered'
  <1>1. DOMAIN fate' = DOMAIN fate
    BY DEF Settled
  <1>2. QueuedAreOffered'
    BY <1>1 DEF PInv, QueuedAreOffered
  <1>3. ASSUME NEW a \in Addr, NEW p \in DOMAIN fate
        PROVE  (fate'[p] = "pending" /\ dest'[p] = a)
                  <=> \E i \in 1..Len(pending'[a]) : pending'[a][i] = p
    <2>1. fate'[p] = IF fate[p] = "pending" /\ dest[p] \in A THEN f ELSE fate[p]
      BY DEF Settled
    <2>2. CASE a \in A
      <3>1. pending'[a] = <<>>
        BY <2>2
      <3> QED
        BY <2>1, <2>2, <3>1
    <2>3. CASE a \notin A
      BY <2>1, <2>3 DEF PInv, QueueIsExact
    <2> QED
      BY <2>2, <2>3
  <1> QED
    BY <1>1, <1>2, <1>3 DEF QueueIsExact

\* A packet offered to an address joins its queue, or no queue.
LEMMA OfferExact ==
    ASSUME PInv, NEW a \in Addr, NEW f \in Fate, Offer(a, f),
           IF f = "pending"
             THEN pending' = [pending EXCEPT ![a] = Append(@, Packet)]
             ELSE UNCHANGED pending
    PROVE  QueueIsExact' /\ QueuedAreOffered'
  <1> DEFINE n == Len(fate)
  <1>1. /\ n \in Nat /\ DOMAIN fate = 1..n /\ DOMAIN fate' = 1..(n + 1)
        /\ fate'[n + 1] = f /\ dest'[n + 1] = a
        /\ \A p \in 1..n : fate'[p] = fate[p] /\ dest'[p] = dest[p]
    BY DEF PInv, IInv, TypeOK, Offer
  <1>2. pending \in [Addr -> Seq(Nat)]
    BY DEF PInv, IInv, TypeOK
  <1>3. \A b \in Addr : \A i \in 1..Len(pending[b]) : pending[b][i] \in 1..n
    BY <1>1 DEF PInv, QueuedAreOffered
  <1>4. CASE f # "pending"
    <2>1. pending' = pending
      BY <1>4
    <2>2. QueuedAreOffered'
      BY <1>1, <1>3, <2>1 DEF QueuedAreOffered
    <2>3. ASSUME NEW b \in Addr, NEW p \in 1..(n + 1)
          PROVE  (fate'[p] = "pending" /\ dest'[p] = b)
                    <=> \E i \in 1..Len(pending[b]) : pending[b][i] = p
      <3>1. CASE p \in 1..n
        BY <1>1, <3>1 DEF PInv, QueueIsExact
      <3>2. CASE p = n + 1
        <4>1. \A i \in 1..Len(pending[b]) : pending[b][i] # p
          BY <1>1, <1>3, <3>2
        <4> QED
          BY <1>1, <1>4, <3>2, <4>1
      <3> QED
        BY <1>1, <3>1, <3>2
    <2> QED
      BY <1>1, <2>1, <2>2, <2>3 DEF QueueIsExact
  <1>5. CASE f = "pending"
    <2>1. pending' = [pending EXCEPT ![a] = Append(@, n + 1)]
      BY <1>5 DEF Packet
    <2>2. /\ Len(pending'[a]) = Len(pending[a]) + 1 /\ Len(pending[a]) \in Nat
          /\ pending'[a][Len(pending[a]) + 1] = n + 1
          /\ \A i \in 1..Len(pending[a]) : pending'[a][i] = pending[a][i]
      <3>1. pending'[a] = Append(pending[a], n + 1) /\ pending[a] \in Seq(Nat)
        BY <1>2, <2>1
      <3> QED
        BY <1>1, <3>1
    <2>3. \A b \in Addr \ {a} : pending'[b] = pending[b]
      BY <1>2, <2>1
    <2>4. QueuedAreOffered'
      <3>1. \A i \in 1..Len(pending'[a]) : pending'[a][i] \in 1..(n + 1)
        <4> TAKE i \in 1..Len(pending'[a])
        <4>1. CASE i \in 1..Len(pending[a])
          <5>1. pending'[a][i] = pending[a][i] /\ pending[a][i] \in 1..n
            BY <1>3, <2>2, <4>1
          <5> HIDE DEF n
          <5> QED
            BY <1>1, <5>1
        <4>2. CASE i = Len(pending[a]) + 1
          <5>1. pending'[a][i] = n + 1
            BY <2>2, <4>2
          <5> HIDE DEF n
          <5> QED
            BY <1>1, <5>1
        <4> QED
          BY <2>2, <4>1, <4>2
      <3>2. \A b \in Addr \ {a} : \A i \in 1..Len(pending'[b]) : pending'[b][i] \in 1..(n + 1)
        BY <1>1, <1>3, <2>3
      <3> QED
        BY <1>1, <3>1, <3>2 DEF QueuedAreOffered
    <2>5. ASSUME NEW b \in Addr, NEW p \in 1..(n + 1)
          PROVE  (fate'[p] = "pending" /\ dest'[p] = b)
                    <=> \E i \in 1..Len(pending'[b]) : pending'[b][i] = p
      <3>1. CASE p \in 1..n /\ b = a
        <4>1. (fate'[p] = "pending" /\ dest'[p] = b)
                <=> \E i \in 1..Len(pending[a]) : pending[a][i] = p
          BY <1>1, <3>1 DEF PInv, QueueIsExact
        <4>2. ASSUME NEW i \in 1..Len(pending'[a]), i \notin 1..Len(pending[a])
              PROVE  pending'[a][i] # p
          <5>1. i = Len(pending[a]) + 1
            BY <2>2, <4>2
          <5>2. pending'[a][i] = n + 1
            BY <2>2, <5>1
          <5> HIDE DEF n
          <5> QED
            BY <1>1, <3>1, <5>2
        <4>3. \A i \in 1..Len(pending[a]) :
                  i \in 1..Len(pending'[a]) /\ pending'[a][i] = pending[a][i]
          BY <2>2
        <4> QED
          BY <3>1, <4>1, <4>2, <4>3
      <3>2. CASE p \in 1..n /\ b # a
        BY <1>1, <2>3, <3>2 DEF PInv, QueueIsExact
      <3>3. CASE p = n + 1 /\ b = a
        BY <1>1, <1>5, <2>2, <3>3
      <3>4. CASE p = n + 1 /\ b # a
        <4>1. \A i \in 1..Len(pending'[b]) : pending'[b][i] # p
          BY <1>1, <1>3, <2>3, <3>4
        <4> QED
          BY <1>1, <3>4, <4>1
      <3> QED
        BY <1>1, <3>1, <3>2, <3>3, <3>4
    <2> QED
      BY <1>1, <2>4, <2>5 DEF QueueIsExact
  <1> QED
    BY <1>4, <1>5

\* The packets wait for the addresses that A names and are settled with f.
LEMMA SettleStep ==
    ASSUME PInv, NEW A \in SUBSET Addr, NEW f \in Fate \ {"pending"},
           fate' = Settled(A, f), dest' = dest,
           pending' = [a \in Addr |-> IF a \in A THEN <<>> ELSE pending[a]]
    PROVE  QueueIsExact' /\ QueuedAreOffered' /\ Resolution!Settle(A, Outcome(f))
  BY SettledMaps, SettledExact DEF Resolution!Settle, FateBar

\* A step of the cache that touches no packet is a stuttering step.
LEMMA StutterStep ==
    ASSUME PInv, UNCHANGED <<pending, fate, dest>>
    PROVE  QueueIsExact' /\ QueuedAreOffered' /\ UNCHANGED Resolution!vars
  BY DEF PInv, QueueIsExact, QueuedAreOffered, Resolution!vars

LEMMA LookupStep ==
    ASSUME PInv, NEW a \in Addr, Lookup(a)
    PROVE  QueueIsExact' /\ QueuedAreOffered' /\ Resolution!Next
  <1>1. Packet = Resolution!Packet
    BY FateBarSeq DEF PInv, IInv, Packet, Resolution!Packet, FateBar
  <1>2. pending \in [Addr -> Seq(Nat)] /\ Len(pending[a]) \in Nat
    BY DEF PInv, IInv, TypeOK
  <1>3. CASE LookupUnresolved(a)
    <2>1. Offer(a, "pending") /\ pending' = [pending EXCEPT ![a] = Append(@, Packet)]
      BY <1>3 DEF LookupUnresolved, MarkWaitReply
    <2>2. pending[a] = <<>>
      BY <1>3 DEF LookupUnresolved, Waiting, PInv, IInv, PendingOnlyWhileWaiting
    <2>3. FateBar' = Append(FateBar, "queued")
      BY <2>1, OfferMaps DEF PInv, IInv, Fate, Outcome
    <2>4. Len(pending[a]) < AtLeast(1, PendingQueueSize)
      BY <2>2, ArpAssumption DEF AtLeast
    <2>5. Resolution!Enqueue(a)
      BY <1>1, <2>1, <2>3, <2>4 DEF Resolution!Enqueue, FateBar
    <2> QED
      BY <2>1, <2>5, OfferExact DEF Resolution!Next, Fate
  <1>4. CASE LookupResolved(a)
    <2>1. Offer(a, "sent") /\ UNCHANGED pending
      BY <1>4 DEF LookupResolved, entryVars
    <2>2. pending[a] = <<>>
      BY <1>4 DEF LookupResolved, Waiting, PInv, IInv, PendingOnlyWhileWaiting
    <2>3. FateBar' = Append(FateBar, "sent")
      BY <2>1, OfferMaps DEF PInv, IInv, Fate, Outcome
    <2>4. Resolution!Send(a)
      BY <2>1, <2>2, <2>3 DEF Resolution!Send, FateBar
    <2> QED
      BY <2>1, <2>4, OfferExact DEF Resolution!Next, Fate
  <1>5. ASSUME Offer(a, "dropped"), UNCHANGED pending
        PROVE  QueueIsExact' /\ QueuedAreOffered' /\ Resolution!Next
    <2>1. FateBar' = Append(FateBar, "lost")
      BY <1>5, OfferMaps DEF PInv, IInv, Fate, Outcome
    <2>2. Resolution!Refuse
      BY <1>5, <2>1 DEF Resolution!Refuse, FateBar
    <2> QED
      BY <1>5, <2>2, OfferExact DEF Resolution!Next, Fate
  <1>6. CASE LookupDead(a)
    BY <1>5, <1>6 DEF LookupDead, entryVars
  <1>7. CASE LookupWaiting(a)
    <2>1. CASE Offer(a, "dropped") /\ UNCHANGED pending
      BY <1>5, <2>1
    <2>2. CASE /\ Len(pending[a]) < PendingQueueSize
               /\ Offer(a, "pending")
               /\ pending' = [pending EXCEPT ![a] = Append(@, Packet)]
      <3>1. FateBar' = Append(FateBar, "queued")
        BY <2>2, OfferMaps DEF PInv, IInv, Fate, Outcome
      <3>2. Len(pending[a]) < AtLeast(1, PendingQueueSize)
        BY <1>2, <2>2, ArpAssumption DEF AtLeast
      <3>3. Resolution!Enqueue(a)
        BY <1>1, <2>2, <3>1, <3>2 DEF Resolution!Enqueue, FateBar
      <3> QED
        BY <2>2, <3>3, OfferExact DEF Resolution!Next, Fate
    <2> QED
      BY <1>2, <1>7, <2>1, <2>2, ArpAssumption DEF LookupWaiting
  <1> QED
    BY <1>3, <1>4, <1>6, <1>7 DEF Lookup

\* Every step of the cache is one step of the abstract cache, or none of its.
LEMMA NextImplements ==
    PInv /\ [Next]_vars
        => QueueIsExact' /\ QueuedAreOffered' /\ [Resolution!Next]_(Resolution!vars)
  <1> SUFFICES ASSUME PInv, [Next]_vars
               PROVE  /\ QueueIsExact' /\ QueuedAreOffered'
                      /\ Resolution!Next \/ UNCHANGED Resolution!vars
    OBVIOUS
  <1>0. pending \in [Addr -> Seq(Nat)]
    BY DEF PInv, IInv, TypeOK
  <1>1. ASSUME NEW a \in Addr, Lookup(a)
        PROVE  QueueIsExact' /\ QueuedAreOffered' /\ Resolution!Next
    BY <1>1, LookupStep
  <1>2. ASSUME UNCHANGED <<pending, fate, dest>>
        PROVE  QueueIsExact' /\ QueuedAreOffered' /\ UNCHANGED Resolution!vars
    BY <1>2, StutterStep
  <1>3. ASSUME NEW a \in Addr, SendArpRequest(a) \/ ReceiveRequest(a) \/ MarkPermanent(a)
        PROVE  UNCHANGED <<pending, fate, dest>>
    BY <1>3 DEF SendArpRequest, ReceiveRequest, MarkPermanent, entryVars, packetVars
  <1>4. ASSUME NEW m \in net, Lose(m) PROVE UNCHANGED <<pending, fate, dest>>
    BY <1>4 DEF Lose, entryVars, packetVars
  <1>5. Tick => UNCHANGED <<pending, fate, dest>>
    BY DEF Tick, packetVars
  <1>6. ASSUME NEW a \in Addr, ReceiveReply(a)
        PROVE  QueueIsExact' /\ QueuedAreOffered' /\ Resolution!Next
    <2>1. pending' = [b \in Addr |-> IF b \in {a} THEN <<>> ELSE pending[b]]
      BY <1>0, <1>6 DEF ReceiveReply
    <2>2. QueueIsExact' /\ QueuedAreOffered' /\ Resolution!Settle({a}, Outcome("sent"))
      BY <1>6, <2>1, SettleStep DEF ReceiveReply, Fate
    <2>3. Resolution!Release(a)
      BY <2>2 DEF Resolution!Release, Outcome
    <2> QED
      BY <2>2, <2>3 DEF Resolution!Next
  <1>7. ASSUME NEW A \in SUBSET Addr, Resolution!Settle(A, "lost")
        PROVE  Resolution!Next
    BY <1>7 DEF Resolution!Next, Resolution!GiveUp
  <1>8. Outcome("dropped") = "lost" /\ Outcome("flushed") = "lost"
    BY DEF Outcome
  <1>9. ASSUME NEW a \in Addr, Remove(a)
        PROVE  QueueIsExact' /\ QueuedAreOffered' /\ Resolution!Next
    <2>1. pending' = [b \in Addr |-> IF b \in {a} THEN <<>> ELSE pending[b]]
      BY <1>0, <1>9 DEF Remove
    <2>2. QueueIsExact' /\ QueuedAreOffered' /\ Resolution!Settle({a}, Outcome("flushed"))
      BY <1>9, <2>1, SettleStep DEF Remove, Fate
    <2> QED
      BY <1>7, <1>8, <2>2
  <1>10. ASSUME Flush PROVE QueueIsExact' /\ QueuedAreOffered' /\ Resolution!Next
    <2>1. pending' = [b \in Addr |-> IF b \in Addr THEN <<>> ELSE pending[b]]
      BY <1>10 DEF Flush
    <2>2. QueueIsExact' /\ QueuedAreOffered' /\ Resolution!Settle(Addr, Outcome("flushed"))
      BY <1>10, <2>1, SettleStep DEF Flush, Fate
    <2> QED
      BY <1>7, <1>8, <2>2
  <1>11. ASSUME HandleWaitReplyTimeout
         PROVE  QueueIsExact' /\ QueuedAreOffered' /\ Resolution!Next
    <2>1. GivenUp \in SUBSET Addr
      BY DEF GivenUp
    <2>2. QueueIsExact' /\ QueuedAreOffered' /\ Resolution!Settle(GivenUp, Outcome("dropped"))
      BY <1>11, <2>1, SettleStep DEF HandleWaitReplyTimeout, Fate
    <2> QED
      BY <1>7, <1>8, <2>1, <2>2
  <1>12. UNCHANGED vars => UNCHANGED <<pending, fate, dest>>
    BY DEF vars, entryVars, packetVars
  <1> QED
    BY <1>1, <1>2, <1>3, <1>4, <1>5, <1>6, <1>9, <1>10, <1>11, <1>12 DEF Next

LEMMA InitImplements == Init => QueueIsExact /\ QueuedAreOffered /\ Resolution!Init
  BY DEF Init, QueueIsExact, QueuedAreOffered, Resolution!Init

\* The cache implements AddressResolution, whatever the timeouts, the size of the
\* queue, the number of addresses and the behaviour of the network: nothing is
\* sent twice, in another order, after it was lost, or past a packet that waits.
THEOREM KeepsItsPromise == Spec => KeepsPromise
  <1>1. Init => PInv /\ Resolution!Init
    BY InitEstablishes, InitImplements DEF PInv
  <1>2. PInv /\ [Next]_vars => PInv' /\ [Resolution!Next]_(Resolution!vars)
    BY NextPreserves, NextImplements DEF PInv
  <1> QED
    BY <1>1, <1>2, PTL DEF Spec, KeepsPromise, Resolution!Spec
=============================================================================
