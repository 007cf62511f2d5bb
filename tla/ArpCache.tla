------------------------------ MODULE ArpCache ------------------------------
(***************************************************************************)
(* One node's ARP cache (arp-cache.cc) driven by ArpL3Protocol             *)
(* (arp-l3-protocol.cc): the IPv4 interface offers packets to Lookup, the  *)
(* cache asks the network who owns an address, and packets wait in the     *)
(* entry until a reply arrives, the retries run out or the cache is        *)
(* flushed.                                                                *)
(*                                                                         *)
(* Time is relative: age[a] is Simulator::Now () - m_lastSeen and timer    *)
(* the delay left of m_waitReplyTimer.  Ages are capped one above the      *)
(* largest timeout, where IsExpired can no longer tell them apart, and the *)
(* history of a wait one above the bound claimed for it, so behaviours are *)
(* infinite and time never has to stop.                                    *)
(***************************************************************************)
EXTENDS Integers, Sequences

CONSTANTS
    Addr,               \* IPv4 destinations
    Hosts,              \* the destinations that exist and answer requests
    MaxRetries,         \* attribute MaxRetries
    PendingQueueSize,   \* attribute PendingQueueSize
    WaitReplyTimeout,   \* attribute WaitReplyTimeout, in ticks
    AliveTimeout,       \* attribute AliveTimeout, in ticks
    DeadTimeout,        \* attribute DeadTimeout, in ticks
    MaxPackets          \* bound: how many packets the interface offers

ASSUME ArpAssumption ==
    /\ Hosts \subseteq Addr
    /\ MaxRetries \in Nat
    /\ PendingQueueSize \in Nat
    /\ WaitReplyTimeout \in Nat \ {0}
    /\ AliveTimeout \in Nat
    /\ DeadTimeout \in Nat
    /\ MaxPackets \in Nat

VARIABLES
    state,      \* m_state of the entry of each address, "NONE" without entry
    age,        \* Now - m_lastSeen of the entry
    retries,    \* m_retries of the entry
    pending,    \* m_pending of the entry: the packets, by number
    timer,      \* delay left of m_waitReplyTimer, Off when it is not running
    scheduled,  \* addresses with a SendArpRequest scheduled with jitter
    net,        \* ARP requests and replies in flight
    fate,       \* what became of each packet offered so far
    dest,       \* the destination of each packet offered so far
    waited,     \* history: ticks since the entry entered WAIT_REPLY
    fatal       \* history: Lookup ran into NS_FATAL_ERROR

entryVars == <<state, age, retries, pending, waited>>
packetVars == <<fate, dest>>
vars == <<entryVars, timer, scheduled, net, packetVars, fatal>>

Off == -1
AtLeast(x, y) == IF x >= y THEN x ELSE y
AgeCap == AtLeast(WaitReplyTimeout, AtLeast(AliveTimeout, DeadTimeout)) + 1
WaitCap == (MaxRetries + 1) * WaitReplyTimeout + 1

EntryState == {"NONE", "ALIVE", "WAIT_REPLY", "DEAD", "PERMANENT"}
Fate == {"pending", "sent", "dropped", "flushed"}
Message == [type : {"request", "reply"}, ip : Addr]
Request(a) == [type |-> "request", ip |-> a]
Reply(a) == [type |-> "reply", ip |-> a]

Waiting(a) == state[a] = "WAIT_REPLY"

Timeout(a) ==
    CASE state[a] = "WAIT_REPLY" -> WaitReplyTimeout
      [] state[a] = "DEAD"       -> DeadTimeout
      [] OTHER                   -> AliveTimeout

IsExpired(a) == state[a] # "PERMANENT" /\ age[a] > Timeout(a)

Init ==
    /\ state = [a \in Addr |-> "NONE"]
    /\ age = [a \in Addr |-> 0]
    /\ retries = [a \in Addr |-> 0]
    /\ pending = [a \in Addr |-> <<>>]
    /\ timer = Off
    /\ scheduled = {}
    /\ net = {}
    /\ fate = <<>>
    /\ dest = <<>>
    /\ waited = [a \in Addr |-> 0]
    /\ fatal = FALSE

-----------------------------------------------------------------------------
(* Lookup: the interface offers a packet for destination a. *)

Packet == Len(fate) + 1

Offer(a, f) ==
    /\ fate' = Append(fate, f)
    /\ dest' = Append(dest, a)

\* Settle the packets that wait for the addresses of A: each gets fate f.
Settled(A, f) ==
    [p \in DOMAIN fate |->
        IF fate[p] = "pending" /\ dest[p] \in A THEN f ELSE fate[p]]

\* Mutant: the timer is restarted although it runs for another entry.
StartWaitReplyTimerAnyway == timer' = WaitReplyTimeout

StartWaitReplyTimer ==
    timer' = IF timer = Off THEN WaitReplyTimeout ELSE timer

\* Entry::MarkWaitReply, and the request that Lookup schedules with it.  A
\* new entry starts ALIVE with no retries and is marked in the same call.
MarkWaitReply(a) ==
    /\ state' = [state EXCEPT ![a] = "WAIT_REPLY"]
    /\ pending' = [pending EXCEPT ![a] = Append(@, Packet)]
    /\ age' = [age EXCEPT ![a] = 0]
    /\ waited' = [waited EXCEPT ![a] = 0]
    /\ StartWaitReplyTimer
    /\ scheduled' = scheduled \cup {a}
    /\ Offer(a, "pending")
    /\ UNCHANGED <<retries, net, fatal>>

LookupUnresolved(a) ==
    /\ \/ state[a] = "NONE"
       \/ state[a] \in {"ALIVE", "DEAD"} /\ IsExpired(a)
    /\ MarkWaitReply(a)

LookupResolved(a) ==
    /\ state[a] \in {"ALIVE", "PERMANENT"}
    /\ ~IsExpired(a)
    /\ Offer(a, "sent")
    /\ UNCHANGED <<entryVars, timer, scheduled, net, fatal>>

LookupDead(a) ==
    /\ state[a] = "DEAD"
    /\ ~IsExpired(a)
    /\ Offer(a, "dropped")
    /\ UNCHANGED <<entryVars, timer, scheduled, net, fatal>>

\* UpdateWaitReply: the packet joins the queue, or is dropped when it is full.
\* An expired waiting entry is the "possibly unreachable code" of Lookup, an
\* NS_FATAL_ERROR that stops the program.
LookupWaiting(a) ==
    /\ Waiting(a)
    /\ fatal' = IsExpired(a)
    /\ IF IsExpired(a) \/ Len(pending[a]) >= PendingQueueSize
         THEN Offer(a, "dropped") /\ UNCHANGED pending
         ELSE /\ Offer(a, "pending")
              /\ pending' = [pending EXCEPT ![a] = Append(@, Packet)]
    /\ UNCHANGED <<state, age, retries, waited, timer, scheduled, net>>

Lookup(a) ==
    /\ Len(fate) < MaxPackets
    /\ ~fatal
    /\ \/ LookupUnresolved(a)
       \/ LookupResolved(a)
       \/ LookupDead(a)
       \/ LookupWaiting(a)

-----------------------------------------------------------------------------
(* The events of the simulator and of the network. *)

\* The jittered SendArpRequest fires and broadcasts the request.
SendArpRequest(a) ==
    /\ a \in scheduled
    /\ scheduled' = scheduled \ {a}
    /\ net' = net \cup {Request(a)}
    /\ UNCHANGED <<entryVars, timer, packetVars, fatal>>

\* Receive, at the host that owns the address: it replies and leaves its own
\* cache alone.  The network keeps a copy: requests may be duplicated.
ReceiveRequest(a) ==
    /\ Request(a) \in net
    /\ a \in Hosts
    /\ net' = net \cup {Reply(a)}
    /\ UNCHANGED <<entryVars, timer, scheduled, packetVars, fatal>>

\* Mutant: only the first waiting packet is sent ("if" for "while").
ReceiveReplySendsOne(a) ==
    /\ Reply(a) \in net
    /\ Waiting(a)
    /\ state' = [state EXCEPT ![a] = "ALIVE"]
    /\ pending' = [pending EXCEPT ![a] = Tail(@)]
    /\ retries' = [retries EXCEPT ![a] = 0]
    /\ age' = [age EXCEPT ![a] = 0]
    /\ waited' = [waited EXCEPT ![a] = 0]
    /\ fate' = [fate EXCEPT ![Head(pending[a])] = "sent"]
    /\ UNCHANGED <<timer, scheduled, net, dest, fatal>>

\* Receive, at this node: a waiting entry comes alive and its queue is sent.
\* Other replies are dropped, which changes nothing here.
ReceiveReply(a) ==
    /\ Reply(a) \in net
    /\ Waiting(a)
    /\ state' = [state EXCEPT ![a] = "ALIVE"]
    /\ retries' = [retries EXCEPT ![a] = 0]
    /\ age' = [age EXCEPT ![a] = 0]
    /\ pending' = [pending EXCEPT ![a] = <<>>]
    /\ waited' = [waited EXCEPT ![a] = 0]
    /\ fate' = Settled({a}, "sent")
    /\ UNCHANGED <<timer, scheduled, net, dest, fatal>>

Lose(m) ==
    /\ m \in net
    /\ net' = net \ {m}
    /\ UNCHANGED <<entryVars, timer, scheduled, packetVars, fatal>>

\* Mutant: one retry too many.
RetriedOffByOne == {a \in Addr : Waiting(a) /\ retries[a] <= MaxRetries}
Retried == {a \in Addr : Waiting(a) /\ retries[a] < MaxRetries}
GivenUp == {a \in Addr : Waiting(a) /\ retries[a] >= MaxRetries}

HandleWaitReplyTimeout ==
    /\ timer = 0
    /\ state' = [a \in Addr |-> IF a \in GivenUp THEN "DEAD" ELSE state[a]]
    /\ retries' = [a \in Addr |->
                     IF a \in Retried THEN retries[a] + 1
                     ELSE IF a \in GivenUp THEN 0 ELSE retries[a]]
    /\ age' = [a \in Addr |-> IF Waiting(a) THEN 0 ELSE age[a]]
    /\ pending' = [a \in Addr |-> IF a \in GivenUp THEN <<>> ELSE pending[a]]
    /\ waited' = [a \in Addr |-> IF a \in GivenUp THEN 0 ELSE waited[a]]
    /\ fate' = Settled(GivenUp, "dropped")
    /\ net' = net \cup {Request(a) : a \in Retried}
    /\ timer' = IF Retried # {} THEN WaitReplyTimeout ELSE Off
    /\ UNCHANGED <<scheduled, dest, fatal>>

\* The link of the device changes: every entry is deleted with its queue.
Flush ==
    /\ state' = [a \in Addr |-> "NONE"]
    /\ age' = [a \in Addr |-> 0]
    /\ retries' = [a \in Addr |-> 0]
    /\ pending' = [a \in Addr |-> <<>>]
    /\ waited' = [a \in Addr |-> 0]
    /\ fate' = Settled(Addr, "flushed")
    /\ timer' = Off
    /\ UNCHANGED <<scheduled, net, dest, fatal>>

\* Mutant: Remove stops the timer that other entries still rely on.
RemoveStopsTimer(a) ==
    /\ state[a] # "NONE"
    /\ state' = [state EXCEPT ![a] = "NONE"]
    /\ age' = [age EXCEPT ![a] = 0]
    /\ retries' = [retries EXCEPT ![a] = 0]
    /\ pending' = [pending EXCEPT ![a] = <<>>]
    /\ waited' = [waited EXCEPT ![a] = 0]
    /\ fate' = Settled({a}, "flushed")
    /\ timer' = Off
    /\ UNCHANGED <<scheduled, net, dest, fatal>>

\* Remove deletes one entry; the timer of the cache keeps running.
Remove(a) ==
    /\ state[a] # "NONE"
    /\ state' = [state EXCEPT ![a] = "NONE"]
    /\ age' = [age EXCEPT ![a] = 0]
    /\ retries' = [retries EXCEPT ![a] = 0]
    /\ pending' = [pending EXCEPT ![a] = <<>>]
    /\ waited' = [waited EXCEPT ![a] = 0]
    /\ fate' = Settled({a}, "flushed")
    /\ UNCHANGED <<timer, scheduled, net, dest, fatal>>

\* A script sets a static entry: Add (when there is none), SetMacAddress and
\* MarkPermanent.  Nobody in the repository does it to a waiting entry.
MarkPermanent(a) ==
    /\ state[a] \in {"NONE", "ALIVE", "DEAD"}
    /\ state' = [state EXCEPT ![a] = "PERMANENT"]
    /\ age' = [age EXCEPT ![a] = 0]
    /\ retries' = [retries EXCEPT ![a] = 0]
    /\ UNCHANGED <<pending, waited, timer, scheduled, net, packetVars, fatal>>

\* Simulated time advances by one tick; due events run first.
Tick ==
    /\ timer # 0
    /\ timer' = IF timer = Off THEN Off ELSE timer - 1
    /\ age' = [a \in Addr |->
                 IF state[a] # "NONE" /\ age[a] < AgeCap THEN age[a] + 1
                                                         ELSE age[a]]
    /\ waited' = [a \in Addr |->
                    IF Waiting(a) /\ waited[a] < WaitCap THEN waited[a] + 1
                                                         ELSE waited[a]]
    /\ UNCHANGED <<state, retries, pending, scheduled, net, packetVars, fatal>>

Next ==
    \/ \E a \in Addr :
          \/ Lookup(a)
          \/ SendArpRequest(a)
          \/ ReceiveRequest(a)
          \/ ReceiveReply(a)
          \/ Remove(a)
          \/ MarkPermanent(a)
    \/ \E m \in net : Lose(m)
    \/ HandleWaitReplyTimeout
    \/ Flush
    \/ Tick

\* The simulator keeps advancing and runs every event it has scheduled.
Fairness ==
    /\ WF_vars(Tick)
    /\ WF_vars(HandleWaitReplyTimeout)
    /\ \A a \in Addr : WF_vars(SendArpRequest(a))

Spec == Init /\ [][Next]_vars
FairSpec == Spec /\ Fairness

-----------------------------------------------------------------------------
(* What is promised to the interface. *)

Outcome(f) ==
    CASE f = "pending" -> "queued"
      [] f = "sent"    -> "sent"
      [] OTHER         -> "lost"

Resolution == INSTANCE AddressResolution WITH
    Limit <- AtLeast(1, PendingQueueSize),
    DropOldest <- FALSE,
    Overtake <- FALSE,
    fate <- [p \in DOMAIN fate |-> Outcome(fate[p])],
    queue <- pending

-----------------------------------------------------------------------------
(* Properties *)

TypeOK ==
    /\ state \in [Addr -> EntryState]
    /\ age \in [Addr -> 0..AgeCap]
    /\ retries \in [Addr -> 0..MaxRetries]
    /\ pending \in [Addr -> Seq(Nat)]
    /\ timer \in Off..WaitReplyTimeout
    /\ scheduled \in SUBSET Addr
    /\ net \in SUBSET Message
    /\ fate \in Seq(Fate)
    /\ dest \in Seq(Addr)
    /\ Len(fate) = Len(dest)
    /\ waited \in [Addr -> Nat]
    /\ fatal \in BOOLEAN

\* The timer of the cache covers every waiting entry, also one that joins
\* while the timer runs for another: it fires no later than WaitReplyTimeout
\* after the entry was last seen (StartWaitReplyTimer does nothing when the
\* timer runs; HandleWaitReplyTimeout restarts it only if an entry retries).
TimerCoversWaiting ==
    \A a \in Addr :
        Waiting(a) => timer # Off /\ timer + age[a] <= WaitReplyTimeout

\* Lookup never meets an expired waiting entry, so the NS_FATAL_ERROR it has
\* for that case ("possibly unreachable code") is indeed unreachable.
NoFatalError == ~fatal

\* Only a waiting entry holds packets: nothing is left behind in an entry that
\* was resolved or given up (MarkWaitReply asserts that its queue is empty),
\* and the queue never exceeds its attribute, except that the packet that
\* opens the wait is always kept.
PendingOnlyWhileWaiting ==
    \A a \in Addr :
        IF Waiting(a) THEN Len(pending[a]) \in 1..AtLeast(1, PendingQueueSize)
                      ELSE pending[a] = <<>>

\* An address is given up at the latest (MaxRetries + 1) timeouts after the
\* packet that opened the wait, however the waits of other addresses shift
\* the shared timer.
BoundedWait ==
    \A a \in Addr : waited[a] <= (MaxRetries + 1) * WaitReplyTimeout

\* The cache keeps the promise of an address resolution cache, without any
\* packet ever overtaking an older one for the same destination.
KeepsPromise == Resolution!Spec

\* Every packet offered to the cache meets its fate.  No more than MaxPackets
\* are offered, so this says that again and again none of them is left waiting.
EveryPacketSettles == []<>(\A p \in DOMAIN fate : fate[p] # "pending")
=============================================================================
