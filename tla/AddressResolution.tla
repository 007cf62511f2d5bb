------------------------- MODULE AddressResolution -------------------------
(***************************************************************************)
(* What an address resolution cache promises to the interface that offers  *)
(* it packets: each packet is sent, lost or queued behind the address it   *)
(* goes to; a queue is sent as a whole and in order, or lost as a whole;   *)
(* nothing is sent twice and nothing that was lost is sent.  ArpCache and  *)
(* NdiscCache implement it.                                                *)
(***************************************************************************)
EXTENDS Integers, Sequences

CONSTANTS
    Addr,       \* destinations
    Limit,      \* how many packets the queue of an address holds
    DropOldest, \* a full queue drops its oldest packet for the new one
    Overtake    \* a packet may be sent while older ones are queued

VARIABLES
    fate,       \* "queued", "sent" or "lost", for each packet in turn
    queue       \* the packets queued for each address, oldest first

vars == <<fate, queue>>

Init ==
    /\ fate = <<>>
    /\ queue = [a \in Addr |-> <<>>]

Packet == Len(fate) + 1

Send(a) ==
    /\ Overtake \/ queue[a] = <<>>
    /\ fate' = Append(fate, "sent")
    /\ UNCHANGED queue

Refuse ==
    /\ fate' = Append(fate, "lost")
    /\ UNCHANGED queue

Enqueue(a) ==
    /\ Len(queue[a]) < Limit
    /\ fate' = Append(fate, "queued")
    /\ queue' = [queue EXCEPT ![a] = Append(@, Packet)]

Displace(a) ==
    /\ DropOldest
    /\ queue[a] # <<>>
    /\ fate' = Append([fate EXCEPT ![Head(queue[a])] = "lost"], "queued")
    /\ queue' = [queue EXCEPT ![a] = Append(Tail(@), Packet)]

\* The packets queued for the addresses of A.
Queued(A) == UNION {{queue[a][i] : i \in 1..Len(queue[a])} : a \in A}

\* The queues of A are emptied and their packets share a fate.
Settle(A, f) ==
    /\ fate' = [p \in DOMAIN fate |-> IF p \in Queued(A) THEN f ELSE fate[p]]
    /\ queue' = [a \in Addr |-> IF a \in A THEN <<>> ELSE queue[a]]

Release(a) == Settle({a}, "sent")
GiveUp(A) == Settle(A, "lost")

Next ==
    \/ Refuse
    \/ \E a \in Addr : Send(a) \/ Enqueue(a) \/ Displace(a) \/ Release(a)
    \/ \E A \in SUBSET Addr : GiveUp(A)

Spec == Init /\ [][Next]_vars
=============================================================================
