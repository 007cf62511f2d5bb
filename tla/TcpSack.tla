------------------------------ MODULE TcpSack ------------------------------
(***************************************************************************)
(* Loss recovery of an established TCP connection (tcp-socket-base.cc): a  *)
(* socket that sends a stream, the network, and a socket that receives it, *)
(* with SACK or with the guesses of Reno.  The scoreboard is that of       *)
(* TcpTxBuffer, the list of SACK blocks that of TcpRxBuffer.               *)
(*                                                                         *)
(* The congestion window is left open and pacing may hold back a segment,  *)
(* so that SendPendingData sends one segment at a time, whenever there is  *)
(* one to send.  The window of the receiver is large enough; ECN, the FIN  *)
(* and a limit of retries are not modelled here.                           *)
(***************************************************************************)
EXTENDS TcpTxBuffer, TcpRxBuffer

CONSTANTS
    SackModes,      \* values of m_sackEnabled to consider
    LimitedTx,      \* m_limitedTx
    DelAckMax,      \* m_delAckMaxCount
    AllowedSackBlocks, \* how many blocks fit into an option
    StreamLength,   \* bound: bytes the application writes
    MaxLosses,      \* bound: how many segments and ACKs are lost
    MaxTimeouts     \* bound: timeouts while something is on the way

ASSUME SackAssumption ==
    /\ SackModes \subseteq BOOLEAN
    /\ LimitedTx \in BOOLEAN
    /\ DelAckMax \in Nat \ {0}
    /\ AllowedSackBlocks \in Nat
    /\ StreamLength \in Nat \ {0}
    /\ MaxLosses \in Nat
    /\ MaxTimeouts \in Nat

VARIABLES
    tx,         \* m_txBuffer of the sender
    cong,       \* its congestion state, m_dupAckCount, m_recover, m_recoverActive
    retxEvent,  \* its retransmission timer runs
    rx,         \* m_rxBuffer of the receiver
    delAckCount,\* m_delAckCount of the receiver, whose timer runs when it is not 0
    segments,   \* the bag of segments on the way, each a range of bytes
    acks,       \* the bag of ACKs on the way
    losses,     \* how many of them were lost
    timeouts    \* how often the timer expired while something was on the way

senderVars == <<tx, cong, retxEvent>>
receiverVars == <<rx, delAckCount>>
vars == <<senderVars, receiverVars, segments, acks, losses, timeouts>>

StreamEnd == StreamLength + 1

Init ==
    /\ \E sack \in SackModes : tx = EmptyTxBuffer(sack)
    /\ cong = [state |-> "CA_OPEN", dupAckCount |-> 0, recover |-> 0, active |-> FALSE]
    /\ retxEvent = FALSE
    /\ rx = EmptyRxBuffer
    /\ delAckCount = 0
    /\ segments = EmptyBag
    /\ acks = EmptyBag
    /\ losses = 0
    /\ timeouts = 0

-----------------------------------------------------------------------------
(* The handlers of the sender are functions of its state s, in which out is *)
(* the sequence of segments sent.                                           *)

Sender == [tx |-> tx, cong |-> cong, retxEvent |-> retxEvent, out |-> <<>>]

Becomes(s) ==
    /\ tx' = s.tx
    /\ cong' = s.cong
    /\ retxEvent' = s.retxEvent
    /\ segments' = segments (+) ToBag(s.out)

Expect(s, holds) == [s EXCEPT !.tx = Asserted(@, holds)]
Marked(s, buffer) == [s EXCEPT !.tx = buffer]

SendDataPacket(s, seq, n) ==
    LET got == CopyFromSequence(s.tx, n, seq)
        item == got.buffer.sent[got.item]
    IN  IF got.item = 0 THEN Marked(s, got.buffer)
        ELSE [s EXCEPT !.tx = got.buffer,
                       !.retxEvent = TRUE,
                       !.out = Append(@, <<item.startSeq, item.startSeq + item.size>>)]

\* One turn of the loop of SendPendingData.
SendOne(s) ==
    LET isRecovery == s.tx.sackEnabled /\ s.cong.state = "CA_RECOVERY"
        next == NextSeg(s.tx, isRecovery)
    IN  IF next = 0 THEN s ELSE SendDataPacket(s, next, SegmentSize)

DoRetransmit(s) ==
    LET next == NextSeg(s.tx, FALSE)
        seq == IF next = 0 THEN s.tx.first ELSE next
    IN  SendDataPacket(Expect(s, s.tx.sackEnabled \/ seq = s.tx.first), seq, SegmentSize)

\* Fast retransmit.
EnterRecovery(s) ==
    LET marked == IF ~s.tx.sackEnabled THEN MarkHeadAsLost(AddRenoSack(s.tx))
                  ELSE IF IsLost(s.tx, s.tx.first) THEN s.tx
                  ELSE MarkHeadAsLost(s.tx)
    IN  DoRetransmit([s EXCEPT !.tx = marked, !.cong.state = "CA_RECOVERY",
                               !.cong.recover = SentEnd(s.tx), !.cong.active = TRUE])

\* m_highRxAckMark is the first byte of the buffer by now.
DupAck(s) ==
    LET count == s.cong.dupAckCount + 1
        c == Expect([s EXCEPT !.cong.dupAckCount = count, !.cong.state = "CA_DISORDER"],
                    /\ s.cong.state = "CA_OPEN" => count = 1
                    /\ count <= DupThresh \/ s.cong.active)
    IN  CASE s.cong.state = "CA_LOSS" -> s
          [] s.cong.state = "CA_RECOVERY" ->
                IF s.tx.sackEnabled THEN s ELSE Marked(s, AddRenoSack(s.tx))
          [] OTHER ->
                IF \/ /\ count = DupThresh
                      /\ s.tx.first >= s.cong.recover \/ ~s.cong.active
                   \/ IsLost(s.tx, s.tx.first + SegmentSize)
                THEN EnterRecovery(c)
                ELSE IF s.tx.sackEnabled \/ ~LimitedTx THEN c
                ELSE Marked(c, AddRenoSack(c.tx))

\* Mutant: the timer stops when there is no new data to send.
NewAckWithoutSent(s) == [s EXCEPT !.retxEvent = s.tx.unsent > 0]

\* The timer restarts, and stops when there is nothing left to send.
NewAck(s) == [s EXCEPT !.retxEvent = SentSize(s.tx) + s.tx.unsent > 0]

\* An ACK that does not end the recovery: what follows it is lost too.  NewAck
\* restarts the timer for the first one only, and leaves it running.
PartialAck(s, ack) ==
    LET c == IF s.tx.sackEnabled THEN s ELSE Marked(s, MarkHeadAsLost(s.tx))
    IN  IF IsRetransmittedDataAcked(c.tx, ack + SegmentSize) THEN c ELSE DoRetransmit(c)

\* An ACK beyond the recovery point, or outside of a recovery.
FullAck(s, ack, isDupack) ==
    LET stays == s.cong.state = "CA_DISORDER" /\ isDupack
        c == [s EXCEPT !.cong.state = IF stays THEN @ ELSE "CA_OPEN",
                       !.cong.dupAckCount = IF s.cong.state = "CA_RECOVERY" THEN 0 ELSE @,
                       !.cong.active = @ /\ ack < s.cong.recover]
    IN  IF stays THEN c ELSE NewAck(c)

ProcessAck(s, ack, old, updated) ==
    LET isDupack == IF s.tx.sackEnabled THEN updated ELSE ack = old /\ ack < SentEnd(s.tx)
        d == IF isDupack THEN DupAck(s) ELSE s
        c == IF isDupack THEN d ELSE [d EXCEPT !.cong.dupAckCount = 0]
    IN  CASE ack = old -> d
          [] ack > old /\ ack < c.cong.recover /\ c.cong.state = "CA_RECOVERY" ->
                PartialAck(c, ack)
          [] ack > old /\ ack < c.cong.recover /\ c.cong.state = "CA_LOSS" ->
                NewAck(Expect(c, c.tx.sackEnabled \/ c.tx.sackedOut = 0))
          [] OTHER -> FullAck(c, ack, isDupack)

\* ProcessEstablished ignores an ACK of what is acknowledged already; of another
\* the SACK option is read before its number.
ReceivedAck(s, m) ==
    LET read == IF s.tx.sackEnabled /\ m.sack # <<>> THEN Update(s.tx, m.sack) ELSE s.tx
        updated == read.sackedOut > s.tx.sackedOut
    IN  IF m.ack < s.tx.first THEN s
        ELSE ProcessAck(Marked(s, DiscardUpTo(read, m.ack)), m.ack, s.tx.first, updated)

\* All is lost; the window of one segment is filled at once.
ReTxTimeout(s) ==
    LET lost == SetSentListLost(s.tx, ~s.tx.sackEnabled)
    IN  SendOne([s EXCEPT !.tx = Asserted(lost, BytesInFlight(lost) = 0),
                          !.retxEvent = FALSE,
                          !.cong = [state |-> "CA_LOSS", dupAckCount |-> 0,
                                    recover |-> SentEnd(s.tx), active |-> TRUE]])

-----------------------------------------------------------------------------
(* Actions *)

\* Socket::Send
Send(n) ==
    /\ TailSequence(tx) + n <= StreamEnd
    /\ tx' = Add(tx, n)
    /\ UNCHANGED <<cong, retxEvent, receiverVars, segments, acks, losses, timeouts>>

SendPendingData ==
    /\ SendOne(Sender) # Sender
    /\ Becomes(SendOne(Sender))
    /\ UNCHANGED <<receiverVars, acks, losses, timeouts>>

ReceiveAck(m) ==
    /\ BagIn(m, acks)
    /\ acks' = acks (-) SetToBag({m})
    /\ Becomes(ReceivedAck(Sender, m))
    /\ UNCHANGED <<receiverVars, losses, timeouts>>

\* The timer may expire too early so many times only.
Timeout ==
    LET early == segments # EmptyBag \/ acks # EmptyBag \/ delAckCount > 0
    IN  /\ retxEvent
        /\ early => timeouts < MaxTimeouts
        /\ timeouts' = IF early THEN timeouts + 1 ELSE timeouts
        /\ Becomes(ReTxTimeout(Sender))
        /\ UNCHANGED <<receiverVars, acks, losses>>

\* SendEmptyPacket, with the SACK option when there is a block.
Ack(r) ==
    [ack |-> r.next,
     sack |-> IF tx.sackEnabled
                THEN SubSeq(r.sack, 1, Min({Len(r.sack), AllowedSackBlocks})) ELSE <<>>]

Acknowledge(r) ==
    /\ acks' = acks (+) SetToBag({Ack(r)})
    /\ delAckCount' = 0

\* A packet that fills the gap, is beyond it or brings nothing new is acknowledged
\* at once, one in sequence when enough of them have come.
ReceivedData(p) ==
    LET new == Store(rx, p)
        gap == new = rx \/ new.data # {} \/ new.next > rx.next + (p[2] - p[1])
    IN  /\ BagIn(p, segments)
        /\ segments' = segments (-) SetToBag({p})
        /\ rx' = new
        /\ IF gap \/ delAckCount + 1 >= DelAckMax
             THEN Acknowledge(new)
             ELSE delAckCount' = delAckCount + 1 /\ UNCHANGED acks
        /\ UNCHANGED <<senderVars, losses, timeouts>>

DelAckTimeout ==
    /\ delAckCount > 0
    /\ Acknowledge(rx)
    /\ UNCHANGED <<senderVars, rx, segments, losses, timeouts>>

Lose ==
    /\ losses < MaxLosses
    /\ losses' = losses + 1
    /\ \/ \E p \in BagToSet(segments) :
            segments' = segments (-) SetToBag({p}) /\ UNCHANGED acks
       \/ \E m \in BagToSet(acks) :
            acks' = acks (-) SetToBag({m}) /\ UNCHANGED segments
    /\ UNCHANGED <<senderVars, receiverVars, timeouts>>

Progress ==
    \/ \E n \in 1..SegmentSize : Send(n)
    \/ SendPendingData
    \/ \E m \in BagToSet(acks) : ReceiveAck(m)
    \/ \E p \in BagToSet(segments) : ReceivedData(p)
    \/ DelAckTimeout
    \/ Timeout

Next == Progress \/ Lose

Spec == Init /\ [][Next]_vars

\* When a step of Progress is possible.
CanProgress ==
    \/ TailSequence(tx) < StreamEnd
    \/ SendOne(Sender) # Sender
    \/ segments # EmptyBag \/ acks # EmptyBag \/ delAckCount > 0
    \/ retxEvent

\* The simulator does not stop while an event is scheduled, and the window opens
\* again: WF_vars(Progress), written with CanProgress for ENABLED.
FairSpec == Spec /\ ([]<>~CanProgress \/ []<><<Progress>>_vars)

-----------------------------------------------------------------------------
(* Properties *)

Bytes(ranges) == UNION {r[1]..(r[2] - 1) : r \in ranges}
Received == 1..(rx.next - 1) \cup Bytes(rx.data)
SackedBytes(b) == UNION {Begin(b, i)..(End(b, i) - 1) : i \in {j \in DOMAIN b.sent : b.sent[j].sacked}}

Item == [startSeq : 1..StreamLength, size : 1..SegmentSize, sacked : BOOLEAN,
         lost : BOOLEAN, retrans : BOOLEAN]
Range1 == {r \in (1..StreamLength) \X (2..StreamEnd) : r[1] < r[2]}

TypeOK ==
    /\ tx.sent \in Seq(Item)
    /\ tx.first \in 1..StreamEnd
    /\ tx.unsent \in 0..StreamLength
    /\ {tx.sackedOut, tx.lostOut, tx.retrans} \subseteq 0..StreamLength
    /\ tx.highest \in 0..Len(tx.sent)
    /\ cong.state \in {"CA_OPEN", "CA_DISORDER", "CA_RECOVERY", "CA_LOSS"}
    /\ cong.recover \in 0..StreamEnd
    /\ retxEvent \in BOOLEAN
    /\ rx.next \in 1..StreamEnd
    /\ rx.data \subseteq Range1
    /\ rx.sack \in Seq(Range1) /\ Len(rx.sack) <= MaxSackBlocks
    /\ delAckCount \in 0..(DelAckMax - 1)
    /\ BagToSet(segments) \subseteq Range1

\* No assertion of the buffers or of the handlers fails.
NoAssertionFails == tx.ok

\* The disabled ConsistencyCheck would always succeed: each counter has the bytes
\* of the items that bear its mark, so that none is ever below zero and the
\* estimate of what is in flight is right.  The items are the stream from the
\* first byte to the last one sent, and the first is never thought received.
CountsMatch ==
    LET isSacked(e) == e.sacked
        isLost(e) == e.lost
        isRetrans(e) == e.retrans
    IN  /\ tx.sackedOut = BytesOf(tx, isSacked)
        /\ tx.lostOut = BytesOf(tx, isLost)
        /\ tx.retrans = BytesOf(tx, isRetrans)
        /\ \A i \in DOMAIN tx.sent :
              /\ ~(tx.sent[i].sacked /\ tx.sent[i].lost)
              /\ Begin(tx, i) = (IF i = 1 THEN tx.first ELSE End(tx, i - 1))
        /\ tx.sent # <<>> => ~tx.sent[1].sacked

\* The scoreboard is consistent.
Consistent == TypeOK /\ NoAssertionFails /\ CountsMatch

\* What the sender thinks received the receiver has, however late or old the ACK
\* that said so; and the receiver never forgets what it has reported.
SackedIsReceived == tx.sackEnabled => SackedBytes(tx) \subseteq Received

\* Only the head, and what a timeout found unacknowledged, is given up without
\* proof: of every other segment that is marked lost enough later ones were sacked.
LostHasWitness ==
    \A i \in 2..Len(tx.sent) :
        tx.sent[i].lost =>
            \/ cong.state = "CA_LOSS" /\ Begin(tx, i) < cong.recover
            \/ Cardinality({j \in i..Len(tx.sent) : tx.sent[j].sacked}) >= DupThresh

\* The packets beyond the gap do not overlap, and the blocks of the list are of
\* them: a block is gone when the data before it has come.
SackListIsTrue ==
    /\ \A d, e \in rx.data : d # e => d[2] <= e[1] \/ e[2] <= d[1]
    /\ \A d \in rx.data : d[1] > rx.next
    /\ \A k \in DOMAIN rx.sack : Bytes({rx.sack[k]}) \subseteq Bytes(rx.data)

\* With SACK the sender takes nothing back: a byte stays sacked until it is
\* acknowledged, through splits, merges, partial ACKs and timeouts.
SackedStays ==
    [][tx.sackEnabled => \A x \in SackedBytes(tx) : x < tx.first' \/ x \in SackedBytes(tx')]_vars

\* The stream is delivered and acknowledged in the end.
StreamDelivered == <>(tx.first = StreamEnd)
=============================================================================
