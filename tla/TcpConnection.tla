--------------------------- MODULE TcpConnection ---------------------------
(***************************************************************************)
(* One TCP connection of tcp-socket-base.cc: the socket an application     *)
(* connects and the socket a listener forks, each a TcpSocketBase with its *)
(* send and receive buffers and its timers, joined by a network that       *)
(* delays, reorders and loses segments and tail-drops at Capacity.         *)
(*                                                                         *)
(* Every handler of the source is an operator from the state of a socket   *)
(* (a record, with the segments it emits appended to out) to its next      *)
(* state, so that a handler is modelled with every call it makes; the      *)
(* actions at the end feed the handlers with segments, timers and          *)
(* application calls.  Each C++ handler runs as one simulator event, hence *)
(* as one step.                                                            *)
(*                                                                         *)
(* Data is counted in full-size segments: a sequence number counts SYN,    *)
(* segments and FIN, and starts at 0 as in the source.  The congestion     *)
(* window is any value of CWnd each time it is consulted, which covers     *)
(* every congestion control; a retransmission timeout sets it to one       *)
(* segment.  SACK, ECN, the persist timer (the application reads at once,  *)
(* so the advertised window never closes) and fast retransmit (which takes *)
(* three duplicate ACKs) are not part of this module.                      *)
(***************************************************************************)
EXTENDS Integers, Sequences, FiniteSets, SequencesExt

CONSTANTS
    Client, Server,     \* the two sockets
    Writes,             \* bound: segments each application writes
    Shutters,           \* sockets whose application uses ShutdownSend
    SynRetries,         \* attribute ConnCount: m_synRetries
    DataRetries,        \* attribute DataRetries: m_dataRetries
    DelAckMaxCount,     \* attribute DelAckCount: m_delAckMaxCount
    CWnd,               \* congestion windows, in segments
    Capacity,           \* segments in flight towards a socket
    MaxLosses           \* bound: how many of them the network loses

Sockets == {Client, Server}
Peer(x) == IF x = Client THEN Server ELSE Client

ASSUME TcpAssumption ==
    /\ Client # Server
    /\ Writes \in [Sockets -> Nat]
    /\ Shutters \subseteq Sockets
    /\ SynRetries \in Nat \ {0}
    /\ DataRetries \in Nat
    /\ DelAckMaxCount \in Nat \ {0}
    /\ CWnd \subseteq Nat \ {0} /\ CWnd # {}
    /\ Capacity \in Nat \ {0}
    /\ MaxLosses \in Nat

VARIABLES
    sock,       \* the two TcpSocketBase objects
    net,        \* the segments on their way to each of them
    losses      \* history: segments lost so far

vars == <<sock, net, losses>>

State == {"CLOSED", "LISTEN", "SYN_SENT", "SYN_RCVD", "ESTABLISHED",
          "CLOSE_WAIT", "LAST_ACK", "FIN_WAIT_1", "FIN_WAIT_2", "CLOSING",
          "TIME_WAIT"}

\* The flags a TcpSocketBase sends; FIN always travels with ACK.
Flags == {"SYN", "SYN+ACK", "ACK", "FIN+ACK", "RST"}

None == -1

NewSocket ==
    [state |-> "CLOSED",
     endPoint |-> FALSE,        \* m_endPoint is allocated
     connected |-> FALSE,       \* m_connected
     head |-> 0,                \* HeadSequence of m_txBuffer
     tail |-> 0,                \* TailSequence of m_txBuffer
     nextTx |-> 0,              \* m_nextTxSequence
     highTx |-> 0,              \* m_highTxMark
     lost |-> {},               \* sent segments marked lost, not yet resent
     recover |-> 0,             \* m_recover while in CA_LOSS, otherwise 0
     nextRx |-> 0,              \* NextRxSequence of m_rxBuffer
     held |-> {},               \* segments in m_rxBuffer beyond a gap
     fin |-> None,              \* m_finSeq once m_gotFin
     synCount |-> 0,            \* m_synCount
     dataRetrCount |-> 0,       \* m_dataRetrCount
     retx |-> "off",            \* what m_retxEvent will do when it expires
     lastAck |-> FALSE,         \* m_lastAckEvent is running
     delAck |-> FALSE,          \* m_delAckEvent is running
     delAckCount |-> 0,         \* m_delAckCount
     sendPending |-> FALSE,     \* m_sendPendingDataEvent is running
     closeOnEmpty |-> FALSE,    \* m_closeOnEmpty
     shutdownSend |-> FALSE,    \* m_shutdownSend
     written |-> 0,             \* history: calls of Send
     closed |-> FALSE,          \* history: the application called Close
     taken |-> {},              \* history: segments stored by Add
     behind |-> FALSE,          \* history: data was left or put behind a FIN
     out |-> <<>>]              \* segments emitted in this step

Init ==
    /\ sock = [x \in Sockets |-> NewSocket]
    /\ net = [x \in Sockets |-> {}]
    /\ losses = 0

Bigger(x, y) == IF x >= y THEN x ELSE y
Lesser(x, y) == IF x <= y THEN x ELSE y

(***************************************************************************)
(* Buffers                                                                 *)
(***************************************************************************)

\* m_txBuffer->Size ()
TxSize(s) == s.tail - s.head

\* m_txBuffer->SizeFromSequence (seq)
SizeFromSequence(s, seq) == Bigger(0, s.tail - seq)

\* What DiscardUpTo leaves; an empty buffer takes the sequence number acked.
DiscardUpTo(s, ack) ==
    IF ack <= s.head THEN s
    ELSE [s EXCEPT !.head = ack,
                   !.tail = Bigger(@, ack),
                   !.lost = {q \in @ : q >= ack}]

\* Mutant: the FIN counts as received ahead of the data before it.
FinishedOnFin(s) == s.fin # None

Finished(s) == s.fin # None /\ s.fin < s.nextRx

SetFinSequence(s, seq) ==
    [s EXCEPT !.fin = seq, !.nextRx = IF @ = seq THEN @ + 1 ELSE @]

\* The first sequence number at or after seq that is not in held.
FirstGap(seq, held) ==
    CHOOSE q \in seq..(seq + Cardinality(held)) :
        q \notin held /\ \A p \in seq..(q - 1) : p \in held

\* A segment is stored unless its bytes were received before.
CanAdd(s, m) == m.seq >= s.nextRx /\ m.seq \notin s.held

\* Mutant: the next sequence number expected jumps over a gap.
AddOverGap(s, m) == [s EXCEPT !.nextRx = m.seq + 1, !.taken = @ \cup {m.seq}]

Add(s, m) ==
    LET held == s.held \cup {m.seq}
        next == FirstGap(s.nextRx, held)
    IN  [s EXCEPT !.taken = @ \cup {m.seq},
                  !.held = {q \in held : q > next},
                  !.nextRx = IF next = s.fin THEN next + 1 ELSE next]

(***************************************************************************)
(* Sending                                                                 *)
(***************************************************************************)

\* The sequence and acknowledgment numbers of a RST are never read.
Transmit(s, flags, seq, len) ==
    LET m == IF flags = "RST"
             THEN [flags |-> flags, seq |-> 0, ack |-> 0, len |-> 0]
             ELSE [flags |-> flags, seq |-> seq, ack |-> s.nextRx, len |-> len]
    IN  [s EXCEPT !.out = Append(@, m)]

DeallocateEndPoint(s) ==
    IF ~ s.endPoint THEN s
    ELSE [s EXCEPT !.endPoint = FALSE,
                   !.retx = "off",
                   !.lastAck = FALSE,
                   !.delAck = FALSE,
                   !.sendPending = FALSE]

\* Mutant: a SYN+ACK is not scheduled for retransmission.
SendEmptyPacketOnce(s, flags) ==
    LET syn == flags \in {"SYN", "SYN+ACK"}
        acks == flags \in {"SYN+ACK", "ACK", "FIN+ACK"}
    IN  IF ~ s.endPoint THEN s
        ELSE IF syn /\ s.synCount = 0
        THEN DeallocateEndPoint([s EXCEPT !.state = "CLOSED"])
        ELSE [Transmit(s, flags, s.nextTx, 0) EXCEPT
                !.synCount = IF syn THEN @ - 1 ELSE @,
                !.delAck = @ /\ ~ acks,
                !.delAckCount = IF acks THEN 0 ELSE @,
                !.retx = IF @ = "off" /\ flags \in {"SYN", "FIN+ACK"} THEN flags ELSE @,
                !.behind = @ \/ (flags = "FIN+ACK" /\ s.nextTx < s.tail)]

SendEmptyPacket(s, flags) ==
    LET syn == flags \in {"SYN", "SYN+ACK"}
        acks == flags \in {"SYN+ACK", "ACK", "FIN+ACK"}
        seq == IF flags # "FIN+ACK" /\ s.state \in {"FIN_WAIT_1", "LAST_ACK", "CLOSING"}
               THEN s.nextTx + 1 ELSE s.nextTx
    IN  IF ~ s.endPoint THEN s
        ELSE IF syn /\ s.synCount = 0
        THEN DeallocateEndPoint([s EXCEPT !.state = "CLOSED"])
        ELSE [Transmit(s, flags, seq, 0) EXCEPT
                !.synCount = IF syn THEN @ - 1 ELSE @,
                !.delAck = @ /\ ~ acks,
                !.delAckCount = IF acks THEN 0 ELSE @,
                !.retx = IF @ = "off" /\ (syn \/ flags = "FIN+ACK") THEN flags ELSE @,
                !.behind = @ \/ (flags = "FIN+ACK" /\ s.nextTx < s.tail)]

SendRST(s) == DeallocateEndPoint(SendEmptyPacket(s, "RST"))

CloseAndNotify(s) == DeallocateEndPoint([s EXCEPT !.state = "CLOSED"])

\* Entered with all timers cancelled; the TIME_WAIT timer runs until the end
\* point is given up.
TimeWait(s) ==
    [s EXCEPT !.state = "TIME_WAIT", !.retx = "off", !.lastAck = FALSE,
              !.delAck = FALSE, !.sendPending = FALSE]

\* The segments BytesInFlight counts, and the ones NextSeg offers: what is
\* marked lost first, which is all before HighTx, then what was never sent.
InFlight(s) == Cardinality((s.head .. s.highTx - 1) \ s.lost)
ToSend(s) == s.lost \cup Bigger(s.head, s.highTx) .. s.tail - 1

\* The i-th number of a set in ascending order.
Nth(S, i) == CHOOSE q \in S : Cardinality({p \in S : p <= q}) = i

\* SendDataPacket for one segment after another while the window allows; the
\* last segment carries FIN when the application has closed.
SendPendingData(s, cwnd) ==
    LET window == Bigger(0, cwnd - InFlight(s))
        n == IF s.recover = 0 /\ s.state = "FIN_WAIT_1" THEN 0
             ELSE Lesser(window, Cardinality(ToSend(s)))
        sent == [i \in 1..n |-> Nth(ToSend(s), i)]
        final == sent[n] + 1
        fin == s.closeOnEmpty /\ final = s.tail
        Segment(i) ==
            [flags |-> IF i = n /\ fin THEN "FIN+ACK" ELSE "ACK",
             seq |-> sent[i], ack |-> s.nextRx, len |-> 1]
    IN  IF TxSize(s) = 0 \/ ~ s.endPoint \/ n = 0 THEN s
        ELSE [s EXCEPT
                !.out = @ \o [i \in 1..n |-> Segment(i)],
                !.state = IF fin /\ @ = "ESTABLISHED" THEN "FIN_WAIT_1"
                          ELSE IF fin /\ @ = "CLOSE_WAIT" THEN "LAST_ACK" ELSE @,
                !.nextTx = final,
                !.highTx = Bigger(@, final),
                !.lost = @ \ {sent[i] : i \in 1..n},
                !.delAck = FALSE,
                !.delAckCount = 0,
                !.retx = IF @ = "off" THEN "rto" ELSE @]

(***************************************************************************)
(* Closing                                                                 *)
(***************************************************************************)

DoClose(s) ==
    CASE s.state \in {"SYN_RCVD", "ESTABLISHED"} ->
            [SendEmptyPacket(s, "FIN+ACK") EXCEPT !.state = "FIN_WAIT_1"]
      [] s.state = "CLOSE_WAIT" ->
            [SendEmptyPacket(s, "FIN+ACK") EXCEPT !.state = "LAST_ACK"]
      [] s.state \in {"SYN_SENT", "CLOSING"} ->
            CloseAndNotify(SendRST(s))
      [] OTHER -> s

Close(s) ==
    IF s.held # {} THEN SendRST(s)
    ELSE IF SizeFromSequence(s, s.nextTx) > 0 THEN [s EXCEPT !.closeOnEmpty = TRUE]
    ELSE DoClose(s)

ShutdownSend(s) ==
    LET t == [s EXCEPT !.shutdownSend = TRUE, !.closeOnEmpty = TRUE]
        f == SendEmptyPacket(t, "FIN+ACK")
    IN  IF TxSize(s) > 0 THEN t
        ELSE CASE s.state = "ESTABLISHED" -> [f EXCEPT !.state = "FIN_WAIT_1"]
               [] s.state = "CLOSE_WAIT" -> [f EXCEPT !.state = "LAST_ACK"]
               [] OTHER -> t

DoPeerClose(s) ==
    LET t == [s EXCEPT !.state = "CLOSE_WAIT"]
        u == IF s.shutdownSend THEN Close(t) ELSE SendEmptyPacket(t, "ACK")
    IN  IF u.state = "LAST_ACK"
        THEN [u EXCEPT !.dataRetrCount = DataRetries, !.lastAck = TRUE]
        ELSE u

(***************************************************************************)
(* Receiving data and acknowledgments                                      *)
(***************************************************************************)

ReceivedData(s, m) ==
    LET t == Add(s, m)
        gap == t.held # {} \/ t.nextRx > s.nextRx + m.len
        count == s.delAckCount + 1
    IN  IF ~ CanAdd(s, m) THEN SendEmptyPacket(s, "ACK")
        ELSE IF t.nextRx > s.nextRx /\ Finished(t) /\ m.flags # "FIN+ACK"
        THEN DoPeerClose(t)
        ELSE IF gap \/ count >= DelAckMaxCount THEN SendEmptyPacket(t, "ACK")
        ELSE [t EXCEPT !.delAckCount = count, !.delAck = TRUE]

\* Mutant: the timer stops when the data is acknowledged, whatever the state.
NewAckStopsTimer(s, ack) ==
    LET t == [s EXCEPT !.dataRetrCount = DataRetries, !.nextTx = Bigger(@, ack)]
    IN  [t EXCEPT !.retx = IF TxSize(t) = 0 THEN "off"
                           ELSE IF t.state = "SYN_RCVD" THEN @ ELSE "rto"]

NewAck(s, ack) ==
    LET t == [s EXCEPT !.dataRetrCount = DataRetries, !.nextTx = Bigger(@, ack)]
    IN  IF TxSize(t) = 0 /\ t.state \notin {"FIN_WAIT_1", "CLOSING"}
        THEN [t EXCEPT !.retx = "off"]
        ELSE [t EXCEPT !.retx = IF t.state = "SYN_RCVD" THEN @ ELSE "rto"]

\* s is the socket after DiscardUpTo, old its head before.
ProcessAck(s, ack, old) ==
    IF ack > old
    THEN NewAck([s EXCEPT !.recover = IF ack >= @ THEN 0 ELSE @], ack)
    ELSE IF ack > s.highTx THEN [s EXCEPT !.nextTx = ack]
    ELSE s

ReceivedAck(s, m, cwnd) ==
    LET Piggybacked(t) == IF m.len > 0 THEN ReceivedData(t, m) ELSE t
        acked == ProcessAck(DiscardUpTo(s, m.ack), m.ack, s.head)
    IN  IF m.ack < s.head THEN Piggybacked(s)
        ELSE SendPendingData(Piggybacked(acked), cwnd)

\* A FIN at or before NextRxSequence was processed before and is ignored.
PeerClose(s, m) ==
    LET t == SetFinSequence(s, m.seq + m.len)
        u == IF m.len > 0 THEN ReceivedData(t, m) ELSE t
    IN  IF m.seq < s.nextRx \/ (s.fin # None /\ m.seq > s.fin) THEN s
        ELSE IF ~ Finished(u) THEN u
        ELSE IF u.state = "FIN_WAIT_1" THEN [u EXCEPT !.state = "CLOSING"]
        ELSE DoPeerClose(u)

(***************************************************************************)
(* One handler per state                                                   *)
(***************************************************************************)

\* A segment of a socket that took part in the handshake: its SYN is consumed
\* and it may send data.
Connected(s) ==
    [s EXCEPT !.connected = TRUE, !.retx = "off",
              !.nextTx = 1, !.highTx = 1, !.head = 1, !.tail = @ + 1]

\* The listener never sends a bare SYN, and a bare ACK or FIN is ignored.
ProcessSynSent(s, m, cwnd) ==
    LET t == [Connected(s) EXCEPT !.state = "ESTABLISHED", !.nextRx = m.seq + 1]
    IN  CASE m.flags \in {"ACK", "FIN+ACK"} -> s
          [] m.flags = "SYN+ACK" /\ m.ack = s.nextTx + 1 ->
                [SendPendingData(SendEmptyPacket(t, "ACK"), cwnd)
                    EXCEPT !.delAckCount = DelAckMaxCount]
          [] m.flags = "RST" -> CloseAndNotify(s)
          [] OTHER -> CloseAndNotify(SendRST(s))

\* Mutant: a repeated SYN completes the handshake.
ProcessSynRcvdOnSyn(s, m, cwnd) ==
    IF m.flags \in {"SYN", "ACK"} THEN [Connected(s) EXCEPT !.state = "ESTABLISHED"]
    ELSE s

ProcessSynRcvd(s, m, cwnd) ==
    CASE m.flags = "ACK" /\ m.ack = s.nextTx + 1 ->
            ReceivedAck([Connected(s) EXCEPT !.state = "ESTABLISHED",
                                             !.delAckCount = DelAckMaxCount],
                        m, cwnd)
      [] m.flags = "SYN" ->
            SendEmptyPacket([s EXCEPT !.nextRx = m.seq + 1], "SYN+ACK")
      [] m.flags = "FIN+ACK" ->
            IF m.seq = s.nextRx THEN PeerClose(Connected(s), m) ELSE s
      [] m.flags = "RST" -> CloseAndNotify(s)
      [] OTHER -> CloseAndNotify(SendRST(s))

ProcessEstablished(s, m, cwnd) ==
    CASE m.flags = "ACK" ->
            IF m.ack < s.head THEN s
            ELSE IF m.ack > s.highTx THEN SendEmptyPacket(s, "ACK")
            ELSE ReceivedAck(s, m, cwnd)
      [] m.flags \in {"SYN", "SYN+ACK"} -> s
      [] m.flags = "FIN+ACK" -> PeerClose(s, m)
      [] OTHER -> CloseAndNotify(s)

\* Mutant: acknowledging the last segment is taken for acknowledging the FIN.
AcksFinOffByOne(s, m) == TxSize(s) = 0 /\ m.ack = s.highTx

\* The acknowledgment covers the FIN, which follows the last segment sent.
AcksFin(s, m) == TxSize(s) = 0 /\ m.ack = s.highTx + 1

ProcessWaitAck(s, m, cwnd) ==
    LET t == ReceivedAck(s, m, cwnd)
    IN  IF t.state = "FIN_WAIT_1" /\ AcksFin(t, m)
        THEN [t EXCEPT !.state = "FIN_WAIT_2"] ELSE t

\* Payload that comes with the FIN is stored, but the FIN is remembered at the
\* sequence number of the segment, not after its payload.
ProcessWaitFin(s, m, cwnd) == SetFinSequence(ReceivedAck(s, m, cwnd), m.seq)

\* Mutant: the acknowledgment the FIN carries decides in FIN_WAIT_2 as well.
FinishWaitByAck(s, m) ==
    LET next == IF ~ AcksFin(s, m) THEN [s EXCEPT !.state = "CLOSING"] ELSE TimeWait(s)
    IN  IF s.state \in {"FIN_WAIT_1", "FIN_WAIT_2"} /\ Finished(s)
        THEN SendEmptyPacket(next, "ACK") ELSE s

\* Answers an in-sequence FIN on the side that closed first.
FinishWait(s, m) ==
    LET closing == [s EXCEPT !.state = "CLOSING"]
        next == IF s.state = "FIN_WAIT_1" /\ ~ AcksFin(s, m)
                THEN closing ELSE TimeWait(s)
    IN  IF s.state \in {"FIN_WAIT_1", "FIN_WAIT_2"} /\ Finished(s)
        THEN SendEmptyPacket(next, "ACK") ELSE s

ProcessWait(s, m, cwnd) ==
    CASE m.flags = "ACK" -> FinishWait(ProcessWaitAck(s, m, cwnd), m)
      [] m.flags = "FIN+ACK" -> FinishWait(ProcessWaitFin(s, m, cwnd), m)
      [] m.flags \in {"SYN", "SYN+ACK"} -> s
      [] OTHER -> CloseAndNotify(s)

ProcessClosing(s, m) ==
    CASE m.flags = "ACK" -> IF m.seq = s.nextRx THEN TimeWait(s) ELSE s
      [] m.flags = "FIN+ACK" -> CloseAndNotify(SendEmptyPacket(s, "ACK"))
      [] m.flags = "RST" -> CloseAndNotify(s)
      [] OTHER -> CloseAndNotify(SendRST(s))

ProcessLastAck(s, m) ==
    CASE m.flags = "ACK" ->
            IF m.seq = s.nextRx THEN CloseAndNotify(s) ELSE s
      [] m.flags = "FIN+ACK" -> CloseAndNotify(s)
      [] m.flags = "RST" -> CloseAndNotify(s)
      [] OTHER -> CloseAndNotify(SendRST(s))

\* The FIN bounds what the receive buffer takes; without one its upper end is
\* far beyond what Writes allows.
OutOfRange(s, m) ==
    CASE s.state \in {"SYN_SENT", "SYN_RCVD"} -> FALSE
      [] s.state \in {"LAST_ACK", "CLOSING", "CLOSE_WAIT"} -> m.seq # s.nextRx
      [] OTHER -> m.seq + m.len < s.nextRx \/ (s.fin # None /\ s.fin <= m.seq)

\* ForwardUp: the segment check and the dispatch of DoForwardUp.
ForwardUp(s, m, cwnd) ==
    IF m.len > 0 /\ OutOfRange(s, m) THEN SendEmptyPacket(s, "ACK")
    ELSE CASE s.state = "SYN_SENT" -> ProcessSynSent(s, m, cwnd)
           [] s.state = "SYN_RCVD" -> ProcessSynRcvd(s, m, cwnd)
           [] s.state = "ESTABLISHED" -> ProcessEstablished(s, m, cwnd)
           [] s.state \in {"FIN_WAIT_1", "FIN_WAIT_2", "CLOSE_WAIT"} ->
                ProcessWait(s, m, cwnd)
           [] s.state = "CLOSING" -> ProcessClosing(s, m)
           [] s.state = "LAST_ACK" -> ProcessLastAck(s, m)
           [] OTHER -> s

(***************************************************************************)
(* Timers                                                                  *)
(***************************************************************************)

\* Mutant: the retries are not counted.
ReTxTimeoutUncounted(s) ==
    IF TxSize(s) = 0
    THEN IF s.state \in {"FIN_WAIT_1", "CLOSING"} THEN SendEmptyPacket(s, "FIN+ACK") ELSE s
    ELSE SendPendingData([s EXCEPT !.recover = s.highTx,
                                   !.lost = s.head .. s.highTx - 1], 1)

ReTxTimeout(s) ==
    CASE TxSize(s) = 0 ->
            IF s.state \in {"FIN_WAIT_1", "CLOSING"}
            THEN SendEmptyPacket(s, "FIN+ACK") ELSE s
      [] TxSize(s) > 0 /\ s.dataRetrCount = 0 -> DeallocateEndPoint(s)
      [] OTHER ->
            SendPendingData([s EXCEPT !.dataRetrCount = @ - 1,
                                      !.recover = s.highTx,
                                      !.lost = s.head .. s.highTx - 1], 1)

\* m_retxEvent: the data timer, or a SYN or FIN that is sent once more.
RetxExpired(s) ==
    LET t == [s EXCEPT !.retx = "off"]
    IN  IF s.retx = "rto" THEN ReTxTimeout(t) ELSE SendEmptyPacket(t, s.retx)

DelAckTimeout(s) ==
    SendEmptyPacket([s EXCEPT !.delAck = FALSE, !.delAckCount = 0], "ACK")

LastAckTimeout(s) ==
    LET t == [s EXCEPT !.lastAck = FALSE]
    IN  IF s.state # "LAST_ACK" THEN t
        ELSE IF s.dataRetrCount = 0 THEN DeallocateEndPoint(t)
        ELSE [SendEmptyPacket([t EXCEPT !.dataRetrCount = @ - 1], "FIN+ACK")
                EXCEPT !.lastAck = TRUE]

(***************************************************************************)
(* Actions                                                                 *)
(***************************************************************************)

\* Segments join those in flight as long as there is room.
Queue(flight, out) ==
    LET room == Bigger(0, Capacity - Cardinality(flight))
    IN  flight \cup ToSet(SubSeq(out, 1, Lesser(room, Len(out))))

Becomes(x, s) ==
    /\ sock' = [sock EXCEPT ![x] = [s EXCEPT !.out = <<>>]]
    /\ UNCHANGED losses

Step(x, s) ==
    /\ Becomes(x, s)
    /\ net' = [net EXCEPT ![Peer(x)] = Queue(@, s.out)]

Connect(x) ==
    /\ x = Client /\ sock[x] = NewSocket
    /\ Step(x, [SendEmptyPacket([sock[x] EXCEPT !.endPoint = TRUE,
                                               !.synCount = SynRetries,
                                               !.dataRetrCount = DataRetries],
                                "SYN")
                EXCEPT !.state = "SYN_SENT"])

\* An application holds a socket it connected, or was handed by
\* NotifyNewConnectionCreated, until it is told that it is closed.
Holds(x) == sock[x].endPoint /\ (x = Client \/ sock[x].connected)

\* Data is added before m_shutdownSend is looked at.
Send(x) ==
    /\ Holds(x) /\ ~ sock[x].closed
    /\ sock[x].state \in {"ESTABLISHED", "SYN_SENT", "CLOSE_WAIT"}
    /\ sock[x].written < Writes[x]
    /\ \E cwnd \in CWnd :
        LET s == [sock[x] EXCEPT !.tail = @ + 1, !.written = @ + 1,
                                 !.behind = @ \/ sock[x].shutdownSend]
        IN  Step(x, [s EXCEPT !.sendPending =
                        \/ @
                        \/ /\ ~ s.shutdownSend
                           /\ s.state # "SYN_SENT"
                           /\ cwnd > InFlight(s)])

SendPendingEvent(x) ==
    /\ sock[x].sendPending
    /\ \E cwnd \in CWnd :
        Step(x, SendPendingData([sock[x] EXCEPT !.sendPending = FALSE], cwnd))

AppClose(x) ==
    /\ Holds(x) /\ ~ sock[x].closed
    /\ Step(x, Close([sock[x] EXCEPT !.closed = TRUE]))

AppShutdownSend(x) ==
    /\ x \in Shutters /\ Holds(x) /\ ~ sock[x].closed /\ ~ sock[x].shutdownSend
    /\ Step(x, ShutdownSend(sock[x]))

RetxTimer(x) == sock[x].retx # "off" /\ Step(x, RetxExpired(sock[x]))
DelAckTimer(x) == sock[x].delAck /\ Step(x, DelAckTimeout(sock[x]))
LastAckTimer(x) == sock[x].lastAck /\ Step(x, LastAckTimeout(sock[x]))
TimeWaitTimer(x) ==
    /\ sock[x].state = "TIME_WAIT" /\ sock[x].endPoint
    /\ Step(x, CloseAndNotify(sock[x]))

\* CompleteFork of a copy of the listening socket.
CompleteFork(m) ==
    SendEmptyPacket([NewSocket EXCEPT !.endPoint = TRUE,
                                      !.state = "SYN_RCVD",
                                      !.synCount = SynRetries,
                                      !.dataRetrCount = DataRetries,
                                      !.nextRx = m.seq + 1], "SYN+ACK")

\* TcpL4Protocol answers for the client once its end point is gone; on the
\* other side the listener is found, which forks on a SYN and ignores the rest.
NoEndPoint(x, m) ==
    IF x = Client
    THEN IF m.flags = "RST" THEN sock[x] ELSE Transmit(sock[x], "RST", 0, 0)
    ELSE IF m.flags = "SYN" /\ sock[x] = NewSocket THEN CompleteFork(m)
    ELSE sock[x]

Deliver(x, m, cwnd) ==
    LET s == IF sock[x].endPoint THEN ForwardUp(sock[x], m, cwnd)
             ELSE NoEndPoint(x, m)
    IN  /\ Becomes(x, s)
        /\ net' = [net EXCEPT ![x] = @ \ {m},
                              ![Peer(x)] = Queue(@, s.out)]

Receive(x) == \E m \in net[x], cwnd \in CWnd : Deliver(x, m, cwnd)

Lose(x) ==
    /\ losses < MaxLosses
    /\ losses' = losses + 1
    /\ \E m \in net[x] : net' = [net EXCEPT ![x] = @ \ {m}]
    /\ UNCHANGED sock

Next ==
    \E x \in Sockets :
        \/ Connect(x) \/ Send(x) \/ SendPendingEvent(x)
        \/ AppClose(x) \/ AppShutdownSend(x)
        \/ RetxTimer(x) \/ DelAckTimer(x) \/ LastAckTimer(x) \/ TimeWaitTimer(x)
        \/ Receive(x) \/ Lose(x)

Spec == Init /\ [][Next]_vars

(***************************************************************************)
(* Properties                                                              *)
(***************************************************************************)

\* Every counter stays within its attribute and the send buffer is an interval
\* that holds what was marked lost.
SocketOK(s) ==
    /\ s.state \in State
    /\ s.retx \in Flags \cup {"off", "rto"}
    /\ s.synCount \in 0..SynRetries
    /\ s.dataRetrCount \in 0..DataRetries
    /\ s.delAckCount \in 0..DelAckMaxCount
    /\ s.lost \subseteq s.head .. s.highTx - 1
    /\ s.head <= s.tail /\ s.highTx <= s.tail
    /\ s.out = <<>>
TypeOK ==
    /\ \A x \in Sockets : SocketOK(sock[x])
    /\ \A x \in Sockets, m \in UNION {net[y] : y \in Sockets} :
        m.flags \in Flags /\ m.len \in {0, 1}
    /\ losses \in 0..MaxLosses

\* A sender discards a segment (DiscardUpTo) only when the other socket has
\* received it, in whatever order segments and acknowledgments arrive.  The
\* exception is a sender with data behind its FIN: the acknowledgment of the FIN
\* is taken for one of the segment that has the same sequence number.
AckedIsReceived ==
    \A x \in Sockets :
        sock[x].connected /\ ~ sock[x].behind =>
            1 .. Lesser(sock[x].written, sock[x].head - 1) \subseteq sock[Peer(x)].taken

\* A socket that takes the FIN for received (Finished) holds everything the
\* other application wrote, even though the FIN may overtake data and
\* ProcessWait remembers it at the wrong sequence number, and what it keeps back
\* lies beyond a gap.  The exception is a sender that numbered a FIN below data
\* it has yet to send again, or took data after ShutdownSend (behind).
\* FIN_WAIT_2 is entered only when the other socket has taken the FIN for
\* received.
EofAfterAllData ==
    \A x \in Sockets :
        /\ ~ sock[Peer(x)].behind =>
              /\ Finished(sock[x]) => 1 .. sock[Peer(x)].written \subseteq sock[x].taken
              /\ \A q \in sock[x].held : q > sock[x].nextRx
        /\ sock[x].state = "FIN_WAIT_2" => Finished(sock[Peer(x)])

\* tcp-rx-buffer.h:134 says that Finished tells whether the buffer "did receive
\* all the data".  It does not: SendEmptyPacket numbers a repeated FIN with
\* m_nextTxSequence, which a timeout has moved back before data still to be
\* sent again.
FinishedHasAllData ==
    \A x \in Sockets :
        Finished(sock[x]) => 1 .. sock[Peer(x)].written \subseteq sock[x].taken

\* While a SYN, a FIN or data waits for its acknowledgment a timer is running
\* that will send it again: no reset, early return or cancelled event of the
\* handlers leaves a connection silent.  TIME_WAIT has given up its data.
Awaits(s) ==
    \/ s.state \in {"SYN_SENT", "SYN_RCVD", "FIN_WAIT_1", "LAST_ACK", "CLOSING"}
    \/ s.highTx > s.head /\ s.state # "TIME_WAIT"
RetransmissionCovered ==
    \A x \in Sockets :
        sock[x].endPoint /\ Awaits(sock[x]) => sock[x].retx # "off" \/ sock[x].lastAck

\* Both sockets are consistent.
Consistent == TypeOK /\ RetransmissionCovered

\* The forked socket is connected only after the client is, and the client only
\* after the SYN was received, whatever was retransmitted or lost.
HandshakeAgrees ==
    /\ sock[Server].connected => sock[Client].connected
    /\ sock[Client].connected => sock[Server].nextRx > 0

\* The state machine of the Process functions never moves backwards: the pairs
\* below are every move the handlers make, the two from FIN_WAIT to CLOSE_WAIT
\* and LAST_ACK (an out-of-order FIN completed after Close) included.
Moves ==
    {"CLOSED"} \X {"SYN_SENT", "SYN_RCVD"}
    \cup {"SYN_SENT"} \X {"ESTABLISHED", "FIN_WAIT_1", "CLOSED"}
    \cup {"SYN_RCVD"} \X {"ESTABLISHED", "CLOSE_WAIT", "CLOSED"}
    \cup {"ESTABLISHED"} \X {"FIN_WAIT_1", "CLOSE_WAIT", "LAST_ACK", "CLOSED"}
    \cup {"FIN_WAIT_1"} \X {"FIN_WAIT_2", "CLOSING", "TIME_WAIT", "CLOSE_WAIT",
                            "LAST_ACK", "CLOSED"}
    \cup {"FIN_WAIT_2"} \X {"TIME_WAIT", "CLOSE_WAIT", "LAST_ACK", "CLOSED"}
    \cup {"CLOSE_WAIT"} \X {"LAST_ACK", "CLOSED"}
    \cup {"CLOSING"} \X {"TIME_WAIT", "CLOSED"}
    \cup {"LAST_ACK", "TIME_WAIT"} \X {"CLOSED"}
NeverBackwards ==
    [][\A x \in Sockets :
        LET from == sock[x].state
            to == sock'[x].state
        IN  to # from => /\ <<from, to>> \in Moves
                         /\ from = "CLOSED" => sock[x] = NewSocket]_vars
=============================================================================
