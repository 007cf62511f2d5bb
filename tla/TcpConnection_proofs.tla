------------------------ MODULE TcpConnection_proofs ------------------------
(***************************************************************************)
(* Proofs about TcpConnection for every number of writes, every window,    *)
(* capacity and retry limit: the types and the timers (Consistent), that   *)
(* the state machine never moves backwards, that both ends agree on the    *)
(* handshake, that nothing is discarded which the other end has not        *)
(* stored, and that the end of the data comes after the data.              *)
(*                                                                         *)
(* The first part follows from what one socket guarantees whatever segment *)
(* arrives and whatever timer expires; the network only contributes that   *)
(* who acknowledges was connected.  There is one lemma per handler, in the *)
(* order of the handlers: a handler given a Sound socket returns one, and  *)
(* moves its state as the lemma says.                                      *)
(*                                                                         *)
(* The second part, on data, goes through the handlers once more, with the *)
(* peer in view: a handler Keeps what the two sockets know of each other,  *)
(* because all that either relies on in the other only grows, and what a   *)
(* segment under way says therefore stays true.                            *)
(***************************************************************************)
EXTENDS TcpConnection, FiniteSetTheorems, WellFoundedInduction, SequenceTheorems, TLAPS

-----------------------------------------------------------------------------
(* Facts about numbers and sequences *)

\* A set of naturals, unless it is empty, has a least element.
LEMMA Least ==
    ASSUME NEW S \in SUBSET Nat, S # {}
    PROVE  \E m \in S : \A n \in S : m <= n
  <1> DEFINE Less == {p \in Nat \X Nat : p[1] < p[2]}
  <1>1. IsWellFoundedOn(Less, Nat)
    BY NatLessThanWellFounded DEF OpToRel
  <1> HIDE DEF Less
  <1>2. PICK m \in S : \A n \in S : ~(<<n, m>> \in Less)
    BY <1>1, WFMin
  <1>3. \A n \in S : ~(n < m)
    BY <1>2 DEF Less
  <1> QED
    BY <1>3

\* Induction: a set of naturals with 0 and with n + 1 for each n holds all.
LEMMA Induct ==
    ASSUME NEW S \in SUBSET Nat, 0 \in S, \A n \in S : n + 1 \in S
    PROVE  S = Nat
  <1> SUFFICES ASSUME Nat \ S # {} PROVE FALSE
    OBVIOUS
  <1>1. PICK m \in Nat \ S : \A n \in Nat \ S : m <= n
    BY Least
  <1>2. m # 0 /\ m - 1 \in Nat
    BY <1>1
  <1>3. m - 1 \in S
    BY <1>1, <1>2
  <1> QED
    BY <1>1, <1>2, <1>3

\* A part of a sequence.
LEMMA SubSeqFacts ==
    ASSUME NEW S, NEW s \in Seq(S), NEW m \in 1..(Len(s) + 1), NEW n \in 0..Len(s), m <= n + 1
    PROVE  /\ SubSeq(s, m, n) \in Seq(S)
           /\ Len(SubSeq(s, m, n)) = n - m + 1
           /\ \A i \in 1..(n - m + 1) : SubSeq(s, m, n)[i] = s[m + i - 1]
  <1>1. Len(s) \in Nat /\ m \in Nat \ {0} /\ n \in Nat
    OBVIOUS
  <1>2. \A i \in m..n : s[i] \in S
    <2>1. \A i \in 1..Len(s) : s[i] \in S
      OBVIOUS
    <2> QED
      BY <1>1, <2>1
  <1>3. SubSeq(s, m, n) \in Seq(S)
    BY <1>1, <1>2
  <1>4. Len(SubSeq(s, m, n)) = n - m + 1
    BY <1>1
  <1>5. \A i \in 1..(n - m + 1) : SubSeq(s, m, n)[i] = s[m + i - 1]
    BY <1>1
  <1> QED
    BY <1>3, <1>4, <1>5

-----------------------------------------------------------------------------

Segments == [flags : Flags, seq : Nat, ack : Nat, len : {0, 1}]

Retx == Flags \cup {"off", "rto"}

Number == Nat
Numbers == SUBSET Nat
Finish == Nat \cup {None}
SynCount == 0..SynRetries
DataRetrCount == 0..DataRetries
DelAckCount == 0..DelAckMaxCount
Out == Seq(Segments)
SocketType ==
    [state : State, endPoint : BOOLEAN, connected : BOOLEAN,
     head : Number, tail : Number, nextTx : Number, highTx : Number, lost : Numbers,
     recover : Number, nextRx : Number, held : Numbers, fin : Finish,
     synCount : SynCount, dataRetrCount : DataRetrCount, retx : Retx,
     lastAck : BOOLEAN, delAck : BOOLEAN, delAckCount : DelAckCount,
     sendPending : BOOLEAN, closeOnEmpty : BOOLEAN, shutdownSend : BOOLEAN,
     written : Number, closed : BOOLEAN, taken : Numbers, behind : BOOLEAN,
     out : Out]

\* A socket without its end point has no timer running.
Quiet(s) ==
    ~ s.endPoint => s.retx = "off" /\ ~ s.lastAck /\ ~ s.delAck /\ ~ s.sendPending

\* The buffers of a socket: the send buffer is an interval that holds what was
\* marked lost, and m_nextTxSequence is not before its head.
Buffers(s) ==
    /\ s.lost \subseteq s.head .. s.highTx - 1
    /\ s.head <= s.tail /\ s.highTx <= s.tail /\ s.head <= s.nextTx
    /\ IsFiniteSet(s.held)

\* The application has not closed and is not going to.
Open(s) == ~ s.closeOnEmpty /\ ~ s.shutdownSend

\* What holds of a connected socket besides.
Live(s) ==
    /\ s.connected /\ s.highTx >= 1 /\ s.nextRx >= 1
    /\ s.retx \in {"off", "rto", "FIN+ACK"}
    /\ s.closeOnEmpty => s.closed \/ s.shutdownSend

\* The timers of a socket with an end point: data under way and a FIN of
\* FIN_WAIT_1 or CLOSING have one; in ESTABLISHED the data timer runs only while
\* there is data, so that a FIN starts a timer of its own.
Timed(s) == s.endPoint =>
    /\ s.state \notin {"CLOSED", "LISTEN", "SYN_SENT"}
    /\ s.state = "SYN_RCVD" => s.retx = "off"
    /\ s.state \in {"FIN_WAIT_1", "CLOSING"} => s.retx # "off"
    /\ s.state \in {"FIN_WAIT_1", "FIN_WAIT_2", "CLOSING"} => s.closed \/ s.shutdownSend
    /\ s.highTx > s.head /\ s.state # "TIME_WAIT" => s.retx # "off"
    /\ s.state = "ESTABLISHED" => s.retx = "off" \/ (s.retx = "rto" /\ s.head < s.tail)

\* Why a FIN of LAST_ACK is sent again: by the event of that state, by its own
\* timer, or by the data timer as long as there is data.  A data timer that
\* outlives the data into CLOSE_WAIT is that of an application that closed.
Repeats(s) == s.endPoint =>
    /\ s.state = "LAST_ACK" =>
          s.lastAck \/ s.retx = "FIN+ACK" \/ (s.retx = "rto" /\ s.head < s.tail)
    /\ s.state = "CLOSE_WAIT" /\ s.retx = "rto" => s.head < s.tail \/ s.closed

Sane(s) == s \in SocketType /\ Quiet(s) /\ Buffers(s) /\ Live(s) /\ Timed(s)

Sound(s) == Sane(s) /\ Repeats(s)

\* A socket that took no part in a handshake yet: nothing was sent or received
\* but SYNs.
Blank(s) ==
    /\ s \in SocketType /\ Quiet(s) /\ ~ s.connected
    /\ s.head = 0 /\ s.nextTx = 0 /\ s.highTx = 0 /\ s.lost = {} /\ s.held = {}
    /\ s.recover = 0 /\ s.fin = None
    /\ ~ s.lastAck /\ ~ s.delAck /\ ~ s.sendPending
    /\ s.closeOnEmpty => s.closed \/ s.shutdownSend

\* Between events the SYN, or the answer to one, runs under a timer.
Fresh(x, s) ==
    /\ Blank(s)
    /\ \/ s.state = "CLOSED" /\ ~ s.endPoint
       \/ s.state = "SYN_SENT" /\ x = Client /\ (s.endPoint => s.retx = "SYN")
       \/ /\ s.state = "SYN_RCVD" /\ x = Server /\ (s.endPoint => s.retx = "SYN+ACK")
          /\ s.nextRx >= 1 /\ Open(s)

\* A socket between events.
Settled(x, s) ==
    /\ s.out = <<>>
    /\ ~ s.connected => Fresh(x, s)
    /\ s.connected => Sound(s) /\ s.state \notin {"SYN_SENT", "SYN_RCVD"}

\* Whoever acknowledges is connected, and a SYN+ACK answers a SYN.
NetOK ==
    /\ net \in [Sockets -> SUBSET Segments]
    /\ \A x \in Sockets : IsFiniteSet(net[x])
    /\ \A m \in net[Server] : m.flags \in {"ACK", "FIN+ACK"} => sock[Client].connected
    /\ \A m \in net[Client] :
          m.flags \in {"SYN+ACK", "ACK", "FIN+ACK"} => sock[Server].nextRx >= 1

IInv ==
    /\ DOMAIN sock = Sockets
    /\ \A x \in Sockets : Settled(x, sock[x])
    /\ NetOK
    /\ HandshakeAgrees
    /\ losses \in 0..MaxLosses

-----------------------------------------------------------------------------
(* Segments and buffers *)

\* A socket with one member changed.
LEMMA Update ==
    /\ \A s \in SocketType, v \in State : [s EXCEPT !.state = v] \in SocketType
    /\ \A s \in SocketType, v \in BOOLEAN : [s EXCEPT !.endPoint = v] \in SocketType
    /\ \A s \in SocketType, v \in BOOLEAN : [s EXCEPT !.connected = v] \in SocketType
    /\ \A s \in SocketType, v \in Nat : [s EXCEPT !.head = v] \in SocketType
    /\ \A s \in SocketType, v \in Nat : [s EXCEPT !.tail = v] \in SocketType
    /\ \A s \in SocketType, v \in Nat : [s EXCEPT !.nextTx = v] \in SocketType
    /\ \A s \in SocketType, v \in Nat : [s EXCEPT !.highTx = v] \in SocketType
    /\ \A s \in SocketType, v \in SUBSET Nat : [s EXCEPT !.lost = v] \in SocketType
    /\ \A s \in SocketType, v \in Nat : [s EXCEPT !.recover = v] \in SocketType
    /\ \A s \in SocketType, v \in Nat : [s EXCEPT !.nextRx = v] \in SocketType
    /\ \A s \in SocketType, v \in SUBSET Nat : [s EXCEPT !.held = v] \in SocketType
    /\ \A s \in SocketType, v \in Nat \cup {None} : [s EXCEPT !.fin = v] \in SocketType
    /\ \A s \in SocketType, v \in 0..SynRetries : [s EXCEPT !.synCount = v] \in SocketType
    /\ \A s \in SocketType, v \in 0..DataRetries : [s EXCEPT !.dataRetrCount = v] \in SocketType
    /\ \A s \in SocketType, v \in Retx : [s EXCEPT !.retx = v] \in SocketType
    /\ \A s \in SocketType, v \in BOOLEAN : [s EXCEPT !.lastAck = v] \in SocketType
    /\ \A s \in SocketType, v \in BOOLEAN : [s EXCEPT !.delAck = v] \in SocketType
    /\ \A s \in SocketType, v \in 0..DelAckMaxCount : [s EXCEPT !.delAckCount = v] \in SocketType
    /\ \A s \in SocketType, v \in BOOLEAN : [s EXCEPT !.sendPending = v] \in SocketType
    /\ \A s \in SocketType, v \in BOOLEAN : [s EXCEPT !.closeOnEmpty = v] \in SocketType
    /\ \A s \in SocketType, v \in BOOLEAN : [s EXCEPT !.shutdownSend = v] \in SocketType
    /\ \A s \in SocketType, v \in Nat : [s EXCEPT !.written = v] \in SocketType
    /\ \A s \in SocketType, v \in BOOLEAN : [s EXCEPT !.closed = v] \in SocketType
    /\ \A s \in SocketType, v \in SUBSET Nat : [s EXCEPT !.taken = v] \in SocketType
    /\ \A s \in SocketType, v \in BOOLEAN : [s EXCEPT !.behind = v] \in SocketType
    /\ \A s \in SocketType, v \in Seq(Segments) : [s EXCEPT !.out = v] \in SocketType
  <1>1. \A s \in SocketType, v \in State : [s EXCEPT !.state = v] \in SocketType
    BY DEF SocketType
  <1>2. \A s \in SocketType, v \in BOOLEAN : [s EXCEPT !.endPoint = v] \in SocketType
    BY DEF SocketType
  <1>3. \A s \in SocketType, v \in BOOLEAN : [s EXCEPT !.connected = v] \in SocketType
    BY DEF SocketType
  <1>4. \A s \in SocketType, v \in Number : [s EXCEPT !.head = v] \in SocketType
    BY DEF SocketType
  <1>5. \A s \in SocketType, v \in Number : [s EXCEPT !.tail = v] \in SocketType
    BY DEF SocketType
  <1>6. \A s \in SocketType, v \in Number : [s EXCEPT !.nextTx = v] \in SocketType
    BY DEF SocketType
  <1>7. \A s \in SocketType, v \in Number : [s EXCEPT !.highTx = v] \in SocketType
    BY DEF SocketType
  <1>8. \A s \in SocketType, v \in Numbers : [s EXCEPT !.lost = v] \in SocketType
    BY DEF SocketType
  <1>9. \A s \in SocketType, v \in Number : [s EXCEPT !.recover = v] \in SocketType
    BY DEF SocketType
  <1>10. \A s \in SocketType, v \in Number : [s EXCEPT !.nextRx = v] \in SocketType
    BY DEF SocketType
  <1>11. \A s \in SocketType, v \in Numbers : [s EXCEPT !.held = v] \in SocketType
    BY DEF SocketType
  <1>12. \A s \in SocketType, v \in Finish : [s EXCEPT !.fin = v] \in SocketType
    BY DEF SocketType
  <1>13. \A s \in SocketType, v \in SynCount : [s EXCEPT !.synCount = v] \in SocketType
    BY DEF SocketType
  <1>14. \A s \in SocketType, v \in DataRetrCount : [s EXCEPT !.dataRetrCount = v] \in SocketType
    BY DEF SocketType
  <1>15. \A s \in SocketType, v \in Retx : [s EXCEPT !.retx = v] \in SocketType
    BY DEF SocketType
  <1>16. \A s \in SocketType, v \in BOOLEAN : [s EXCEPT !.lastAck = v] \in SocketType
    BY DEF SocketType
  <1>17. \A s \in SocketType, v \in BOOLEAN : [s EXCEPT !.delAck = v] \in SocketType
    BY DEF SocketType
  <1>18. \A s \in SocketType, v \in DelAckCount : [s EXCEPT !.delAckCount = v] \in SocketType
    BY DEF SocketType
  <1>19. \A s \in SocketType, v \in BOOLEAN : [s EXCEPT !.sendPending = v] \in SocketType
    BY DEF SocketType
  <1>20. \A s \in SocketType, v \in BOOLEAN : [s EXCEPT !.closeOnEmpty = v] \in SocketType
    BY DEF SocketType
  <1>21. \A s \in SocketType, v \in BOOLEAN : [s EXCEPT !.shutdownSend = v] \in SocketType
    BY DEF SocketType
  <1>22. \A s \in SocketType, v \in Number : [s EXCEPT !.written = v] \in SocketType
    BY DEF SocketType
  <1>23. \A s \in SocketType, v \in BOOLEAN : [s EXCEPT !.closed = v] \in SocketType
    BY DEF SocketType
  <1>24. \A s \in SocketType, v \in Numbers : [s EXCEPT !.taken = v] \in SocketType
    BY DEF SocketType
  <1>25. \A s \in SocketType, v \in BOOLEAN : [s EXCEPT !.behind = v] \in SocketType
    BY DEF SocketType
  <1>26. \A s \in SocketType, v \in Out : [s EXCEPT !.out = v] \in SocketType
    BY DEF SocketType
  <1> QED
    BY <1>1, <1>2, <1>3, <1>4, <1>5, <1>6, <1>7, <1>8, <1>9, <1>10, <1>11, <1>12, <1>13, <1>14, <1>15, <1>16, <1>17, <1>18, <1>19, <1>20, <1>21, <1>22, <1>23, <1>24, <1>25, <1>26
       DEF Number, Numbers, Finish, SynCount, DataRetrCount, DelAckCount, Out

\* The members of a socket.
LEMMA Fields ==
    ASSUME NEW s \in SocketType
    PROVE  /\ s.state \in State /\ s.retx \in Retx
           /\ s.head \in Nat /\ s.tail \in Nat /\ s.nextTx \in Nat /\ s.highTx \in Nat
           /\ s.lost \in SUBSET Nat /\ s.recover \in Nat
           /\ s.nextRx \in Nat /\ s.held \in SUBSET Nat /\ s.fin \in Nat \cup {None}
           /\ s.taken \in SUBSET Nat /\ s.written \in Nat
           /\ s.synCount \in 0..SynRetries /\ s.dataRetrCount \in 0..DataRetries
           /\ s.delAckCount \in 0..DelAckMaxCount
           /\ s.endPoint \in BOOLEAN /\ s.connected \in BOOLEAN
           /\ s.lastAck \in BOOLEAN /\ s.delAck \in BOOLEAN /\ s.sendPending \in BOOLEAN
           /\ s.closeOnEmpty \in BOOLEAN /\ s.shutdownSend \in BOOLEAN
           /\ s.closed \in BOOLEAN /\ s.behind \in BOOLEAN
           /\ s.out \in Seq(Segments)
  <1>1. /\ s.state \in State /\ s.retx \in Retx
        /\ s.head \in Number /\ s.tail \in Number /\ s.nextTx \in Number /\ s.highTx \in Number
        /\ s.lost \in Numbers /\ s.recover \in Number
        /\ s.nextRx \in Number /\ s.held \in Numbers /\ s.fin \in Finish
        /\ s.taken \in Numbers /\ s.written \in Number
        /\ s.synCount \in SynCount /\ s.dataRetrCount \in DataRetrCount
        /\ s.delAckCount \in DelAckCount
    BY DEF SocketType
  <1>2. /\ s.endPoint \in BOOLEAN /\ s.connected \in BOOLEAN
        /\ s.lastAck \in BOOLEAN /\ s.delAck \in BOOLEAN /\ s.sendPending \in BOOLEAN
        /\ s.closeOnEmpty \in BOOLEAN /\ s.shutdownSend \in BOOLEAN
        /\ s.closed \in BOOLEAN /\ s.behind \in BOOLEAN /\ s.out \in Out
    BY DEF SocketType
  <1> QED
    BY <1>1, <1>2 DEF Number, Numbers, Finish, SynCount, DataRetrCount, DelAckCount, Out

LEMMA TransmitType ==
    ASSUME NEW s \in SocketType, NEW flags \in Flags, NEW seq \in Nat, NEW len \in {0, 1}
    PROVE  /\ Transmit(s, flags, seq, len) \in SocketType
           /\ Transmit(s, flags, seq, len) = [s EXCEPT !.out = Transmit(s, flags, seq, len).out]
  <1> DEFINE m == IF flags = "RST"
                  THEN [flags |-> flags, seq |-> 0, ack |-> 0, len |-> 0]
                  ELSE [flags |-> flags, seq |-> seq, ack |-> s.nextRx, len |-> len]
  <1>1. m \in Segments
    BY Fields DEF Segments
  <1>2. Append(s.out, m) \in Seq(Segments)
    BY <1>1, Fields
  <1>3. Transmit(s, flags, seq, len) = [s EXCEPT !.out = Append(@, m)]
    BY DEF Transmit
  <1> HIDE DEF m
  <1>4. Transmit(s, flags, seq, len).out = Append(s.out, m)
    BY <1>3 DEF SocketType
  <1>5. \A z \in SocketType, v \in Seq(Segments) : [z EXCEPT !.out = v] \in SocketType
    BY Update
  <1> QED
    BY <1>2, <1>3, <1>4, <1>5

\* What the handlers that only send and stop timers leave alone.
Same(s, t) ==
    /\ t.head = s.head /\ t.tail = s.tail /\ t.nextTx = s.nextTx /\ t.highTx = s.highTx
    /\ t.lost = s.lost /\ t.recover = s.recover
    /\ t.nextRx = s.nextRx /\ t.held = s.held /\ t.fin = s.fin
    /\ t.connected = s.connected /\ t.closed = s.closed
    /\ t.closeOnEmpty = s.closeOnEmpty /\ t.shutdownSend = s.shutdownSend
    /\ t.dataRetrCount = s.dataRetrCount
    /\ t.taken = s.taken /\ t.written = s.written

\* DeallocateEndPoint stops the timers and touches nothing else.
LEMMA DeallocateEndPointFacts ==
    ASSUME NEW s \in SocketType, Quiet(s)
    PROVE  LET t == DeallocateEndPoint(s)
           IN  /\ t \in SocketType /\ Same(s, t) /\ t.state = s.state /\ t.out = s.out
               /\ t.behind = s.behind /\ ~ t.endPoint /\ Quiet(t)
  <1> DEFINE t == DeallocateEndPoint(s)
  <1>1. CASE ~ s.endPoint
    BY <1>1 DEF DeallocateEndPoint, Same
  <1>2. CASE s.endPoint
    <2>1. t = [s EXCEPT !.endPoint = FALSE, !.retx = "off", !.lastAck = FALSE,
                        !.delAck = FALSE, !.sendPending = FALSE]
      BY <1>2 DEF DeallocateEndPoint
    <2> HIDE DEF t
    <2>2. t \in SocketType
      <3> DEFINE a == [s EXCEPT !.endPoint = FALSE]
                 b == [a EXCEPT !.retx = "off"]
                 c == [b EXCEPT !.lastAck = FALSE]
                 d == [c EXCEPT !.delAck = FALSE]
                 e == [d EXCEPT !.sendPending = FALSE]
      <3>1. t = e
        BY <2>1
      <3>2. a \in SocketType
        BY Update
      <3> HIDE DEF a
      <3>3. b \in SocketType
        BY <3>2, Update DEF Retx
      <3> HIDE DEF b
      <3>4. c \in SocketType
        BY <3>3, Update
      <3> HIDE DEF c
      <3>5. d \in SocketType
        BY <3>4, Update
      <3> HIDE DEF d
      <3>6. e \in SocketType
        BY <3>5, Update
      <3> HIDE DEF e
      <3> QED
        BY <3>1, <3>6
    <2>3. Same(s, t) /\ t.state = s.state /\ t.out = s.out /\ t.behind = s.behind
      BY <2>1 DEF SocketType, Same
    <2>4. ~ t.endPoint /\ Quiet(t)
      BY <2>1 DEF SocketType, Quiet
    <2> QED
      BY <2>2, <2>3, <2>4 DEF t
  <1> QED
    BY <1>1, <1>2

LEMMA CloseAndNotifyFacts ==
    ASSUME NEW s \in SocketType, Quiet(s)
    PROVE  LET t == CloseAndNotify(s)
           IN  /\ t \in SocketType /\ Same(s, t) /\ t.state = "CLOSED" /\ t.out = s.out
               /\ t.behind = s.behind /\ ~ t.endPoint /\ Quiet(t)
  <1> DEFINE u == [s EXCEPT !.state = "CLOSED"]
  <1>1. u \in SocketType /\ Quiet(u) /\ Same(s, u) /\ u.state = "CLOSED" /\ u.out = s.out
        /\ u.behind = s.behind
    BY DEF SocketType, Quiet, Same, State
  <1> HIDE DEF u
  <1>2. CloseAndNotify(s) = DeallocateEndPoint(u)
    BY DEF CloseAndNotify, u
  <1> QED
    BY <1>1, <1>2, DeallocateEndPointFacts DEF Same

\* The timer of m_retxEvent after SendEmptyPacket.
Armed(s, flags) ==
    IF s.retx = "off" /\ flags \in {"SYN", "SYN+ACK", "FIN+ACK"} THEN flags ELSE s.retx

\* The empty segments of a socket: they acknowledge what it received, and only
\* an acknowledgment counts a FIN that was sent.
Empty(s, flags, m) ==
    /\ m \in Segments /\ m.flags = flags /\ m.len = 0 /\ m.ack <= s.nextRx
    /\ flags = "FIN+ACK" \/ (flags # "RST" /\ s.state \notin {"FIN_WAIT_1", "LAST_ACK", "CLOSING"})
          => m.seq = s.nextTx

\* SendEmptyPacket without an end point does nothing; a SYN too many closes the
\* socket; otherwise it emits one segment with these flags and arms the timer.
LEMMA SendEmptyPacketFacts ==
    ASSUME NEW s \in SocketType, NEW flags \in Flags, Quiet(s)
    PROVE  LET t == SendEmptyPacket(s, flags)
           IN  /\ t \in SocketType /\ Quiet(t) /\ Same(s, t)
               /\ ~ s.endPoint => t = s
               /\ s.endPoint /\ flags \in {"SYN", "SYN+ACK"} /\ s.synCount = 0 =>
                     /\ t.state = "CLOSED" /\ ~ t.endPoint /\ t.out = s.out
                     /\ t.behind = s.behind
               /\ s.endPoint /\ ~ (flags \in {"SYN", "SYN+ACK"} /\ s.synCount = 0) =>
                     /\ t.state = s.state /\ t.endPoint
                     /\ t.retx = Armed(s, flags) /\ t.lastAck = s.lastAck
                     /\ t.sendPending = s.sendPending /\ (t.delAck => s.delAck)
                     /\ t.behind = (s.behind \/ (flags = "FIN+ACK" /\ s.nextTx < s.tail))
                     /\ \E m : Empty(s, flags, m) /\ t.out = Append(s.out, m)
  <1> DEFINE syn == flags \in {"SYN", "SYN+ACK"}
             seq == IF flags # "FIN+ACK" /\ s.state \in {"FIN_WAIT_1", "LAST_ACK", "CLOSING"}
                    THEN s.nextTx + 1 ELSE s.nextTx
             u == Transmit(s, flags, seq, 0)
             t == SendEmptyPacket(s, flags)
  <1>1. CASE ~ s.endPoint
    BY <1>1 DEF SendEmptyPacket, Same
  <1>2. CASE s.endPoint /\ syn /\ s.synCount = 0
    <2>1. t = CloseAndNotify(s)
      BY <1>2 DEF SendEmptyPacket, CloseAndNotify
    <2> QED
      BY <1>2, <2>1, CloseAndNotifyFacts
  <1>3. CASE s.endPoint /\ ~ (syn /\ s.synCount = 0)
    <2>1. seq \in Nat
      BY Fields
    <2>2. /\ u \in SocketType /\ u = [s EXCEPT !.out = u.out]
          /\ \E m : Empty(s, flags, m) /\ u.out = Append(s.out, m)
      <3> DEFINE m == IF flags = "RST"
                      THEN [flags |-> flags, seq |-> 0, ack |-> 0, len |-> 0]
                      ELSE [flags |-> flags, seq |-> seq, ack |-> s.nextRx, len |-> 0]
      <3>1. Empty(s, flags, m)
        BY <2>1, Fields DEF Segments, Empty
      <3>2. u = [s EXCEPT !.out = Append(@, m)]
        BY DEF Transmit
      <3>3. u.out = Append(s.out, m)
        BY <3>2 DEF SocketType
      <3> QED
        BY <2>1, <3>1, <3>3, TransmitType
    <2> HIDE DEF u, seq
    <2> DEFINE acks == flags \in {"SYN+ACK", "ACK", "FIN+ACK"}
               n == IF syn THEN s.synCount - 1 ELSE s.synCount
               d == s.delAck /\ ~ acks
               c == IF acks THEN 0 ELSE s.delAckCount
               r == IF s.retx = "off" /\ (syn \/ flags = "FIN+ACK") THEN flags ELSE s.retx
               b == s.behind \/ (flags = "FIN+ACK" /\ s.nextTx < s.tail)
    <2>3. t = [u EXCEPT !.synCount = n, !.delAck = d, !.delAckCount = c, !.retx = r,
                        !.behind = b]
      <3>1. /\ u.synCount = s.synCount /\ u.delAck = s.delAck /\ u.retx = s.retx
            /\ u.delAckCount = s.delAckCount /\ u.behind = s.behind
        BY <2>2 DEF SocketType
      <3>2. t = [u EXCEPT
                  !.synCount = IF syn THEN u.synCount - 1 ELSE u.synCount,
                  !.delAck = u.delAck /\ ~ acks,
                  !.delAckCount = IF acks THEN 0 ELSE u.delAckCount,
                  !.retx = IF u.retx = "off" /\ (syn \/ flags = "FIN+ACK")
                           THEN flags ELSE u.retx,
                  !.behind = u.behind \/ (flags = "FIN+ACK" /\ s.nextTx < s.tail)]
        BY <1>3 DEF SendEmptyPacket, u, seq
      <3> QED
        BY <3>1, <3>2
    <2>4. n \in 0..SynRetries
      BY <1>3, TcpAssumption, Fields
    <2>5. c \in 0..DelAckMaxCount
      BY TcpAssumption, Fields
    <2>6. d \in BOOLEAN /\ b \in BOOLEAN /\ (d => s.delAck)
      BY DEF SocketType
    <2>7. r \in Retx /\ r = Armed(s, flags)
      BY DEF SocketType, Retx, Armed
    <2> HIDE DEF t, n, c, d, b, r
    <2>8. t \in SocketType
      <3>1. u \in SocketType
        BY <2>2
      <3>2. d \in BOOLEAN /\ b \in BOOLEAN /\ r \in Retx
        BY <2>6, <2>7
      <3> QED
        BY <2>3, <2>4, <2>5, <3>1, <3>2, Update
    <2>9. Same(s, t)
      BY <2>2, <2>3 DEF SocketType, Same
    <2>10. /\ t.state = s.state /\ t.endPoint = s.endPoint /\ t.lastAck = s.lastAck
           /\ t.sendPending = s.sendPending /\ t.delAck = d /\ t.out = u.out
           /\ t.retx = r /\ t.behind = b
      BY <2>2, <2>3 DEF SocketType
    <2>11. Quiet(t)
      BY <1>3, <2>10 DEF Quiet
    <2> QED
      BY <1>3, <2>2, <2>6, <2>7, <2>8, <2>9, <2>10, <2>11 DEF t, b
  <1> QED
    BY <1>1, <1>2, <1>3
-----------------------------------------------------------------------------
(* Closing *)

\* The buffers do not change with what Same leaves open.
LEMMA SameKeeps ==
    ASSUME NEW s, NEW t, Same(s, t), Buffers(s), Live(s), t.retx \in {"off", "rto", "FIN+ACK"}
    PROVE  Buffers(t) /\ Live(t)
  BY DEF Same, Buffers, Live

\* A connected socket that sends an empty segment without FIN: nothing that
\* matters to its buffers, state and timers changes.
LEMMA SendEmptySound ==
    ASSUME NEW s, Sane(s), NEW flags \in {"ACK", "RST"}
    PROVE  LET t == SendEmptyPacket(s, flags)
           IN  /\ Sane(t) /\ (Repeats(s) => Repeats(t)) /\ Same(s, t)
               /\ t.state = s.state /\ t.endPoint = s.endPoint
               /\ t.retx = s.retx /\ t.lastAck = s.lastAck
  <1> DEFINE t == SendEmptyPacket(s, flags)
  <1>1. s \in SocketType /\ Quiet(s) /\ Buffers(s) /\ Live(s) /\ Timed(s) /\ flags \in Flags
    BY DEF Sane, Flags
  <1>2. /\ t \in SocketType /\ Quiet(t) /\ Same(s, t)
        /\ t.state = s.state /\ t.endPoint = s.endPoint
        /\ t.retx = s.retx /\ t.lastAck = s.lastAck
    <2>1. t \in SocketType /\ Quiet(t) /\ Same(s, t)
      BY <1>1, SendEmptyPacketFacts
    <2>2. CASE ~ s.endPoint
      BY <1>1, <2>1, <2>2, SendEmptyPacketFacts
    <2>3. CASE s.endPoint
      <3>1. t.state = s.state /\ t.endPoint /\ t.retx = Armed(s, flags) /\ t.lastAck = s.lastAck
        BY <1>1, <2>3, SendEmptyPacketFacts
      <3> QED
        BY <2>1, <2>3, <3>1 DEF Armed
    <2> QED
      BY <2>2, <2>3
  <1> HIDE DEF t
  <1>3. Buffers(t) /\ Live(t)
    BY <1>1, <1>2, SameKeeps DEF Live
  <1>4. Timed(t) /\ (Repeats(s) => Repeats(t))
    BY <1>1, <1>2 DEF Timed, Repeats, Same
  <1> QED
    BY <1>2, <1>3, <1>4 DEF Sane, t

\* SendRST gives up the end point.
LEMMA SendRSTFacts ==
    ASSUME NEW s, Sane(s)
    PROVE  LET t == SendRST(s)
           IN  Sound(t) /\ t.state = s.state /\ ~ t.endPoint
  <1> DEFINE u == SendEmptyPacket(s, "RST")
             t == DeallocateEndPoint(u)
  <1>1. Sane(u) /\ u.state = s.state
    BY SendEmptySound
  <1>2. u \in SocketType /\ Quiet(u) /\ Buffers(u) /\ Live(u)
    BY <1>1 DEF Sane
  <1> HIDE DEF u
  <1>3. t \in SocketType /\ Same(u, t) /\ t.state = u.state /\ ~ t.endPoint /\ Quiet(t)
    BY <1>2, DeallocateEndPointFacts
  <1> HIDE DEF t
  <1>4. Buffers(t) /\ Live(t)
    BY <1>2, <1>3, SameKeeps DEF Quiet
  <1>5. Timed(t) /\ Repeats(t)
    BY <1>3 DEF Timed, Repeats
  <1> QED
    BY <1>1, <1>3, <1>4, <1>5 DEF Sane, Sound, SendRST, u, t

LEMMA CloseAndNotifySound ==
    ASSUME NEW s, Sane(s)
    PROVE  Sound(CloseAndNotify(s)) /\ CloseAndNotify(s).state = "CLOSED"
  <1> DEFINE t == CloseAndNotify(s)
  <1>1. s \in SocketType /\ Quiet(s) /\ Buffers(s) /\ Live(s)
    BY DEF Sane
  <1>2. t \in SocketType /\ Same(s, t) /\ t.state = "CLOSED" /\ ~ t.endPoint /\ Quiet(t)
    BY <1>1, CloseAndNotifyFacts
  <1> HIDE DEF t
  <1>3. Buffers(t) /\ Live(t)
    BY <1>1, <1>2, SameKeeps DEF Quiet
  <1>4. Timed(t) /\ Repeats(t)
    BY <1>2 DEF Timed, Repeats
  <1> QED
    BY <1>2, <1>3, <1>4 DEF Sane, Sound, t

\* A FIN that ends ESTABLISHED or CLOSE_WAIT runs under a timer.
LEMMA FinSent ==
    ASSUME NEW s, Sane(s), s.endPoint, s.closed \/ s.shutdownSend,
           NEW q, <<s.state, q>> \in {<<"ESTABLISHED", "FIN_WAIT_1">>, <<"CLOSE_WAIT", "LAST_ACK">>}
    PROVE  LET t == [SendEmptyPacket(s, "FIN+ACK") EXCEPT !.state = q]
           IN  /\ Sane(t) /\ t.state = q /\ t.endPoint
               /\ (s.state = "CLOSE_WAIT" /\ s.retx = "rto" => s.head < s.tail) => Repeats(t)
  <1> DEFINE u == SendEmptyPacket(s, "FIN+ACK")
             t == [u EXCEPT !.state = q]
  <1>1. s \in SocketType /\ Quiet(s) /\ Buffers(s) /\ Live(s) /\ Timed(s) /\ "FIN+ACK" \in Flags
    BY DEF Sane, Flags
  <1>2. /\ u \in SocketType /\ Quiet(u) /\ Same(s, u) /\ u.endPoint
        /\ u.retx = IF s.retx = "off" THEN "FIN+ACK" ELSE s.retx
    BY <1>1, SendEmptyPacketFacts DEF Armed
  <1>3. q \in State
    BY DEF State
  <1> HIDE DEF u
  <1>4. t \in SocketType
    BY <1>2, <1>3, Update
  <1>5. /\ t.state = q /\ t.endPoint /\ t.retx = u.retx /\ Same(s, t) /\ Quiet(t)
    BY <1>2 DEF SocketType, Same, Quiet
  <1> HIDE DEF t
  <1>6. t.retx \in {"off", "rto", "FIN+ACK"} /\ t.retx # "off"
    BY <1>1, <1>2, <1>5 DEF Live
  <1>7. Buffers(t) /\ Live(t)
    BY <1>1, <1>5, <1>6, SameKeeps
  <1>8. Timed(t)
    BY <1>5, <1>6 DEF Timed, Same
  <1>9. ASSUME s.state = "CLOSE_WAIT" /\ s.retx = "rto" => s.head < s.tail
        PROVE  Repeats(t)
    BY <1>2, <1>5, <1>6, <1>9 DEF Repeats, Same
  <1> QED
    BY <1>4, <1>5, <1>7, <1>8, <1>9 DEF Sane, t, u

\* How the state of a socket changes while the application closes it.
Closes(from, to) ==
    \/ to = from \/ to = "CLOSED"
    \/ from = "ESTABLISHED" /\ to = "FIN_WAIT_1"
    \/ from = "CLOSE_WAIT" /\ to = "LAST_ACK"

LEMMA DoCloseSound ==
    ASSUME NEW s, Sane(s), s.endPoint, s.closed \/ s.shutdownSend, s.state # "SYN_RCVD"
    PROVE  LET t == DoClose(s)
           IN  /\ Sane(t) /\ Closes(s.state, t.state)
               /\ s.state = "CLOSE_WAIT" => t.state = "LAST_ACK" /\ t.endPoint
               /\ Repeats(s) /\ (s.state = "CLOSE_WAIT" /\ s.retx = "rto" => s.head < s.tail)
                  => Repeats(t)
  <1> DEFINE t == DoClose(s)
  <1>1. s \in SocketType /\ s.state # "SYN_SENT"
    BY DEF Sane, Timed
  <1>2. CASE s.state = "ESTABLISHED"
    <2>1. t = [SendEmptyPacket(s, "FIN+ACK") EXCEPT !.state = "FIN_WAIT_1"]
      BY <1>2 DEF DoClose
    <2> QED
      BY <1>2, <2>1, FinSent DEF Closes
  <1>3. CASE s.state = "CLOSE_WAIT"
    <2>1. t = [SendEmptyPacket(s, "FIN+ACK") EXCEPT !.state = "LAST_ACK"]
      BY <1>3 DEF DoClose
    <2> QED
      BY <1>3, <2>1, FinSent DEF Closes
  <1>4. CASE s.state = "CLOSING"
    <2>1. t = CloseAndNotify(SendRST(s))
      BY <1>4 DEF DoClose
    <2> QED
      BY <1>4, <2>1, SendRSTFacts, CloseAndNotifySound DEF Closes, Sound
  <1>5. CASE s.state \notin {"ESTABLISHED", "CLOSE_WAIT", "CLOSING"}
    <2>1. t = s
      BY <1>1, <1>5 DEF DoClose
    <2> QED
      BY <1>5, <2>1 DEF Closes
  <1> QED
    BY <1>2, <1>3, <1>4, <1>5

LEMMA CloseSound ==
    ASSUME NEW s, Sane(s), s.endPoint, s.closed \/ s.shutdownSend, s.state # "SYN_RCVD"
    PROVE  LET t == Close(s)
           IN  /\ Sane(t) /\ Closes(s.state, t.state)
               /\ s.state = "CLOSE_WAIT" /\ t.endPoint =>
                     t.state = "LAST_ACK" \/ (t.state = "CLOSE_WAIT" /\ t.head < t.tail)
               /\ s.state = "CLOSE_WAIT" /\ t.state = "LAST_ACK" => t.endPoint
               /\ Repeats(s) /\ (s.state = "CLOSE_WAIT" /\ s.retx = "rto" => s.head < s.tail)
                  => Repeats(t)
  <1> DEFINE t == Close(s)
  <1>1. s \in SocketType /\ Quiet(s) /\ Buffers(s) /\ Live(s) /\ Timed(s)
    BY DEF Sane
  <1>2. CASE s.held # {}
    <2>1. t = SendRST(s)
      BY <1>2 DEF Close
    <2> QED
      BY <2>1, SendRSTFacts DEF Closes, Sound
  <1>3. CASE s.held = {} /\ SizeFromSequence(s, s.nextTx) > 0
    <2>1. t = [s EXCEPT !.closeOnEmpty = TRUE]
      BY <1>3 DEF Close
    <2> HIDE DEF t
    <2>2. t \in SocketType
      <3>1. \A z \in SocketType, v \in BOOLEAN : [z EXCEPT !.closeOnEmpty = v] \in SocketType
        BY Update
      <3> QED
        BY <1>1, <2>1, <3>1
    <2>4. /\ t.state = s.state /\ t.endPoint = s.endPoint /\ t.retx = s.retx
          /\ t.lastAck = s.lastAck /\ t.delAck = s.delAck /\ t.sendPending = s.sendPending
          /\ t.head = s.head /\ t.tail = s.tail /\ t.highTx = s.highTx /\ t.nextTx = s.nextTx
          /\ t.lost = s.lost /\ t.held = s.held /\ t.nextRx = s.nextRx
          /\ t.connected = s.connected /\ t.closed = s.closed /\ t.shutdownSend = s.shutdownSend
      BY <1>1, <2>1 DEF SocketType
    <2>5. Quiet(t) /\ Buffers(t) /\ Live(t) /\ Timed(t)
      BY <1>1, <2>4 DEF Quiet, Buffers, Live, Timed
    <2>6. Repeats(s) => Repeats(t)
      BY <2>4 DEF Repeats
    <2>7. s.head < s.tail
      BY <1>1, <1>3, Fields DEF SizeFromSequence, Bigger, Buffers
    <2>8. Sane(t) /\ Closes(s.state, t.state)
      BY <2>2, <2>4, <2>5 DEF Sane, Closes
    <2> QED
      BY <2>4, <2>6, <2>7, <2>8 DEF t
  <1>4. CASE s.held = {} /\ ~ SizeFromSequence(s, s.nextTx) > 0
    <2>1. t = DoClose(s)
      BY <1>4 DEF Close
    <2> QED
      BY <2>1, DoCloseSound
  <1> QED
    BY <1>2, <1>3, <1>4

\* The peer's FIN leads to CLOSE_WAIT or on to LAST_ACK, under the event of it.
LEMMA DoPeerCloseSound ==
    ASSUME NEW s, Sane(s), s.endPoint, Repeats(s),
           s.state \in {"SYN_RCVD", "ESTABLISHED", "FIN_WAIT_1", "FIN_WAIT_2", "CLOSE_WAIT"}
    PROVE  LET t == DoPeerClose(s)
           IN  /\ Sound(t) /\ t.state \in {"CLOSE_WAIT", "LAST_ACK", "CLOSED"}
               /\ Open(s) => Open(t) /\ t.state = "CLOSE_WAIT"
  <1> DEFINE t == [s EXCEPT !.state = "CLOSE_WAIT"]
             u == IF s.shutdownSend THEN Close(t) ELSE SendEmptyPacket(t, "ACK")
             v == [u EXCEPT !.dataRetrCount = DataRetries, !.lastAck = TRUE]
  <1>1. s \in SocketType /\ Quiet(s) /\ Buffers(s) /\ Live(s) /\ Timed(s)
    BY DEF Sane
  <1>2. Sane(t) /\ t.endPoint /\ t.state = "CLOSE_WAIT"
        /\ t.shutdownSend = s.shutdownSend /\ t.closeOnEmpty = s.closeOnEmpty
    <2>1. t \in SocketType
      BY <1>1, Update DEF State
    <2>2. Same(s, t) /\ t.state = "CLOSE_WAIT" /\ t.endPoint /\ t.retx = s.retx
      BY <1>1 DEF SocketType, Same
    <2> HIDE DEF t
    <2>3. Buffers(t) /\ Live(t) /\ Quiet(t)
      BY <1>1, <2>2, SameKeeps DEF Live, Quiet
    <2>4. Timed(t)
      BY <1>1, <2>2 DEF Timed, Same, Live, Buffers
    <2> QED
      BY <2>1, <2>2, <2>3, <2>4 DEF Sane, Same
  <1>3. ~ s.shutdownSend => Repeats(t)
    <2>1. /\ t.state = "CLOSE_WAIT" /\ t.endPoint = s.endPoint /\ t.retx = s.retx
          /\ t.head = s.head /\ t.tail = s.tail /\ t.closed = s.closed
      BY <1>1 DEF SocketType
    <2> HIDE DEF t
    <2> QED
      BY <1>1, <2>1 DEF Repeats, Timed
  <1> HIDE DEF t
  <1>4. /\ Sane(u) /\ u.state \in {"CLOSE_WAIT", "LAST_ACK", "CLOSED"}
        /\ u.state # "LAST_ACK" => Repeats(u)
        /\ u.state = "LAST_ACK" => u.endPoint
        /\ Open(s) => Open(u) /\ u.state = "CLOSE_WAIT"
    <2>1. CASE s.shutdownSend
      <3>1. u = Close(t)
        BY <2>1
      <3> HIDE DEF u
      <3>2. /\ Sane(u) /\ Closes("CLOSE_WAIT", u.state)
            /\ u.endPoint => u.state = "LAST_ACK" \/ (u.state = "CLOSE_WAIT" /\ u.head < u.tail)
            /\ u.state = "LAST_ACK" => u.endPoint
        BY <1>2, <2>1, <3>1, CloseSound
      <3> QED
        BY <2>1, <3>2 DEF Closes, Repeats, Open
    <2>2. CASE ~ s.shutdownSend
      <3>1. u = SendEmptyPacket(t, "ACK")
        BY <2>2
      <3>2. Sane(u) /\ (Repeats(t) => Repeats(u)) /\ Same(t, u) /\ u.state = "CLOSE_WAIT"
        BY <1>2, <3>1, SendEmptySound
      <3> QED
        BY <1>2, <1>3, <2>2, <3>2 DEF Same, Open
    <2> QED
      BY <2>1, <2>2
  <1>5. DoPeerClose(s) = IF u.state = "LAST_ACK" THEN v ELSE u
    BY DEF DoPeerClose, t
  <1> HIDE DEF u
  <1>6. ASSUME u.state = "LAST_ACK", u.endPoint
        PROVE  Sound(v) /\ v.state = "LAST_ACK"
    <2>1. u \in SocketType /\ Quiet(u) /\ Buffers(u) /\ Live(u) /\ Timed(u)
      BY <1>4 DEF Sane
    <2>2. v \in SocketType
      <3>1. DataRetries \in 0..DataRetries /\ TRUE \in BOOLEAN
        BY TcpAssumption
      <3> QED
        BY <2>1, <3>1, Update
    <2>3. /\ v.state = "LAST_ACK" /\ v.endPoint /\ v.retx = u.retx /\ v.lastAck
          /\ v.head = u.head /\ v.tail = u.tail /\ v.highTx = u.highTx /\ v.nextTx = u.nextTx
          /\ v.lost = u.lost /\ v.held = u.held /\ v.nextRx = u.nextRx
          /\ v.connected = u.connected /\ v.closed = u.closed
          /\ v.closeOnEmpty = u.closeOnEmpty /\ v.shutdownSend = u.shutdownSend
      BY <1>6, <2>1 DEF SocketType
    <2> HIDE DEF v
    <2>4. Quiet(v) /\ Buffers(v) /\ Live(v) /\ Timed(v) /\ Repeats(v)
      BY <1>6, <2>1, <2>3 DEF Quiet, Buffers, Live, Timed, Repeats
    <2> QED
      BY <2>2, <2>3, <2>4 DEF Sane, Sound
  <1> QED
    BY <1>4, <1>5, <1>6 DEF Sound

-----------------------------------------------------------------------------
(* Sending *)

\* Every finite set of naturals with at least i members has an i-th one.
LEMMA NthFacts ==
    ASSUME NEW S \in SUBSET Nat, IsFiniteSet(S), NEW i \in 1..Cardinality(S)
    PROVE  Nth(S, i) \in S /\ Cardinality({p \in S : p <= Nth(S, i)}) = i
  <1> DEFINE Low(q) == {p \in S : p <= q}
             Has(n) == \E q \in S : Cardinality(Low(q)) = n
             A == {n \in Nat : n < Cardinality(S) => Has(n + 1)}
  <1>1. Cardinality(S) \in Nat
    BY FS_CardinalityType
  <1>2. 0 \in A
    <2> SUFFICES ASSUME 0 < Cardinality(S) PROVE Has(1)
      OBVIOUS
    <2>1. S # {}
      BY FS_EmptySet
    <2>2. PICK m \in S : \A n \in S : m <= n
      BY <2>1, Least
    <2>3. Low(m) = {m}
      <3>1. ASSUME NEW p \in S, p <= m PROVE p = m
        BY <2>2, <3>1
      <3>2. m <= m
        BY <2>2
      <3> QED
        BY <2>2, <3>1, <3>2
    <2> QED
      BY <2>2, <2>3, FS_Singleton
  <1>3. ASSUME NEW n \in A PROVE n + 1 \in A
    <2> SUFFICES ASSUME n + 1 < Cardinality(S) PROVE Has(n + 1 + 1)
      OBVIOUS
    <2>1. n \in Nat /\ n < Cardinality(S)
      BY <1>1
    <2>2. PICK q \in S : Cardinality(Low(q)) = n + 1
      BY <2>1
    <2>3. S \ Low(q) # {}
      BY <1>1, <2>1, <2>2
    <2>4. PICK r \in S \ Low(q) : \A p \in S \ Low(q) : r <= p
      <3>1. S \ Low(q) \in SUBSET Nat
        OBVIOUS
      <3> QED
        BY <2>3, <3>1, Least
    <2>5. q \in Nat /\ r \in Nat /\ r > q
      BY <2>2, <2>4
    <2>6. Low(r) = Low(q) \cup {r} /\ r \notin Low(q)
      <3>1. ASSUME NEW p \in S, p <= r PROVE p <= q \/ p = r
        BY <2>4, <2>5, <3>1
      <3>2. ASSUME NEW p \in S, p <= q PROVE p <= r
        BY <2>5, <3>2
      <3> QED
        BY <2>4, <2>5, <3>1, <3>2
    <2>7. IsFiniteSet(Low(q))
      BY FS_Subset
    <2>8. Cardinality(Low(r)) = n + 1 + 1
      <3>1. Cardinality(Low(q) \cup {r}) = Cardinality(Low(q)) + 1
        <4> HIDE DEF Low
        <4> QED
          BY <2>6, <2>7, FS_AddElement
      <3> HIDE DEF Low
      <3> QED
        BY <2>2, <2>6, <3>1
    <2> QED
      BY <2>4, <2>8
  <1>4. i - 1 \in A /\ i - 1 < Cardinality(S) /\ i - 1 + 1 = i
    <2> HIDE DEF A
    <2>1. A = Nat
      BY <1>2, <1>3, Induct DEF A
    <2> QED
      BY <1>1, <2>1
  <1>5. Has(i)
    BY <1>4
  <1> QED
    BY <1>5 DEF Nth

\* The members of a set are counted in ascending order.
LEMMA NthAscends ==
    ASSUME NEW S \in SUBSET Nat, IsFiniteSet(S),
           NEW n \in 1..Cardinality(S), NEW i \in 1..n
    PROVE  Nth(S, i) <= Nth(S, n)
  <1> DEFINE a == Nth(S, i)
             b == Nth(S, n)
             LowA == {p \in S : p <= a}
             LowB == {p \in S : p <= b}
  <1>1. i \in 1..Cardinality(S) /\ i <= n /\ i \in Nat /\ n \in Nat
    BY FS_CardinalityType
  <1>2. a \in S /\ Cardinality(LowA) = i
    BY <1>1, NthFacts
  <1>3. b \in S /\ Cardinality(LowB) = n
    BY NthFacts
  <1>4. IsFiniteSet(LowA)
    BY FS_Subset
  <1> HIDE DEF a, b
  <1>5. ASSUME b < a PROVE FALSE
    <2>1. \A p \in S : p <= b => p <= a
      BY <1>2, <1>3, <1>5
    <2>2. LowB \subseteq LowA /\ a \in LowA /\ a \notin LowB
      <3>1. a <= a /\ ~ a <= b
        BY <1>2, <1>3, <1>5
      <3> QED
        BY <1>2, <2>1, <3>1
    <2> HIDE DEF LowA, LowB
    <2>3. Cardinality(LowB) <= Cardinality(LowA) /\ (Cardinality(LowB) = Cardinality(LowA) => LowA = LowB)
      BY <1>4, <2>2, FS_Subset
    <2> QED
      BY <1>1, <1>2, <1>3, <2>2, <2>3
  <1>6. a \in Nat /\ b \in Nat
    BY <1>2, <1>3
  <1> QED
    BY <1>5, <1>6 DEF a, b

\* A value of SendPendingData that sends at least one segment.
MaySend(s, cwnd) ==
    /\ s.endPoint /\ TxSize(s) # 0
    /\ ~ (s.recover = 0 /\ s.state = "FIN_WAIT_1")
    /\ Lesser(Bigger(0, cwnd - InFlight(s)), Cardinality(ToSend(s))) # 0

LEMMA ToSendFacts ==
    ASSUME NEW s \in SocketType, Buffers(s)
    PROVE  /\ ToSend(s) \in SUBSET Nat /\ IsFiniteSet(ToSend(s))
           /\ \A q \in ToSend(s) : s.head <= q /\ q < s.tail
           /\ Cardinality(ToSend(s)) \in Nat /\ InFlight(s) \in Nat
  <1> DEFINE unsent == Bigger(s.head, s.highTx)
  <1>1. s.head \in Nat /\ s.tail \in Nat /\ s.highTx \in Nat /\ s.lost \in SUBSET Nat
    BY Fields
  <1>2. s.lost \subseteq s.head .. s.highTx - 1 /\ s.head <= s.tail /\ s.highTx <= s.tail
    BY DEF Buffers
  <1>3. unsent \in Nat /\ s.head <= unsent
    BY <1>1 DEF Bigger
  <1>4. ToSend(s) = s.lost \cup unsent .. s.tail - 1
    BY DEF ToSend
  <1> HIDE DEF unsent
  <1>5. ToSend(s) \subseteq s.head .. s.tail - 1
    BY <1>1, <1>2, <1>3, <1>4
  <1>6. IsFiniteSet(ToSend(s))
    <2>1. IsFiniteSet(s.head .. s.tail - 1)
      <3>1. s.head \in Int /\ s.tail - 1 \in Int
        BY <1>1
      <3> QED
        BY <3>1, FS_Interval
    <2> QED
      BY <1>5, <2>1, FS_Subset
  <1>7. InFlight(s) \in Nat
    <2>1. IsFiniteSet(s.head .. s.highTx - 1)
      <3>1. s.head \in Int /\ s.highTx - 1 \in Int
        BY <1>1
      <3> QED
        BY <3>1, FS_Interval
    <2>2. IsFiniteSet((s.head .. s.highTx - 1) \ s.lost)
      BY <2>1, FS_Subset
    <2> QED
      BY <2>2, FS_CardinalityType DEF InFlight
  <1>8. ToSend(s) \in SUBSET Nat /\ \A q \in ToSend(s) : s.head <= q /\ q < s.tail
    BY <1>1, <1>5
  <1> QED
    BY <1>6, <1>7, <1>8, FS_CardinalityType

LEMMA SendPendingIdle ==
    ASSUME NEW s, NEW cwnd, ~ MaySend(s, cwnd)
    PROVE  SendPendingData(s, cwnd) = s
  BY DEF SendPendingData, MaySend

\* The states in which data may be sent, and what the timer may be there.
Ready(s) ==
    /\ s.state \notin {"CLOSED", "LISTEN", "SYN_SENT", "SYN_RCVD"}
    /\ s.state \in {"FIN_WAIT_1", "FIN_WAIT_2", "CLOSING"} => s.closed \/ s.shutdownSend
    /\ s.state = "ESTABLISHED" => s.retx \in {"off", "rto"}

\* How SendPendingData may change the state: the last segment carries the FIN.
Ends(from, to) ==
    \/ to = from
    \/ from = "ESTABLISHED" /\ to = "FIN_WAIT_1"
    \/ from = "CLOSE_WAIT" /\ to = "LAST_ACK"

\* A segment of data: what was marked lost or never sent, up to the new highest
\* number; the last one of a socket that was closed carries the FIN.
Piece(s, highTx, m) ==
    /\ m \in Segments /\ m.len = 1 /\ m.ack = s.nextRx
    /\ s.head <= m.seq /\ m.seq < s.tail /\ m.seq < highTx
    /\ m.flags = "ACK" \/ (m.flags = "FIN+ACK" /\ s.closeOnEmpty /\ m.seq + 1 = s.tail)

\* What SendPendingData makes of s when it sends.
Sent(s, t) ==
    /\ t \in SocketType /\ s.endPoint /\ t.endPoint
    /\ Ends(s.state, t.state) /\ (t.state # s.state => s.closeOnEmpty)
    /\ t.head = s.head /\ t.tail = s.tail /\ s.head < s.tail
    /\ s.head < t.nextTx /\ t.nextTx <= t.highTx /\ t.highTx >= s.highTx /\ t.highTx <= s.tail
    /\ t.lost \subseteq s.lost
    /\ t.retx = IF s.retx = "off" THEN "rto" ELSE s.retx
    /\ t.nextRx = s.nextRx /\ t.held = s.held /\ t.fin = s.fin /\ t.taken = s.taken
    /\ t.connected = s.connected /\ t.closed = s.closed /\ t.closeOnEmpty = s.closeOnEmpty
    /\ t.shutdownSend = s.shutdownSend /\ t.written = s.written /\ t.behind = s.behind
    /\ \A i \in 1..Len(t.out) :
          (i <= Len(s.out) /\ t.out[i] = s.out[i]) \/ Piece(s, t.highTx, t.out[i])

LEMMA SendPendingFacts ==
    ASSUME NEW s \in SocketType, Buffers(s), NEW cwnd \in Nat, MaySend(s, cwnd)
    PROVE  Sent(s, SendPendingData(s, cwnd))
  <1> DEFINE window == Bigger(0, cwnd - InFlight(s))
             n == IF s.recover = 0 /\ s.state = "FIN_WAIT_1" THEN 0
                  ELSE Lesser(window, Cardinality(ToSend(s)))
             sent == [i \in 1..n |-> Nth(ToSend(s), i)]
             final == sent[n] + 1
             fin == s.closeOnEmpty /\ final = s.tail
             Segment(i) ==
                 [flags |-> IF i = n /\ fin THEN "FIN+ACK" ELSE "ACK",
                  seq |-> sent[i], ack |-> s.nextRx, len |-> 1]
             segments == [i \in 1..n |-> Segment(i)]
             t == SendPendingData(s, cwnd)
  <1>1. n \in Nat /\ 1 <= n /\ n <= Cardinality(ToSend(s)) /\ s.endPoint /\ TxSize(s) # 0
    <2>1. InFlight(s) \in Nat /\ Cardinality(ToSend(s)) \in Nat
      BY ToSendFacts
    <2>2. n = Lesser(window, Cardinality(ToSend(s))) /\ n # 0 /\ s.endPoint /\ TxSize(s) # 0
      BY DEF MaySend
    <2>3. window \in Nat
      BY <2>1 DEF Bigger
    <2> HIDE DEF n, window
    <2> QED
      BY <2>1, <2>2, <2>3 DEF Lesser
  <1>2. t = [s EXCEPT
                !.out = s.out \o segments,
                !.state = IF fin /\ s.state = "ESTABLISHED" THEN "FIN_WAIT_1"
                          ELSE IF fin /\ s.state = "CLOSE_WAIT" THEN "LAST_ACK" ELSE s.state,
                !.nextTx = final,
                !.highTx = Bigger(s.highTx, final),
                !.lost = s.lost \ {sent[i] : i \in 1..n},
                !.delAck = FALSE,
                !.delAckCount = 0,
                !.retx = IF s.retx = "off" THEN "rto" ELSE s.retx]
    <2>1. ~ (TxSize(s) = 0 \/ ~ s.endPoint \/ n = 0)
      BY <1>1
    <2> QED
      BY <2>1 DEF SendPendingData
  <1>3. \A i \in 1..n : sent[i] \in ToSend(s) /\ sent[i] <= sent[n]
    <2> SUFFICES ASSUME NEW i \in 1..n PROVE sent[i] \in ToSend(s) /\ sent[i] <= sent[n]
      OBVIOUS
    <2>1. sent[i] = Nth(ToSend(s), i) /\ sent[n] = Nth(ToSend(s), n)
      BY <1>1
    <2> HIDE DEF n, sent
    <2>2. i \in 1..Cardinality(ToSend(s)) /\ n \in 1..Cardinality(ToSend(s))
      BY <1>1, ToSendFacts
    <2>3. ToSend(s) \in SUBSET Nat /\ IsFiniteSet(ToSend(s))
      BY ToSendFacts
    <2>4. Nth(ToSend(s), i) \in ToSend(s)
      BY <2>2, <2>3, NthFacts
    <2>5. Nth(ToSend(s), i) <= Nth(ToSend(s), n)
      BY <2>2, <2>3, NthAscends
    <2> QED
      BY <2>1, <2>4, <2>5
  <1> HIDE DEF n, sent, t
  <1>4. /\ final \in Nat /\ s.head < final /\ final <= s.tail
        /\ \A i \in 1..n : sent[i] \in Nat /\ s.head <= sent[i] /\ sent[i] < final
                           /\ sent[i] < s.tail
    <2>1. n \in 1..n
      BY <1>1
    <2>2. sent[n] \in ToSend(s)
      BY <1>3, <2>1
    <2>3. sent[n] \in Nat /\ s.head <= sent[n] /\ sent[n] < s.tail
      BY <2>2, ToSendFacts
    <2>4. \A i \in 1..n : sent[i] \in Nat /\ s.head <= sent[i] /\ sent[i] < s.tail
      BY <1>3, ToSendFacts
    <2>5. final = sent[n] + 1
      OBVIOUS
    <2> HIDE DEF final
    <2>6. s.head \in Nat /\ s.tail \in Nat
      BY Fields
    <2>7. final \in Nat /\ s.head < final /\ final <= s.tail
      BY <2>3, <2>5, <2>6
    <2>8. ASSUME NEW i \in 1..n PROVE sent[i] < final
      <3>1. sent[i] <= sent[n] /\ sent[i] \in Nat
        BY <1>3, <2>4
      <3> QED
        BY <2>3, <2>5, <3>1
    <2> QED
      BY <2>4, <2>7, <2>8
  <1> DEFINE highTx == Bigger(s.highTx, final)
  <1>5. highTx \in Nat /\ highTx >= s.highTx /\ highTx >= final /\ highTx <= s.tail
    BY <1>4, Fields DEF Bigger, Buffers
  <1>6. \A i \in 1..n : Piece(s, highTx, Segment(i))
    <2> SUFFICES ASSUME NEW i \in 1..n PROVE Piece(s, highTx, Segment(i))
      OBVIOUS
    <2>1. sent[i] \in Nat /\ s.head <= sent[i] /\ sent[i] < s.tail /\ sent[i] < highTx
      <3>1. sent[i] \in Nat /\ s.head <= sent[i] /\ sent[i] < final /\ sent[i] < s.tail
        BY <1>4
      <3> HIDE DEF final, highTx
      <3> QED
        BY <1>4, <1>5, <3>1
    <2>2. i = n /\ fin => s.closeOnEmpty /\ sent[i] + 1 = s.tail
      OBVIOUS
    <2> HIDE DEF fin, highTx
    <2>3. Segment(i) \in Segments
      BY <2>1, Fields DEF Segments, Flags
    <2> QED
      BY <2>1, <2>2, <2>3 DEF Piece
  <1>7. segments \in Seq(Segments) /\ Len(segments) = n /\ \A i \in 1..n : segments[i] = Segment(i)
    BY <1>1, <1>6 DEF Piece
  <1> HIDE DEF segments, Segment, highTx
  <1> DEFINE out == s.out \o segments
  <1>8. /\ out \in Seq(Segments)
        /\ \A i \in 1..Len(out) :
              (i <= Len(s.out) /\ out[i] = s.out[i]) \/ Piece(s, highTx, out[i])
    <2>1. s.out \in Seq(Segments) /\ Len(s.out) \in Nat
      BY Fields
    <2>2. /\ out \in Seq(Segments) /\ Len(out) = Len(s.out) + n
          /\ \A i \in 1..(Len(s.out) + n) :
                out[i] = IF i <= Len(s.out) THEN s.out[i] ELSE segments[i - Len(s.out)]
      BY <1>7, <2>1, ConcatProperties
    <2> SUFFICES ASSUME NEW i \in 1..(Len(s.out) + n), ~ i <= Len(s.out)
                 PROVE  Piece(s, highTx, out[i])
      BY <2>2
    <2>3. i - Len(s.out) \in 1..n
      BY <1>1, <2>1
    <2> QED
      BY <1>6, <1>7, <2>2, <2>3
  <1>9. fin \in BOOLEAN /\ (fin => s.closeOnEmpty)
    BY Fields
  <1> HIDE DEF final, fin, out
  <1> DEFINE state == IF fin /\ s.state = "ESTABLISHED" THEN "FIN_WAIT_1"
                      ELSE IF fin /\ s.state = "CLOSE_WAIT" THEN "LAST_ACK" ELSE s.state
             lost == s.lost \ {sent[i] : i \in 1..n}
             retx == IF s.retx = "off" THEN "rto" ELSE s.retx
  <1>10. state \in State /\ Ends(s.state, state) /\ (state # s.state => s.closeOnEmpty)
    BY <1>9, Fields DEF State, Ends
  <1>11. lost \in SUBSET Nat /\ lost \subseteq s.lost
    BY Fields
  <1>12. retx \in Retx
    BY Fields DEF Retx
  <1>13. t = [s EXCEPT !.out = out, !.state = state, !.nextTx = final, !.highTx = highTx,
                       !.lost = lost, !.delAck = FALSE, !.delAckCount = 0, !.retx = retx]
    BY <1>2 DEF out, highTx
  <1> HIDE DEF state, lost
  <1>14. t \in SocketType
    <2>1. 0 \in 0..DelAckMaxCount /\ FALSE \in BOOLEAN /\ out \in Seq(Segments)
      BY <1>8, TcpAssumption
    <2> HIDE DEF retx
    <2>2. state \in State /\ final \in Nat /\ highTx \in Nat /\ lost \in SUBSET Nat /\ retx \in Retx
      BY <1>4, <1>5, <1>10, <1>11, <1>12
    <2> QED
      BY <1>13, <2>1, <2>2, Update
  <1>15. /\ t.out = out /\ t.state = state /\ t.nextTx = final /\ t.highTx = highTx
         /\ t.lost = lost /\ t.retx = retx
         /\ t.endPoint = s.endPoint /\ t.head = s.head /\ t.tail = s.tail
         /\ t.held = s.held /\ t.nextRx = s.nextRx /\ t.fin = s.fin /\ t.taken = s.taken
         /\ t.connected = s.connected /\ t.closeOnEmpty = s.closeOnEmpty
         /\ t.closed = s.closed /\ t.shutdownSend = s.shutdownSend
         /\ t.written = s.written /\ t.behind = s.behind
    <2> HIDE DEF retx
    <2> QED
      BY <1>13 DEF SocketType
  <1>16. s.head < s.tail
    BY <1>4, Fields
  <1> QED
    BY <1>1, <1>4, <1>5, <1>8, <1>10, <1>11, <1>14, <1>15, <1>16 DEF Sent, t

LEMMA SendPendingSends ==
    ASSUME NEW s \in SocketType, Quiet(s), Buffers(s), Live(s), Ready(s),
           NEW cwnd \in Nat, MaySend(s, cwnd)
    PROVE  LET t == SendPendingData(s, cwnd)
           IN  /\ Sound(t) /\ Ends(s.state, t.state) /\ t.nextRx = s.nextRx
               /\ Open(s) => t.state = s.state
  <1> DEFINE t == SendPendingData(s, cwnd)
  <1>1. Sent(s, t)
    BY SendPendingFacts
  <1> HIDE DEF t
  <1>2. t \in SocketType /\ t.endPoint /\ t.head < t.tail
    BY <1>1 DEF Sent
  <1>3. Ends(s.state, t.state) /\ (t.state # s.state => s.closed \/ s.shutdownSend)
    BY <1>1 DEF Sent, Live
  <1>4. t.retx \in {"rto", "FIN+ACK"} /\ (s.retx \in {"off", "rto"} => t.retx = "rto")
    BY <1>1 DEF Sent, Live
  <1>5. Buffers(t)
    <2>1. s.lost \subseteq s.head .. s.highTx - 1 /\ IsFiniteSet(s.held)
      BY DEF Buffers
    <2>2. /\ s.head \in Nat /\ s.highTx \in Nat /\ t.head \in Nat /\ t.highTx \in Nat
          /\ t.nextTx \in Nat /\ t.tail \in Nat
      BY <1>2, Fields
    <2>3. t.lost \subseteq t.head .. t.highTx - 1
      BY <1>1, <2>1, <2>2 DEF Sent
    <2>4. t.head <= t.tail /\ t.highTx <= t.tail /\ t.head <= t.nextTx
      BY <1>1, <2>2 DEF Sent
    <2> QED
      BY <1>1, <2>1, <2>3, <2>4 DEF Buffers, Sent
  <1>6. Live(t)
    <2>1. t.highTx >= 1
      <3>1. s.highTx \in Nat /\ t.highTx \in Nat /\ t.highTx >= s.highTx /\ s.highTx >= 1
        BY <1>1, <1>2, Fields DEF Sent, Live
      <3> QED
        BY <3>1
    <2> QED
      BY <1>1, <1>4, <2>1 DEF Live, Sent
  <1>7. Quiet(t)
    BY <1>2 DEF Quiet
  <1>8. t.closed = s.closed /\ t.shutdownSend = s.shutdownSend
    BY <1>1 DEF Sent
  <1>9. Timed(t) /\ Repeats(t)
    BY <1>2, <1>3, <1>4, <1>8 DEF Timed, Repeats, Ready, Ends
  <1>10. t.nextRx = s.nextRx /\ (Open(s) => t.state = s.state)
    BY <1>1 DEF Sent, Open
  <1> QED
    BY <1>2, <1>3, <1>5, <1>6, <1>7, <1>9, <1>10 DEF Sane, Sound, t

\* Whatever the window, a connected socket stays sound.
LEMMA SendPendingSound ==
    ASSUME NEW s, Sound(s), s.state # "SYN_RCVD", NEW cwnd \in Nat
    PROVE  LET t == SendPendingData(s, cwnd)
           IN  /\ Sound(t) /\ Ends(s.state, t.state) /\ t.nextRx = s.nextRx
               /\ Open(s) => t.state = s.state
  <1>1. s \in SocketType /\ Quiet(s) /\ Buffers(s) /\ Live(s) /\ Timed(s)
    BY DEF Sane, Sound
  <1>2. CASE MaySend(s, cwnd)
    <2>1. s.endPoint
      BY <1>2 DEF MaySend
    <2>2. Ready(s)
      BY <1>1, <2>1 DEF Ready, Timed
    <2> QED
      BY <1>1, <1>2, <2>2, SendPendingSends
  <1>3. CASE ~ MaySend(s, cwnd)
    BY <1>3, SendPendingIdle DEF Ends
  <1> QED
    BY <1>2, <1>3

-----------------------------------------------------------------------------
(* Timers *)

\* A FIN that is sent once more.
LEMMA FinRepeated ==
    ASSUME NEW s \in SocketType, Quiet(s), Buffers(s), Live(s), Ready(s), s.endPoint,
           s.state # "ESTABLISHED", s.retx = "off"
    PROVE  LET t == SendEmptyPacket(s, "FIN+ACK")
           IN  Sound(t) /\ t.state = s.state /\ t.nextRx = s.nextRx
  <1> DEFINE t == SendEmptyPacket(s, "FIN+ACK")
  <1>1. "FIN+ACK" \in Flags
    BY DEF Flags
  <1>2. /\ t \in SocketType /\ Quiet(t) /\ Same(s, t) /\ t.state = s.state /\ t.endPoint
        /\ t.retx = "FIN+ACK"
    BY <1>1, SendEmptyPacketFacts DEF Armed
  <1> HIDE DEF t
  <1>3. Buffers(t) /\ Live(t)
    BY <1>2, SameKeeps
  <1>4. Timed(t) /\ Repeats(t) /\ t.nextRx = s.nextRx
    BY <1>2 DEF Timed, Repeats, Ready, Same
  <1> QED
    BY <1>2, <1>3, <1>4 DEF Sane, Sound, t

\* The data timer marks everything lost and sends the first segment again.
LEMMA TimeoutSends ==
    ASSUME NEW s \in SocketType, Quiet(s), Buffers(s), Live(s), Ready(s), s.endPoint,
           TxSize(s) > 0, s.dataRetrCount # 0
    PROVE  LET u == [s EXCEPT !.dataRetrCount = @ - 1, !.recover = s.highTx,
                              !.lost = s.head .. s.highTx - 1]
               t == SendPendingData(u, 1)
           IN  Sound(t) /\ Ends(s.state, t.state) /\ t.nextRx = s.nextRx
  <1> DEFINE lost == s.head .. s.highTx - 1
             u == [s EXCEPT !.dataRetrCount = @ - 1, !.recover = s.highTx, !.lost = lost]
  <1>1. s.head \in Nat /\ s.tail \in Nat /\ s.highTx \in Nat
    BY Fields
  <1>2. lost \in SUBSET Nat
    BY <1>1
  <1>3. u \in SocketType
    <2>1. s.dataRetrCount - 1 \in 0..DataRetries
      BY Fields, TcpAssumption
    <2> HIDE DEF lost
    <2> QED
      BY <1>1, <1>2, <2>1, Update
  <1>4. /\ u.recover = s.highTx /\ u.lost = lost /\ u.state = s.state
        /\ u.head = s.head /\ u.tail = s.tail /\ u.highTx = s.highTx /\ u.nextTx = s.nextTx
        /\ u.held = s.held /\ u.nextRx = s.nextRx /\ u.endPoint = s.endPoint /\ u.retx = s.retx
        /\ u.connected = s.connected /\ u.closed = s.closed /\ u.lastAck = s.lastAck
        /\ u.delAck = s.delAck /\ u.sendPending = s.sendPending
        /\ u.closeOnEmpty = s.closeOnEmpty /\ u.shutdownSend = s.shutdownSend
    BY DEF SocketType
  <1> HIDE DEF u
  <1>5. Quiet(u) /\ Live(u) /\ Ready(u)
    BY <1>4 DEF Quiet, Live, Ready
  <1>6. Buffers(u)
    BY <1>4 DEF Buffers
  <1>7. MaySend(u, 1)
    <2>1. InFlight(u) = 0
      <3>1. (u.head .. u.highTx - 1) \ u.lost = {}
        BY <1>4
      <3> QED
        BY <3>1, FS_EmptySet DEF InFlight
    <2>2. s.head < s.tail /\ u.recover >= 1 /\ u.recover \in Nat
      BY <1>1, <1>4 DEF TxSize, Live
    <2>3. s.head \in ToSend(u)
      <3>1. CASE s.head < s.highTx
        <4>1. s.head \in lost
          BY <1>1, <3>1
        <4> QED
          BY <1>4, <4>1 DEF ToSend
      <3>2. CASE ~ s.head < s.highTx
        <4>1. Bigger(u.head, u.highTx) = s.head
          BY <1>1, <1>4, <3>2 DEF Bigger
        <4>2. s.head \in s.head .. s.tail - 1
          BY <1>1, <2>2
        <4> QED
          BY <1>4, <4>1, <4>2 DEF ToSend
      <3> QED
        BY <3>1, <3>2
    <2>4. Cardinality(ToSend(u)) \in Nat \ {0}
      BY <1>3, <1>6, <2>3, ToSendFacts, FS_EmptySet
    <2>5. Lesser(Bigger(0, 1 - InFlight(u)), Cardinality(ToSend(u))) # 0
      BY <2>1, <2>4 DEF Bigger, Lesser
    <2>6. TxSize(u) # 0
      BY <1>1, <1>4, <2>2 DEF TxSize
    <2> QED
      BY <1>4, <2>2, <2>5, <2>6 DEF MaySend
  <1> QED
    BY <1>3, <1>4, <1>5, <1>6, <1>7, SendPendingSends DEF u

LEMMA RetxExpiredSound ==
    ASSUME NEW s, Sound(s), s.retx # "off", s.state # "SYN_RCVD"
    PROVE  LET t == RetxExpired(s)
           IN  Sound(t) /\ Ends(s.state, t.state) /\ t.nextRx = s.nextRx
  <1> DEFINE u == [s EXCEPT !.retx = "off"]
             t == RetxExpired(s)
  <1>1. s \in SocketType /\ Quiet(s) /\ Buffers(s) /\ Live(s) /\ Timed(s) /\ Repeats(s) /\ s.endPoint
    BY DEF Sane, Sound, Quiet
  <1>2. u \in SocketType
    BY <1>1, Update DEF Retx
  <1>3. /\ u.retx = "off" /\ u.state = s.state
        /\ u.head = s.head /\ u.tail = s.tail /\ u.highTx = s.highTx /\ u.nextTx = s.nextTx
        /\ u.lost = s.lost /\ u.recover = s.recover
        /\ u.held = s.held /\ u.nextRx = s.nextRx /\ u.endPoint = s.endPoint
        /\ u.connected = s.connected /\ u.closed = s.closed /\ u.lastAck = s.lastAck
        /\ u.delAck = s.delAck /\ u.sendPending = s.sendPending
        /\ u.closeOnEmpty = s.closeOnEmpty /\ u.shutdownSend = s.shutdownSend
    BY <1>1 DEF SocketType
  <1>4. t = IF s.retx = "rto" THEN ReTxTimeout(u) ELSE SendEmptyPacket(u, s.retx)
    BY DEF RetxExpired
  <1> HIDE DEF u, t
  <1>5. Quiet(u) /\ Buffers(u) /\ Live(u)
    BY <1>1, <1>3 DEF Quiet, Buffers, Live
  <1>6. Ready(u)
    BY <1>1, <1>3 DEF Ready, Timed
  <1>7. CASE s.retx # "rto"
    <2>1. s.retx = "FIN+ACK" /\ u.state # "ESTABLISHED"
      BY <1>1, <1>3, <1>7 DEF Live, Timed
    <2>2. t = SendEmptyPacket(u, "FIN+ACK")
      BY <1>4, <1>7, <2>1
    <2> QED
      BY <1>1, <1>2, <1>3, <1>5, <1>6, <2>1, <2>2, FinRepeated DEF Ends, t
  <1>8. CASE s.retx = "rto"
    <2>0. t = ReTxTimeout(u)
      BY <1>4, <1>8
    <2>1. CASE TxSize(u) = 0 /\ u.state \in {"FIN_WAIT_1", "CLOSING"}
      <3>1. t = SendEmptyPacket(u, "FIN+ACK")
        BY <2>0, <2>1 DEF ReTxTimeout
      <3> QED
        BY <1>1, <1>2, <1>3, <1>5, <1>6, <2>1, <3>1, FinRepeated DEF Ends, t
    <2>2. CASE TxSize(u) = 0 /\ u.state \notin {"FIN_WAIT_1", "CLOSING"}
      <3>1. t = u
        BY <2>0, <2>2 DEF ReTxTimeout
      <3>2. u.head = u.tail /\ ~ u.highTx > u.head
        BY <1>2, <1>5, <2>2, Fields DEF TxSize, Buffers
      <3>3. ~ (s.head < s.tail)
        BY <1>1, <1>3, <3>2, Fields
      <3>4. Timed(u) /\ Repeats(u)
        BY <1>1, <1>3, <1>6, <1>8, <2>2, <3>2, <3>3 DEF Timed, Repeats, Ready
      <3> QED
        BY <1>2, <1>3, <1>5, <3>1, <3>4 DEF Sane, Sound, Ends, t
    <2>3. CASE TxSize(u) # 0
      <3>1. TxSize(u) > 0
        BY <1>2, <1>5, <2>3, Fields DEF TxSize, Buffers
      <3>2. CASE u.dataRetrCount = 0
        <4>1. t = DeallocateEndPoint(u)
          BY <2>0, <2>3, <3>1, <3>2 DEF ReTxTimeout
        <4>2. t \in SocketType /\ Same(u, t) /\ t.state = u.state /\ ~ t.endPoint /\ Quiet(t)
          BY <1>2, <1>5, <4>1, DeallocateEndPointFacts
        <4>3. Buffers(t) /\ Live(t)
          BY <1>5, <4>2, SameKeeps DEF Quiet
        <4>4. Timed(t) /\ Repeats(t) /\ t.nextRx = s.nextRx
          BY <1>3, <4>2 DEF Timed, Repeats, Same
        <4> QED
          BY <1>3, <4>2, <4>3, <4>4 DEF Sane, Sound, Ends, t
      <3>3. CASE u.dataRetrCount # 0
        <4>1. t = SendPendingData([u EXCEPT !.dataRetrCount = @ - 1, !.recover = u.highTx,
                                            !.lost = u.head .. u.highTx - 1], 1)
          BY <2>0, <2>3, <3>1, <3>3 DEF ReTxTimeout
        <4> QED
          BY <1>1, <1>2, <1>3, <1>5, <1>6, <3>1, <3>3, <4>1, TimeoutSends DEF t
      <3> QED
        BY <3>2, <3>3
    <2> QED
      BY <2>1, <2>2, <2>3
  <1> QED
    BY <1>7, <1>8

LEMMA DelAckTimeoutSound ==
    ASSUME NEW s, Sound(s)
    PROVE  LET t == DelAckTimeout(s)
           IN  Sound(t) /\ t.state = s.state /\ t.nextRx = s.nextRx
  <1> DEFINE u == [s EXCEPT !.delAck = FALSE, !.delAckCount = 0]
  <1>1. s \in SocketType /\ Quiet(s) /\ Buffers(s) /\ Live(s) /\ Timed(s) /\ Repeats(s)
    BY DEF Sane, Sound
  <1>2. u \in SocketType
    <2>1. FALSE \in BOOLEAN /\ 0 \in 0..DelAckMaxCount
      BY TcpAssumption
    <2> QED
      BY <1>1, <2>1, Update
  <1>3. /\ Same(s, u) /\ u.state = s.state /\ u.retx = s.retx /\ u.endPoint = s.endPoint
        /\ u.lastAck = s.lastAck /\ u.sendPending = s.sendPending /\ ~ u.delAck
    BY <1>1 DEF SocketType, Same
  <1> HIDE DEF u
  <1>4. Buffers(u) /\ Live(u) /\ Quiet(u)
    BY <1>1, <1>3, SameKeeps DEF Live, Quiet
  <1>5. Timed(u) /\ Repeats(u) /\ u.nextRx = s.nextRx
    BY <1>1, <1>3 DEF Timed, Repeats, Same
  <1>6. Sound(u)
    BY <1>2, <1>4, <1>5 DEF Sane, Sound
  <1>7. DelAckTimeout(s) = SendEmptyPacket(u, "ACK")
    BY DEF DelAckTimeout, u
  <1> QED
    BY <1>3, <1>5, <1>6, <1>7, SendEmptySound DEF Sound, Same

LEMMA LastAckTimeoutSound ==
    ASSUME NEW s, Sound(s), s.lastAck
    PROVE  LET t == LastAckTimeout(s)
           IN  Sound(t) /\ t.state = s.state /\ t.nextRx = s.nextRx
  <1> DEFINE u == [s EXCEPT !.lastAck = FALSE]
             t == LastAckTimeout(s)
  <1>1. s \in SocketType /\ Quiet(s) /\ Buffers(s) /\ Live(s) /\ Timed(s) /\ Repeats(s) /\ s.endPoint
    BY DEF Sane, Sound, Quiet
  <1>2. u \in SocketType
    BY <1>1, Update
  <1>3. /\ Same(s, u) /\ u.state = s.state /\ u.retx = s.retx /\ u.endPoint = s.endPoint
        /\ ~ u.lastAck /\ u.sendPending = s.sendPending /\ u.delAck = s.delAck
    BY <1>1 DEF SocketType, Same
  <1> HIDE DEF u
  <1>4. Buffers(u) /\ Live(u) /\ Quiet(u)
    BY <1>1, <1>3, SameKeeps DEF Live, Quiet
  <1>5. Timed(u) /\ u.nextRx = s.nextRx
    BY <1>1, <1>3 DEF Timed, Same
  <1>6. CASE s.state # "LAST_ACK"
    <2>1. t = u
      BY <1>6 DEF LastAckTimeout, u
    <2>2. Repeats(u)
      BY <1>1, <1>3, <1>6 DEF Repeats, Same
    <2> QED
      BY <1>2, <1>3, <1>4, <1>5, <2>1, <2>2 DEF Sane, Sound
  <1>7. CASE s.state = "LAST_ACK" /\ s.dataRetrCount = 0
    <2>1. t = DeallocateEndPoint(u)
      BY <1>7 DEF LastAckTimeout, u
    <2>2. t \in SocketType /\ Same(u, t) /\ t.state = u.state /\ ~ t.endPoint /\ Quiet(t)
      BY <1>2, <1>4, <2>1, DeallocateEndPointFacts
    <2> HIDE DEF t
    <2>3. Buffers(t) /\ Live(t)
      BY <1>4, <2>2, SameKeeps DEF Quiet
    <2>4. Timed(t) /\ Repeats(t) /\ t.nextRx = s.nextRx
      BY <1>3, <2>2 DEF Timed, Repeats, Same
    <2> QED
      BY <1>3, <2>2, <2>3, <2>4 DEF Sane, Sound, t
  <1>8. CASE s.state = "LAST_ACK" /\ s.dataRetrCount # 0
    <2> DEFINE v == [u EXCEPT !.dataRetrCount = s.dataRetrCount - 1]
               w == SendEmptyPacket(v, "FIN+ACK")
    <2>1. t = [w EXCEPT !.lastAck = TRUE]
      <3>1. u.dataRetrCount = s.dataRetrCount
        BY <1>1 DEF SocketType, u
      <3> QED
        BY <1>8, <3>1 DEF LastAckTimeout, u
    <2>2. v \in SocketType
      <3>1. s.dataRetrCount - 1 \in 0..DataRetries
        BY <1>1, <1>8, Fields, TcpAssumption
      <3> QED
        BY <1>2, <3>1, Update
    <2>3. /\ v.state = u.state /\ v.retx = u.retx /\ v.endPoint = u.endPoint
          /\ v.lastAck = u.lastAck /\ v.sendPending = u.sendPending /\ v.delAck = u.delAck
          /\ v.head = u.head /\ v.tail = u.tail /\ v.highTx = u.highTx /\ v.nextTx = u.nextTx
          /\ v.lost = u.lost /\ v.held = u.held /\ v.nextRx = u.nextRx
          /\ v.connected = u.connected /\ v.closed = u.closed
          /\ v.closeOnEmpty = u.closeOnEmpty /\ v.shutdownSend = u.shutdownSend
      BY <1>2 DEF SocketType
    <2> HIDE DEF v
    <2>4. Buffers(v) /\ Live(v) /\ Quiet(v)
      BY <1>4, <2>3 DEF Buffers, Live, Quiet
    <2>5. "FIN+ACK" \in Flags
      BY DEF Flags
    <2>6. /\ w \in SocketType /\ Quiet(w) /\ Same(v, w) /\ w.state = v.state /\ w.endPoint
          /\ w.retx = Armed(v, "FIN+ACK")
      <3>1. v.endPoint
        BY <1>1, <1>3, <2>3
      <3> QED
        BY <2>2, <2>4, <2>5, <3>1, SendEmptyPacketFacts
    <2> HIDE DEF w
    <2>7. w.retx \in {"rto", "FIN+ACK"}
      BY <2>4, <2>6 DEF Armed, Live
    <2>8. Buffers(w) /\ Live(w)
      BY <2>4, <2>6, <2>7, SameKeeps
    <2> HIDE DEF t
    <2>9. t \in SocketType
      BY <2>1, <2>6, Update
    <2>10. /\ Same(w, t) /\ t.state = w.state /\ t.retx = w.retx /\ t.endPoint = w.endPoint
           /\ t.lastAck
      BY <2>1, <2>6 DEF SocketType, Same
    <2>11. Buffers(t) /\ Live(t) /\ Quiet(t)
      BY <2>6, <2>7, <2>8, <2>10, SameKeeps DEF Quiet
    <2>12. Timed(t) /\ Repeats(t)
      BY <1>3, <1>8, <2>3, <2>6, <2>7, <2>10 DEF Timed, Repeats
    <2>13. t.state = s.state /\ t.nextRx = s.nextRx
      BY <1>3, <2>3, <2>6, <2>10 DEF Same
    <2> QED
      BY <2>9, <2>11, <2>12, <2>13 DEF Sane, Sound, t
  <1> QED
    BY <1>6, <1>7, <1>8

-----------------------------------------------------------------------------
(* Receiving data and acknowledgments *)

\* A finite set leaves a gap after any number.
LEMMA FirstGapFacts ==
    ASSUME NEW seq \in Nat, NEW held \in SUBSET Nat, IsFiniteSet(held)
    PROVE  /\ FirstGap(seq, held) \in Nat /\ FirstGap(seq, held) >= seq
           /\ FirstGap(seq, held) \notin held
           /\ \A p \in seq .. FirstGap(seq, held) - 1 : p \in held
  <1> DEFINE n == Cardinality(held)
             Free == {q \in seq .. seq + n : q \notin held}
             Gap(q) == q \notin held /\ \A p \in seq..(q - 1) : p \in held
  <1>1. n \in Nat
    BY FS_CardinalityType
  <1>2. Free # {}
    <2> SUFFICES ASSUME seq .. seq + n \subseteq held PROVE FALSE
      OBVIOUS
    <2>1. Cardinality(seq .. seq + n) <= n
      BY FS_Subset
    <2> HIDE DEF n
    <2> DEFINE top == seq + n
    <2>3. seq \in Int /\ top \in Int /\ top >= seq /\ top - seq = n
      BY <1>1
    <2>4. Cardinality(seq .. top) <= n
      BY <2>1
    <2> HIDE DEF top
    <2>5. Cardinality(seq .. top) = top - seq + 1
      BY <2>3, FS_Interval
    <2> QED
      BY <1>1, <2>3, <2>4, <2>5
  <1> HIDE DEF n
  <1>3. PICK q \in Free : \A p \in Free : q <= p
    <2>1. Free \in SUBSET Nat
      BY <1>1
    <2> HIDE DEF Free
    <2> QED
      BY <1>2, <2>1, Least
  <1>4. q \in seq .. seq + n /\ Gap(q)
    BY <1>1, <1>3
  <1> HIDE DEF Gap, Free
  <1>5. FirstGap(seq, held) \in seq .. seq + n /\ Gap(FirstGap(seq, held))
    <2>1. FirstGap(seq, held) = CHOOSE p \in seq .. seq + n : Gap(p)
      BY DEF FirstGap, n, Gap
    <2> QED
      BY <1>4, <2>1
  <1> QED
    BY <1>1, <1>5 DEF Gap

\* What storing a segment or a FIN leaves alone.
Kept(s, t) ==
    /\ t.state = s.state /\ t.endPoint = s.endPoint /\ t.connected = s.connected
    /\ t.head = s.head /\ t.tail = s.tail /\ t.nextTx = s.nextTx /\ t.highTx = s.highTx
    /\ t.lost = s.lost /\ t.recover = s.recover
    /\ t.retx = s.retx /\ t.lastAck = s.lastAck
    /\ t.closed = s.closed /\ t.closeOnEmpty = s.closeOnEmpty
    /\ t.shutdownSend = s.shutdownSend
    /\ t.delAck => s.delAck \/ s.endPoint
    /\ t.sendPending => s.sendPending

LEMMA KeptSound ==
    ASSUME NEW s, NEW t, t \in SocketType, Kept(s, t), IsFiniteSet(t.held), t.nextRx >= 1
    PROVE  (Sane(s) => Sane(t)) /\ (Sound(s) => Sound(t))
  <1>1. ASSUME Sane(s) PROVE Sane(t)
    <2>1. Quiet(t) /\ Buffers(t) /\ Live(t)
      BY <1>1 DEF Sane, Quiet, Buffers, Live, Kept
    <2>2. Timed(t)
      BY <1>1 DEF Sane, Timed, Kept
    <2> QED
      BY <2>1, <2>2 DEF Sane
  <1>2. ASSUME Repeats(s) PROVE Repeats(t)
    BY <1>2 DEF Repeats, Kept
  <1> QED
    BY <1>1, <1>2 DEF Sound

LEMMA AddFacts ==
    ASSUME NEW s \in SocketType, Buffers(s), NEW m \in Segments
    PROVE  LET t == Add(s, m)
           IN  /\ t \in SocketType /\ Kept(s, t) /\ IsFiniteSet(t.held)
               /\ t.nextRx >= s.nextRx /\ t.fin = s.fin /\ t.delAckCount = s.delAckCount
               /\ s.held = {} /\ m.seq = s.nextRx /\ s.fin = m.seq + 1 => t.nextRx > t.fin
  <1> DEFINE held == s.held \cup {m.seq}
             next == FirstGap(s.nextRx, held)
             taken == s.taken \cup {m.seq}
             later == {q \in held : q > next}
             nextRx == IF next = s.fin THEN next + 1 ELSE next
             t == Add(s, m)
  <1>1. m.seq \in Nat /\ s.nextRx \in Nat /\ s.held \in SUBSET Nat /\ s.taken \in SUBSET Nat
    BY Fields DEF Segments
  <1>2. held \in SUBSET Nat /\ IsFiniteSet(held)
    <2>1. IsFiniteSet(s.held)
      BY DEF Buffers
    <2> QED
      BY <1>1, <2>1, FS_AddElement
  <1>3. t = [s EXCEPT !.taken = taken, !.held = later, !.nextRx = nextRx]
    BY DEF Add
  <1> HIDE DEF t, held
  <1>4. next \in Nat /\ next >= s.nextRx /\ next \notin held
        /\ \A p \in s.nextRx .. next - 1 : p \in held
    BY <1>1, <1>2, FirstGapFacts
  <1> HIDE DEF next
  <1>5. nextRx \in Nat /\ nextRx >= s.nextRx
    BY <1>1, <1>4
  <1>6. later \in SUBSET Nat /\ IsFiniteSet(later)
    BY <1>2, FS_Subset
  <1>7. taken \in SUBSET Nat
    BY <1>1
  <1>8. ASSUME s.held = {}, m.seq = s.nextRx, s.fin = m.seq + 1
        PROVE  nextRx > s.fin
    <2>1. held = {m.seq}
      BY <1>8 DEF held
    <2>2. next # s.nextRx
      BY <1>4, <1>8, <2>1
    <2>3. ~ next > s.fin
      BY <1>1, <1>4, <1>8, <2>1
    <2> QED
      BY <1>1, <1>4, <1>8, <2>2, <2>3
  <1> HIDE DEF nextRx, later, taken
  <1>9. t \in SocketType
    BY <1>3, <1>5, <1>6, <1>7, Update
  <1>10. /\ Kept(s, t) /\ t.held = later /\ t.nextRx = nextRx /\ t.fin = s.fin
         /\ t.delAckCount = s.delAckCount
    BY <1>3 DEF SocketType, Kept
  <1> QED
    BY <1>5, <1>6, <1>8, <1>9, <1>10 DEF t

LEMMA SetFinFacts ==
    ASSUME NEW s \in SocketType, NEW seq \in Nat
    PROVE  LET t == SetFinSequence(s, seq)
           IN  /\ t \in SocketType /\ Kept(s, t) /\ t.held = s.held
               /\ t.nextRx >= s.nextRx /\ t.fin = seq
               /\ t.nextRx = IF s.nextRx = seq THEN seq + 1 ELSE s.nextRx
  <1> DEFINE nextRx == IF s.nextRx = seq THEN s.nextRx + 1 ELSE s.nextRx
             t == SetFinSequence(s, seq)
  <1>1. nextRx \in Nat /\ nextRx >= s.nextRx /\ nextRx = IF s.nextRx = seq THEN seq + 1 ELSE s.nextRx
    BY Fields
  <1>2. t = [s EXCEPT !.fin = seq, !.nextRx = nextRx]
    BY DEF SetFinSequence
  <1> HIDE DEF t, nextRx
  <1>3. t \in SocketType
    BY <1>1, <1>2, Update
  <1>4. Kept(s, t) /\ t.held = s.held /\ t.nextRx = nextRx /\ t.fin = seq
    BY <1>2 DEF SocketType, Kept
  <1> QED
    BY <1>1, <1>3, <1>4 DEF t

Receives == {"ESTABLISHED", "CLOSE_WAIT", "FIN_WAIT_1", "FIN_WAIT_2", "SYN_RCVD"}

\* Data leaves the state alone, unless it closes the gap before a FIN.
LEMMA ReceivedDataSound ==
    ASSUME NEW s, Sound(s), s.endPoint, s.state \in Receives, NEW m \in Segments
    PROVE  LET t == ReceivedData(s, m)
           IN  /\ Sound(t)
               /\ \/ t.state = s.state /\ t.endPoint
                  \/ m.flags # "FIN+ACK" /\ t.state \in {"CLOSE_WAIT", "LAST_ACK", "CLOSED"}
               /\ Open(s) => Open(t) /\ t.state \in {s.state, "CLOSE_WAIT"}
               /\ m.flags = "FIN+ACK" /\ s.held = {} /\ m.seq = s.nextRx /\ s.fin = m.seq + 1
                     => Finished(t)
  <1> DEFINE u == Add(s, m)
             gap == u.held # {} \/ u.nextRx > s.nextRx + m.len
             count == s.delAckCount + 1
             v == [u EXCEPT !.delAckCount = count, !.delAck = TRUE]
             t == ReceivedData(s, m)
             Final == m.flags = "FIN+ACK" /\ s.held = {} /\ m.seq = s.nextRx /\ s.fin = m.seq + 1
  <1>1. s \in SocketType /\ Buffers(s) /\ Live(s) /\ Sane(s)
    BY DEF Sane, Sound
  <1>2. /\ u \in SocketType /\ Kept(s, u) /\ IsFiniteSet(u.held)
        /\ u.nextRx >= s.nextRx /\ u.fin = s.fin /\ u.delAckCount = s.delAckCount
        /\ Final => u.nextRx > u.fin
    BY <1>1, AddFacts
  <1> HIDE DEF u
  <1>3. u.nextRx >= 1
    BY <1>1, <1>2, Fields DEF Live
  <1>4. Sound(u) /\ u.state = s.state /\ u.endPoint /\ (Open(s) => Open(u))
    BY <1>2, <1>3, KeptSound DEF Kept, Open
  <1>5. Final => Finished(u)
    <2> SUFFICES ASSUME Final PROVE Finished(u)
      OBVIOUS
    <2>1. u.fin \in Nat /\ u.fin < u.nextRx /\ u.fin # None
      BY <1>1, <1>2, Fields DEF Segments, None
    <2> QED
      BY <2>1 DEF Finished
  <1>6. CASE ~ CanAdd(s, m)
    <2>1. t = SendEmptyPacket(s, "ACK")
      BY <1>6 DEF ReceivedData
    <2>2. ~ Final
      <3> SUFFICES ASSUME Final PROVE CanAdd(s, m)
        BY <1>6
      <3> QED
        BY <1>1, Fields DEF CanAdd
    <2>3. Sane(t) /\ Repeats(t) /\ Same(s, t) /\ t.state = s.state /\ t.endPoint = s.endPoint
      BY <1>1, <2>1, SendEmptySound DEF Sound
    <2> QED
      BY <2>2, <2>3 DEF Sound, Same, Open
  <1>7. CASE CanAdd(s, m) /\ u.nextRx > s.nextRx /\ Finished(u) /\ m.flags # "FIN+ACK"
    <2>1. t = DoPeerClose(u)
      BY <1>7 DEF ReceivedData, u
    <2>2. /\ Sound(t) /\ t.state \in {"CLOSE_WAIT", "LAST_ACK", "CLOSED"}
          /\ Open(u) => Open(t) /\ t.state = "CLOSE_WAIT"
      BY <1>4, <2>1, DoPeerCloseSound DEF Sound, Receives
    <2> QED
      BY <1>4, <1>7, <2>2
  <1> DEFINE Closing == u.nextRx > s.nextRx /\ Finished(u) /\ m.flags # "FIN+ACK"
  <1>8. CASE CanAdd(s, m) /\ ~ Closing /\ (gap \/ count >= DelAckMaxCount)
    <2>1. t = SendEmptyPacket(u, "ACK")
      BY <1>8 DEF ReceivedData, u
    <2>2. /\ Sound(t) /\ t.state = u.state /\ t.endPoint = u.endPoint
          /\ t.fin = u.fin /\ t.nextRx = u.nextRx /\ (Open(u) => Open(t))
      <3>1. Sane(u) /\ Repeats(u)
        BY <1>4 DEF Sound
      <3>2. /\ Sane(t) /\ Repeats(t) /\ Same(u, t)
            /\ t.state = u.state /\ t.endPoint = u.endPoint
        BY <2>1, <3>1, SendEmptySound
      <3> QED
        BY <3>2 DEF Sound, Same, Open
    <2> QED
      BY <1>4, <1>5, <2>2 DEF Finished
  <1>9. CASE CanAdd(s, m) /\ ~ Closing /\ ~ (gap \/ count >= DelAckMaxCount)
    <2>1. t = v
      BY <1>9 DEF ReceivedData, u
    <2>2. count \in 0..DelAckMaxCount
      <3>1. s.delAckCount \in 0..DelAckMaxCount /\ DelAckMaxCount \in Nat
        BY <1>1, Fields, TcpAssumption
      <3> QED
        BY <1>9, <3>1
    <2> HIDE DEF t, count
    <2>3. v \in SocketType
      BY <1>2, <2>2, Update
    <2>4. Kept(u, v) /\ v.held = u.held /\ v.nextRx = u.nextRx /\ v.fin = u.fin
      BY <1>2, <1>4 DEF SocketType, Kept
    <2> HIDE DEF v
    <2>5. Sound(v) /\ v.state = u.state /\ v.endPoint = u.endPoint /\ (Open(u) => Open(v))
      BY <1>2, <1>3, <1>4, <2>3, <2>4, KeptSound DEF Kept, Open
    <2> QED
      BY <1>4, <1>5, <2>1, <2>4, <2>5 DEF Finished, t
  <1> QED
    BY <1>6, <1>7, <1>8, <1>9

\* DiscardUpTo and ProcessAck: what is acknowledged leaves the buffer, and the
\* timer runs as long as anything remains.
LEMMA ProcessAckSound ==
    ASSUME NEW s, Sound(s), s.endPoint, s.state \in Receives \ {"SYN_RCVD"},
           NEW ack \in Nat, ack >= s.head
    PROVE  LET t == ProcessAck(DiscardUpTo(s, ack), ack, s.head)
           IN  Sound(t) /\ t.state = s.state /\ t.endPoint /\ (Open(s) => Open(t))
  <1> DEFINE t == ProcessAck(DiscardUpTo(s, ack), ack, s.head)
  <1>1. s \in SocketType /\ Quiet(s) /\ Buffers(s) /\ Live(s) /\ Timed(s) /\ Repeats(s)
    BY DEF Sane, Sound
  <1>2. s.head \in Nat /\ s.tail \in Nat /\ s.nextTx \in Nat /\ s.highTx \in Nat
        /\ s.lost \in SUBSET Nat /\ s.recover \in Nat
    BY <1>1, Fields
  <1>3. CASE ack > s.head
    <2> DEFINE tail == Bigger(s.tail, ack)
               lost == {q \in s.lost : q >= ack}
               recover == IF ack >= s.recover THEN 0 ELSE s.recover
               nextTx == Bigger(s.nextTx, ack)
               retx == IF tail = ack /\ s.state # "FIN_WAIT_1" THEN "off" ELSE "rto"
               u == DiscardUpTo(s, ack)
               v == [u EXCEPT !.recover = IF ack >= @ THEN 0 ELSE @]
               w == [v EXCEPT !.dataRetrCount = DataRetries, !.nextTx = Bigger(@, ack)]
    <2>1. u = [s EXCEPT !.head = ack, !.tail = tail, !.lost = lost]
      BY <1>2, <1>3 DEF DiscardUpTo
    <2>2. t = NewAck(v, ack)
      BY <1>3 DEF ProcessAck
    <2> HIDE DEF tail, lost, u
    <2>3. v = [s EXCEPT !.head = ack, !.tail = tail, !.lost = lost, !.recover = recover]
      <3>1. u.recover = s.recover
        BY <1>1, <2>1 DEF SocketType
      <3> QED
        BY <2>1, <3>1
    <2> HIDE DEF v, recover
    <2>4. w = [s EXCEPT !.head = ack, !.tail = tail, !.lost = lost, !.recover = recover,
                        !.dataRetrCount = DataRetries, !.nextTx = nextTx]
      <3>1. v.nextTx = s.nextTx
        BY <1>1, <2>3 DEF SocketType
      <3> QED
        BY <2>3, <3>1
    <2> HIDE DEF w, nextTx
    <2>5. t = [s EXCEPT !.head = ack, !.tail = tail, !.lost = lost, !.recover = recover,
                        !.dataRetrCount = DataRetries, !.nextTx = nextTx, !.retx = retx]
      <3>1. w.head = ack /\ w.tail = tail /\ w.state = s.state /\ s.state \notin {"CLOSING", "SYN_RCVD"}
        BY <1>1, <2>4 DEF SocketType, Receives
      <3>2. TxSize(w) = 0 <=> tail = ack
        BY <1>2, <3>1 DEF TxSize, tail, Bigger
      <3>3. t = IF TxSize(w) = 0 /\ w.state \notin {"FIN_WAIT_1", "CLOSING"}
                THEN [w EXCEPT !.retx = "off"]
                ELSE [w EXCEPT !.retx = IF w.state = "SYN_RCVD" THEN @ ELSE "rto"]
        BY <2>2 DEF NewAck, w
      <3>4. t = [w EXCEPT !.retx = retx]
        BY <3>1, <3>2, <3>3
      <3> QED
        BY <2>4, <3>4
    <2> HIDE DEF t
    <2>6. /\ tail \in Nat /\ tail >= s.tail /\ tail >= ack /\ lost \in SUBSET Nat
          /\ nextTx \in Nat /\ nextTx >= ack /\ recover \in Nat
      BY <1>2 DEF tail, lost, nextTx, recover, Bigger
    <2>7. retx \in Retx /\ retx \in {"off", "rto"}
      BY DEF Retx
    <2>8. t \in SocketType
      <3>1. DataRetries \in 0..DataRetries
        BY TcpAssumption
      <3> HIDE DEF retx
      <3> QED
        BY <1>1, <2>5, <2>6, <2>7, <3>1, Update
    <2>9. /\ t.head = ack /\ t.tail = tail /\ t.lost = lost /\ t.nextTx = nextTx
          /\ t.retx = retx /\ t.state = s.state /\ t.endPoint = s.endPoint
          /\ t.highTx = s.highTx /\ t.nextRx = s.nextRx /\ t.held = s.held
          /\ t.connected = s.connected /\ t.closed = s.closed /\ t.lastAck = s.lastAck
          /\ t.closeOnEmpty = s.closeOnEmpty /\ t.shutdownSend = s.shutdownSend
      BY <1>1, <2>5 DEF SocketType
    <2>10. Buffers(t)
      <3>1. s.lost \subseteq s.head .. s.highTx - 1 /\ s.highTx <= s.tail /\ IsFiniteSet(s.held)
        BY <1>1 DEF Buffers
      <3>2. lost \subseteq ack .. s.highTx - 1
        BY <1>2, <3>1 DEF lost
      <3>3. s.highTx <= tail
        BY <1>2, <2>6, <3>1
      <3> QED
        BY <2>6, <2>9, <3>1, <3>2, <3>3 DEF Buffers
    <2>11. Live(t) /\ Quiet(t)
      BY <1>1, <2>7, <2>9 DEF Live, Quiet
    <2>12. retx = "rto" => ack < tail \/ s.state = "FIN_WAIT_1"
      BY <2>6
    <2>13. s.highTx > ack => retx # "off"
      <3>1. s.highTx <= s.tail
        BY <1>1 DEF Buffers
      <3> QED
        BY <1>2, <2>6, <3>1
    <2>14. s.state = "FIN_WAIT_1" => retx # "off"
      OBVIOUS
    <2> HIDE DEF retx
    <2>15. Timed(t) /\ Repeats(t)
      BY <1>1, <2>7, <2>9, <2>12, <2>13, <2>14 DEF Timed, Repeats, Receives
    <2> QED
      BY <2>8, <2>9, <2>10, <2>11, <2>15 DEF Sane, Sound, Open, t
  <1>4. CASE ack = s.head /\ ack > s.highTx
    <2>1. t = [s EXCEPT !.nextTx = ack]
      <3>1. DiscardUpTo(s, ack) = s
        BY <1>2, <1>4 DEF DiscardUpTo
      <3> QED
        BY <1>2, <1>4, <3>1 DEF ProcessAck
    <2> HIDE DEF t
    <2>2. t \in SocketType
      BY <1>1, <2>1, Update
    <2>3. /\ t.nextTx = ack /\ t.head = s.head /\ t.tail = s.tail /\ t.lost = s.lost
          /\ t.retx = s.retx /\ t.state = s.state /\ t.endPoint = s.endPoint
          /\ t.highTx = s.highTx /\ t.nextRx = s.nextRx /\ t.held = s.held
          /\ t.connected = s.connected /\ t.closed = s.closed /\ t.lastAck = s.lastAck
          /\ t.closeOnEmpty = s.closeOnEmpty /\ t.shutdownSend = s.shutdownSend
      BY <1>1, <2>1 DEF SocketType
    <2>4. Quiet(t) /\ Buffers(t) /\ Live(t)
      BY <1>1, <1>2, <1>4, <2>3 DEF Quiet, Buffers, Live
    <2>5. Timed(t) /\ Repeats(t)
      BY <1>1, <2>3 DEF Timed, Repeats
    <2> QED
      BY <2>2, <2>3, <2>4, <2>5 DEF Sane, Sound, Open, t
  <1>5. CASE ack = s.head /\ ~ ack > s.highTx
    <2>1. t = s
      <3>1. DiscardUpTo(s, ack) = s
        BY <1>2, <1>5 DEF DiscardUpTo
      <3> QED
        BY <1>2, <1>5, <3>1 DEF ProcessAck
    <2> QED
      BY <2>1
  <1> QED
    BY <1>2, <1>3, <1>4, <1>5

\* How an acknowledgment, with the data and the sending that come with it, may
\* change the state.
Advances(from, to) ==
    \/ to \in {from, "CLOSE_WAIT", "LAST_ACK", "CLOSED"}
    \/ from = "ESTABLISHED" /\ to = "FIN_WAIT_1"

LEMMA ReceivedAckSound ==
    ASSUME NEW s, Sound(s), s.endPoint, s.state \in Receives \ {"SYN_RCVD"},
           NEW m \in Segments, NEW cwnd \in Nat
    PROVE  LET t == ReceivedAck(s, m, cwnd)
           IN  /\ Sound(t) /\ Advances(s.state, t.state)
               /\ Open(s) => t.state \in {s.state, "CLOSE_WAIT"}
  <1> DEFINE Piggybacked(u) == IF m.len > 0 THEN ReceivedData(u, m) ELSE u
             acked == ProcessAck(DiscardUpTo(s, m.ack), m.ack, s.head)
             t == ReceivedAck(s, m, cwnd)
  <1>1. s \in SocketType /\ m.ack \in Nat /\ s.head \in Nat
    BY Fields DEF Sane, Sound, Segments
  <1>2. ASSUME NEW u, Sound(u), u.endPoint, u.state = s.state
        PROVE  /\ Sound(Piggybacked(u))
               /\ Piggybacked(u).state \in {s.state, "CLOSE_WAIT", "LAST_ACK", "CLOSED"}
               /\ Open(u) => /\ Open(Piggybacked(u))
                              /\ Piggybacked(u).state \in {s.state, "CLOSE_WAIT"}
    BY <1>2, ReceivedDataSound
  <1>3. CASE m.ack < s.head
    <2>1. t = Piggybacked(s)
      BY <1>3 DEF ReceivedAck
    <2> HIDE DEF Piggybacked
    <2> QED
      BY <1>2, <2>1 DEF Advances
  <1>4. CASE ~ m.ack < s.head
    <2>1. t = SendPendingData(Piggybacked(acked), cwnd)
      BY <1>4 DEF ReceivedAck
    <2>2. Sound(acked) /\ acked.state = s.state /\ acked.endPoint /\ (Open(s) => Open(acked))
      BY <1>1, <1>4, ProcessAckSound
    <2> HIDE DEF Piggybacked, acked
    <2>3. /\ Sound(Piggybacked(acked))
          /\ Piggybacked(acked).state \in {s.state, "CLOSE_WAIT", "LAST_ACK", "CLOSED"}
          /\ Open(s) => /\ Open(Piggybacked(acked))
                         /\ Piggybacked(acked).state \in {s.state, "CLOSE_WAIT"}
      BY <1>2, <2>2
    <2>4. Piggybacked(acked).state # "SYN_RCVD"
      BY <2>3 DEF Receives
    <2>5. /\ Sound(t) /\ Ends(Piggybacked(acked).state, t.state)
          /\ Open(Piggybacked(acked)) => t.state = Piggybacked(acked).state
      BY <2>1, <2>3, <2>4, SendPendingSound
    <2> QED
      BY <2>3, <2>5 DEF Ends, Advances
  <1> QED
    BY <1>3, <1>4

\* A FIN in ESTABLISHED, or in SYN_RCVD from a peer that closed at once.
LEMMA PeerCloseSound ==
    ASSUME NEW s, Sound(s), s.endPoint, s.state \in {"ESTABLISHED", "SYN_RCVD"},
           NEW m \in Segments, m.flags = "FIN+ACK"
    PROVE  LET t == PeerClose(s, m)
           IN  /\ Sound(t) /\ t.state \in {s.state, "CLOSE_WAIT", "LAST_ACK", "CLOSED"}
               /\ Open(s) => t.state \in {s.state, "CLOSE_WAIT"}
               /\ s.held = {} /\ m.seq = s.nextRx /\ s.fin = None
                     => t.state \in {"CLOSE_WAIT", "LAST_ACK", "CLOSED"}
  <1> DEFINE f == SetFinSequence(s, m.seq + m.len)
             u == IF m.len > 0 THEN ReceivedData(f, m) ELSE f
             t == PeerClose(s, m)
             First == s.held = {} /\ m.seq = s.nextRx /\ s.fin = None
  <1>1. s \in SocketType /\ Buffers(s) /\ Live(s)
    BY DEF Sane, Sound
  <1>2. m.seq \in Nat /\ m.len \in {0, 1} /\ s.nextRx \in Nat
    BY <1>1, Fields DEF Segments
  <1>3. /\ f \in SocketType /\ Kept(s, f) /\ f.held = s.held
        /\ f.nextRx >= s.nextRx /\ f.fin = m.seq + m.len
        /\ f.nextRx = IF s.nextRx = m.seq + m.len THEN m.seq + m.len + 1 ELSE s.nextRx
    <2>1. m.seq + m.len \in Nat
      BY <1>2
    <2> QED
      BY <1>1, <2>1, SetFinFacts
  <1>4. t = IF m.seq < s.nextRx \/ (s.fin # None /\ m.seq > s.fin) THEN s
            ELSE IF ~ Finished(u) THEN u
            ELSE IF u.state = "FIN_WAIT_1" THEN [u EXCEPT !.state = "CLOSING"]
            ELSE DoPeerClose(u)
    BY DEF PeerClose
  <1> HIDE DEF f
  <1>5. Sound(f) /\ f.state = s.state /\ f.endPoint /\ (Open(s) => Open(f))
    <2>1. IsFiniteSet(f.held) /\ f.nextRx >= 1
      BY <1>1, <1>3, Fields DEF Buffers, Live
    <2> QED
      BY <1>3, <2>1, KeptSound DEF Kept, Open
  <1>6. /\ Sound(u) /\ u.state = s.state /\ u.endPoint /\ (First => Finished(u))
        /\ Open(s) => Open(u)
    <2>1. CASE m.len > 0
      <3>1. u = ReceivedData(f, m) /\ m.len = 1
        BY <1>2, <2>1
      <3>2. First => f.held = {} /\ m.seq = f.nextRx /\ f.fin = m.seq + 1
        BY <1>2, <1>3, <3>1
      <3> HIDE DEF u
      <3> QED
        BY <1>5, <3>1, <3>2, ReceivedDataSound DEF Receives
    <2>2. CASE ~ m.len > 0
      <3>1. u = f /\ m.len = 0
        BY <1>2, <2>2
      <3> HIDE DEF u
      <3>2. First => f.nextRx = m.seq + 1 /\ f.fin = m.seq
        BY <1>2, <1>3, <3>1
      <3> QED
        BY <1>2, <1>5, <3>1, <3>2 DEF Finished, None
    <2> QED
      BY <2>1, <2>2
  <1> HIDE DEF u, t
  <1>7. CASE m.seq < s.nextRx \/ (s.fin # None /\ m.seq > s.fin)
    BY <1>2, <1>4, <1>7 DEF t
  <1>8. CASE ~ (m.seq < s.nextRx \/ (s.fin # None /\ m.seq > s.fin)) /\ ~ Finished(u)
    BY <1>4, <1>6, <1>8 DEF t
  <1>9. CASE ~ (m.seq < s.nextRx \/ (s.fin # None /\ m.seq > s.fin)) /\ Finished(u)
    <2>1. t = DoPeerClose(u)
      BY <1>4, <1>6, <1>9
    <2> QED
      BY <1>6, <2>1, DoPeerCloseSound DEF Sound, t
  <1> QED
    BY <1>7, <1>8, <1>9

-----------------------------------------------------------------------------
(* One handler per state, for a connected socket *)

Goes(from, to) == to = from \/ <<from, to>> \in Moves

LEMMA ProcessEstablishedSound ==
    ASSUME NEW s, Sound(s), s.endPoint, s.state = "ESTABLISHED",
           NEW m \in Segments, NEW cwnd \in Nat
    PROVE  LET t == ProcessEstablished(s, m, cwnd)
           IN  Sound(t) /\ Advances(s.state, t.state)
  <1> DEFINE t == ProcessEstablished(s, m, cwnd)
  <1>1. m.flags \in Flags
    BY DEF Segments
  <1>2. CASE m.flags = "ACK"
    <2>1. t \in {s, SendEmptyPacket(s, "ACK"), ReceivedAck(s, m, cwnd)}
      BY <1>2 DEF ProcessEstablished
    <2>2. CASE t = s
      BY <2>2 DEF Advances
    <2>3. CASE t = SendEmptyPacket(s, "ACK")
      BY <2>3, SendEmptySound DEF Advances, Sound
    <2>4. CASE t = ReceivedAck(s, m, cwnd)
      BY <2>4, ReceivedAckSound DEF Receives
    <2> QED
      BY <2>1, <2>2, <2>3, <2>4
  <1>3. CASE m.flags \in {"SYN", "SYN+ACK"}
    <2>1. t = s
      BY <1>3 DEF ProcessEstablished
    <2> QED
      BY <2>1 DEF Advances
  <1>4. CASE m.flags = "FIN+ACK"
    <2>1. t = PeerClose(s, m)
      BY <1>4 DEF ProcessEstablished
    <2> QED
      BY <1>4, <2>1, PeerCloseSound DEF Advances
  <1>5. CASE m.flags = "RST"
    <2>1. t = CloseAndNotify(s)
      BY <1>5 DEF ProcessEstablished
    <2> QED
      BY <2>1, CloseAndNotifySound DEF Advances, Sound
  <1> QED
    BY <1>1, <1>2, <1>3, <1>4, <1>5 DEF Flags

Waiting == {"FIN_WAIT_1", "FIN_WAIT_2", "CLOSE_WAIT"}

\* What is left of a wait when an acknowledgment was processed.
Waits(from, to) ==
    \/ to \in {from, "CLOSE_WAIT", "LAST_ACK", "CLOSED"}
    \/ from = "FIN_WAIT_1" /\ to = "FIN_WAIT_2"

LEMMA ProcessWaitAckSound ==
    ASSUME NEW s, Sound(s), s.endPoint, s.state \in Waiting,
           NEW m \in Segments, NEW cwnd \in Nat
    PROVE  LET t == ProcessWaitAck(s, m, cwnd)
           IN  Sound(t) /\ Waits(s.state, t.state)
  <1> DEFINE u == ReceivedAck(s, m, cwnd)
             v == [u EXCEPT !.state = "FIN_WAIT_2"]
             t == ProcessWaitAck(s, m, cwnd)
  <1>1. Sound(u) /\ Advances(s.state, u.state)
    BY ReceivedAckSound DEF Receives, Waiting
  <1>2. t = IF u.state = "FIN_WAIT_1" /\ AcksFin(u, m) THEN v ELSE u
    BY DEF ProcessWaitAck
  <1>3. u \in SocketType /\ Quiet(u) /\ Buffers(u) /\ Live(u) /\ Timed(u) /\ Repeats(u)
    BY <1>1 DEF Sane, Sound
  <1> HIDE DEF u, t
  <1>4. CASE u.state = "FIN_WAIT_1" /\ AcksFin(u, m)
    <2>1. v \in SocketType
      BY <1>3, Update DEF State
    <2>2. Same(u, v) /\ v.state = "FIN_WAIT_2" /\ v.retx = u.retx /\ v.endPoint = u.endPoint
          /\ v.lastAck = u.lastAck /\ v.sendPending = u.sendPending /\ v.delAck = u.delAck
      BY <1>3 DEF SocketType, Same
    <2> HIDE DEF v
    <2>3. Buffers(v) /\ Live(v) /\ Quiet(v)
      BY <1>3, <2>2, SameKeeps DEF Live, Quiet
    <2>4. Timed(v) /\ Repeats(v)
      BY <1>3, <1>4, <2>2 DEF Timed, Repeats, Same
    <2>5. s.state = "FIN_WAIT_1"
      BY <1>1, <1>4 DEF Advances, Waiting
    <2> QED
      BY <1>2, <1>4, <2>1, <2>2, <2>3, <2>4, <2>5 DEF Sane, Sound, Waits, t
  <1>5. CASE ~ (u.state = "FIN_WAIT_1" /\ AcksFin(u, m))
    BY <1>1, <1>2, <1>5 DEF Advances, Waits, Waiting, t
  <1> QED
    BY <1>4, <1>5

LEMMA ProcessWaitFinSound ==
    ASSUME NEW s, Sound(s), s.endPoint, s.state \in Waiting,
           NEW m \in Segments, NEW cwnd \in Nat
    PROVE  LET t == ProcessWaitFin(s, m, cwnd)
           IN  Sound(t) /\ Waits(s.state, t.state)
  <1> DEFINE u == ReceivedAck(s, m, cwnd)
             t == SetFinSequence(u, m.seq)
  <1>1. Sound(u) /\ Advances(s.state, u.state)
    BY ReceivedAckSound DEF Receives, Waiting
  <1>2. u \in SocketType /\ Buffers(u) /\ Live(u) /\ u.nextRx \in Nat /\ m.seq \in Nat
    BY <1>1, Fields DEF Sane, Sound, Segments
  <1>3. ProcessWaitFin(s, m, cwnd) = t
    BY DEF ProcessWaitFin
  <1> HIDE DEF u
  <1>4. t \in SocketType /\ Kept(u, t) /\ t.held = u.held /\ t.nextRx >= u.nextRx /\ t.nextRx \in Nat
    BY <1>2, SetFinFacts, Fields
  <1> HIDE DEF t
  <1>5. IsFiniteSet(t.held) /\ t.nextRx >= 1
    BY <1>2, <1>4 DEF Buffers, Live
  <1>6. Sound(t) /\ t.state = u.state
    BY <1>1, <1>4, <1>5, KeptSound DEF Kept
  <1> QED
    BY <1>1, <1>3, <1>6 DEF Advances, Waits, Waiting

\* TIME_WAIT runs no timer but its own.
LEMMA TimeWaitSound ==
    ASSUME NEW s, Sane(s)
    PROVE  Sound(TimeWait(s)) /\ TimeWait(s).state = "TIME_WAIT"
  <1> DEFINE t == TimeWait(s)
  <1>1. s \in SocketType /\ Quiet(s) /\ Buffers(s) /\ Live(s)
    BY DEF Sane
  <1>2. t = [s EXCEPT !.state = "TIME_WAIT", !.retx = "off", !.lastAck = FALSE,
                      !.delAck = FALSE, !.sendPending = FALSE]
    BY DEF TimeWait
  <1> HIDE DEF t
  <1>3. t \in SocketType
    <2>1. "TIME_WAIT" \in State /\ "off" \in Retx /\ FALSE \in BOOLEAN
      BY DEF State, Retx
    <2> QED
      BY <1>1, <1>2, <2>1, Update
  <1>4. Same(s, t) /\ t.state = "TIME_WAIT" /\ t.retx = "off" /\ Quiet(t)
    BY <1>1, <1>2 DEF SocketType, Same, Quiet
  <1>5. Buffers(t) /\ Live(t) /\ Timed(t) /\ Repeats(t)
    <2>1. Buffers(t) /\ Live(t)
      BY <1>1, <1>4, SameKeeps
    <2> QED
      BY <1>4, <2>1 DEF Timed, Repeats
  <1> QED
    BY <1>3, <1>4, <1>5 DEF Sane, Sound, t

LEMMA FinishWaitSound ==
    ASSUME NEW s, Sound(s), NEW m \in Segments
    PROVE  LET t == FinishWait(s, m)
           IN  /\ Sound(t)
               /\ \/ t.state = s.state
                  \/ s.state = "FIN_WAIT_1" /\ t.state = "CLOSING"
                  \/ s.state \in {"FIN_WAIT_1", "FIN_WAIT_2"} /\ t.state = "TIME_WAIT"
  <1> DEFINE closing == [s EXCEPT !.state = "CLOSING"]
             t == FinishWait(s, m)
  <1>1. Sane(s) /\ s \in SocketType /\ Quiet(s) /\ Buffers(s) /\ Live(s) /\ Timed(s)
    BY DEF Sane, Sound
  <1>2. CASE ~ (s.state \in {"FIN_WAIT_1", "FIN_WAIT_2"} /\ Finished(s))
    <2>1. t = s
      BY <1>2 DEF FinishWait
    <2> QED
      BY <2>1
  <1>3. CASE s.state = "FIN_WAIT_1" /\ Finished(s) /\ ~ AcksFin(s, m)
    <2>1. t = SendEmptyPacket(closing, "ACK")
      BY <1>3 DEF FinishWait
    <2>2. closing \in SocketType
      BY <1>1, Update DEF State
    <2>3. /\ Same(s, closing) /\ closing.state = "CLOSING" /\ closing.retx = s.retx
          /\ closing.endPoint = s.endPoint /\ closing.lastAck = s.lastAck
          /\ closing.sendPending = s.sendPending /\ closing.delAck = s.delAck
      BY <1>1 DEF SocketType, Same
    <2> HIDE DEF closing
    <2>4. Buffers(closing) /\ Live(closing) /\ Quiet(closing)
      BY <1>1, <2>3, SameKeeps DEF Live, Quiet
    <2>5. Timed(closing) /\ Repeats(closing)
      BY <1>1, <1>3, <2>3 DEF Timed, Repeats, Same
    <2>6. Sane(closing)
      BY <2>2, <2>4, <2>5 DEF Sane
    <2> QED
      BY <1>3, <2>1, <2>3, <2>5, <2>6, SendEmptySound DEF Sound
  <1>4. CASE /\ s.state \in {"FIN_WAIT_1", "FIN_WAIT_2"} /\ Finished(s)
             /\ ~ (s.state = "FIN_WAIT_1" /\ ~ AcksFin(s, m))
    <2>1. t = SendEmptyPacket(TimeWait(s), "ACK")
      BY <1>4 DEF FinishWait
    <2> QED
      BY <1>1, <1>4, <2>1, TimeWaitSound, SendEmptySound DEF Sound
  <1> QED
    BY <1>2, <1>3, <1>4

LEMMA ProcessWaitSound ==
    ASSUME NEW s, Sound(s), s.endPoint, s.state \in Waiting,
           NEW m \in Segments, NEW cwnd \in Nat
    PROVE  LET t == ProcessWait(s, m, cwnd)
           IN  Sound(t) /\ Goes(s.state, t.state)
               /\ t.state \notin {"SYN_SENT", "SYN_RCVD"}
  <1> DEFINE t == ProcessWait(s, m, cwnd)
  <1>1. m.flags \in Flags
    BY DEF Segments
  <1>2. ASSUME NEW u, Sound(u), Waits(s.state, u.state), t = FinishWait(u, m)
        PROVE  Sound(t) /\ Goes(s.state, t.state) /\ t.state \notin {"SYN_SENT", "SYN_RCVD"}
    <2>1. /\ Sound(t)
          /\ \/ t.state = u.state
             \/ u.state = "FIN_WAIT_1" /\ t.state = "CLOSING"
             \/ u.state \in {"FIN_WAIT_1", "FIN_WAIT_2"} /\ t.state = "TIME_WAIT"
      BY <1>2, FinishWaitSound
    <2> QED
      BY <1>2, <2>1 DEF Waits, Waiting, Goes, Moves
  <1>3. CASE m.flags = "ACK"
    <2>1. t = FinishWait(ProcessWaitAck(s, m, cwnd), m)
      BY <1>3 DEF ProcessWait
    <2> HIDE DEF t
    <2> QED
      BY <1>2, <2>1, ProcessWaitAckSound DEF t
  <1>4. CASE m.flags = "FIN+ACK"
    <2>1. t = FinishWait(ProcessWaitFin(s, m, cwnd), m)
      BY <1>4 DEF ProcessWait
    <2> HIDE DEF t
    <2> QED
      BY <1>2, <2>1, ProcessWaitFinSound DEF t
  <1>5. CASE m.flags \in {"SYN", "SYN+ACK"}
    <2>1. t = s
      BY <1>5 DEF ProcessWait
    <2> QED
      BY <2>1 DEF Goes, Waiting
  <1>6. CASE m.flags = "RST"
    <2>1. t = CloseAndNotify(s)
      BY <1>6 DEF ProcessWait
    <2> QED
      BY <2>1, CloseAndNotifySound DEF Goes, Moves, Sound, Waiting
  <1> QED
    BY <1>1, <1>3, <1>4, <1>5, <1>6 DEF Flags

LEMMA ProcessClosingSound ==
    ASSUME NEW s, Sound(s), s.state = "CLOSING", NEW m \in Segments
    PROVE  LET t == ProcessClosing(s, m)
           IN  Sound(t) /\ t.state \in {"CLOSING", "TIME_WAIT", "CLOSED"}
  <1> DEFINE t == ProcessClosing(s, m)
  <1>1. Sane(s) /\ Sane(SendEmptyPacket(s, "ACK")) /\ Sane(SendRST(s))
    BY SendEmptySound, SendRSTFacts DEF Sound
  <1>2. m.flags \in Flags
    BY DEF Segments
  <1>3. t \in {s, TimeWait(s), CloseAndNotify(s), CloseAndNotify(SendEmptyPacket(s, "ACK")),
               CloseAndNotify(SendRST(s))}
    BY <1>2 DEF ProcessClosing, Flags
  <1> QED
    BY <1>1, <1>3, TimeWaitSound, CloseAndNotifySound

LEMMA ProcessLastAckSound ==
    ASSUME NEW s, Sound(s), s.state = "LAST_ACK", NEW m \in Segments
    PROVE  LET t == ProcessLastAck(s, m)
           IN  Sound(t) /\ t.state \in {"LAST_ACK", "CLOSED"}
  <1> DEFINE t == ProcessLastAck(s, m)
  <1>1. Sane(s) /\ Sane(SendRST(s))
    BY SendRSTFacts DEF Sound
  <1>2. m.flags \in Flags
    BY DEF Segments
  <1>3. t \in {s, CloseAndNotify(s), CloseAndNotify(SendRST(s))}
    BY <1>2 DEF ProcessLastAck, Flags
  <1> QED
    BY <1>1, <1>3, CloseAndNotifySound

\* Whatever arrives, a connected socket stays sound and moves forward.
LEMMA ForwardUpSound ==
    ASSUME NEW s, Sound(s), s.endPoint, s.state \notin {"SYN_SENT", "SYN_RCVD"},
           NEW m \in Segments, NEW cwnd \in Nat
    PROVE  LET t == ForwardUp(s, m, cwnd)
           IN  Sound(t) /\ Goes(s.state, t.state) /\ t.state \notin {"SYN_SENT", "SYN_RCVD"}
  <1> DEFINE t == ForwardUp(s, m, cwnd)
  <1>1. s.state \in State /\ s.state \notin {"CLOSED", "LISTEN"}
    BY Fields DEF Sane, Sound, Timed
  <1>2. CASE m.len > 0 /\ OutOfRange(s, m)
    <2>1. t = SendEmptyPacket(s, "ACK")
      BY <1>2 DEF ForwardUp
    <2> QED
      BY <2>1, SendEmptySound DEF Sound, Goes
  <1>3. CASE ~ (m.len > 0 /\ OutOfRange(s, m))
    <2>1. CASE s.state = "ESTABLISHED"
      <3>1. t = ProcessEstablished(s, m, cwnd)
        BY <1>3, <2>1 DEF ForwardUp
      <3>2. Sound(t) /\ Advances(s.state, t.state)
        BY <2>1, <3>1, ProcessEstablishedSound
      <3> HIDE DEF t
      <3> QED
        BY <2>1, <3>2 DEF Advances, Goes, Moves, t
    <2>2. CASE s.state \in Waiting
      <3>1. t = ProcessWait(s, m, cwnd)
        BY <1>3, <2>2 DEF ForwardUp, Waiting
      <3> QED
        BY <2>2, <3>1, ProcessWaitSound
    <2>3. CASE s.state = "CLOSING"
      <3>1. t = ProcessClosing(s, m)
        BY <1>3, <2>3 DEF ForwardUp
      <3>2. Sound(t) /\ t.state \in {"CLOSING", "TIME_WAIT", "CLOSED"}
        BY <2>3, <3>1, ProcessClosingSound
      <3> HIDE DEF t
      <3> QED
        BY <2>3, <3>2 DEF Goes, Moves, t
    <2>4. CASE s.state = "LAST_ACK"
      <3>1. t = ProcessLastAck(s, m)
        BY <1>3, <2>4 DEF ForwardUp
      <3>2. Sound(t) /\ t.state \in {"LAST_ACK", "CLOSED"}
        BY <2>4, <3>1, ProcessLastAckSound
      <3> HIDE DEF t
      <3> QED
        BY <2>4, <3>2 DEF Goes, Moves, t
    <2>5. CASE s.state = "TIME_WAIT"
      <3>1. t = s
        BY <1>3, <2>5 DEF ForwardUp
      <3> QED
        BY <2>5, <3>1 DEF Goes
    <2> QED
      BY <1>1, <2>1, <2>2, <2>3, <2>4, <2>5 DEF State, Waiting
  <1> QED
    BY <1>2, <1>3

-----------------------------------------------------------------------------
(* Before the handshake *)

\* A segment of the handshake is the only thing a blank socket emits.
LEMMA BlankSend ==
    ASSUME NEW s, Blank(s), NEW flags \in {"SYN", "SYN+ACK", "RST"}
    PROVE  LET t == SendEmptyPacket(s, flags)
           IN  /\ Blank(t) /\ t.nextRx = s.nextRx
               /\ \/ t.state = s.state /\ t.endPoint = s.endPoint
                     /\ t.retx = IF s.endPoint THEN Armed(s, flags) ELSE s.retx
                  \/ s.endPoint /\ t.state = "CLOSED" /\ ~ t.endPoint
               /\ \/ t.out = s.out
                  \/ \E m \in Segments : m.flags = flags /\ t.out = Append(s.out, m)
  <1> DEFINE t == SendEmptyPacket(s, flags)
             refused == flags \in {"SYN", "SYN+ACK"} /\ s.synCount = 0
  <1>1. s \in SocketType /\ Quiet(s) /\ flags \in Flags
    BY DEF Blank, Flags
  <1>2. /\ t \in SocketType /\ Quiet(t) /\ Same(s, t)
        /\ ~ s.endPoint => t = s
        /\ s.endPoint /\ refused => t.state = "CLOSED" /\ ~ t.endPoint /\ t.out = s.out
        /\ s.endPoint /\ ~ refused =>
              /\ t.state = s.state /\ t.endPoint
              /\ t.retx = Armed(s, flags) /\ t.lastAck = s.lastAck
              /\ t.sendPending = s.sendPending /\ (t.delAck => s.delAck)
              /\ \E m \in Segments : m.flags = flags /\ t.out = Append(s.out, m)
    BY <1>1, SendEmptyPacketFacts DEF Empty
  <1> HIDE DEF t, refused
  <1>3. ~ t.lastAck /\ ~ t.delAck /\ ~ t.sendPending
    <2>1. CASE ~ s.endPoint
      BY <1>2, <2>1 DEF Blank
    <2>2. CASE s.endPoint /\ refused
      BY <1>2, <2>2 DEF Quiet
    <2>3. CASE s.endPoint /\ ~ refused
      BY <1>2, <2>3 DEF Blank
    <2> QED
      BY <2>1, <2>2, <2>3
  <1>4. Blank(t) /\ t.nextRx = s.nextRx
    BY <1>2, <1>3 DEF Blank, Same
  <1>5. CASE ~ s.endPoint
    BY <1>2, <1>4, <1>5 DEF t
  <1>6. CASE s.endPoint /\ refused
    BY <1>2, <1>4, <1>6 DEF t
  <1>7. CASE s.endPoint /\ ~ refused
    BY <1>2, <1>4, <1>7 DEF t
  <1> QED
    BY <1>5, <1>6, <1>7

LEMMA BlankCloses ==
    ASSUME NEW s, Blank(s)
    PROVE  LET t == CloseAndNotify(s)
           IN  /\ Blank(t) /\ t.nextRx = s.nextRx /\ t.state = "CLOSED" /\ ~ t.endPoint
               /\ t.out = s.out
  <1> DEFINE t == CloseAndNotify(s)
  <1>1. s \in SocketType /\ Quiet(s)
    BY DEF Blank
  <1>2. t \in SocketType /\ Same(s, t) /\ t.state = "CLOSED" /\ t.out = s.out
        /\ ~ t.endPoint /\ Quiet(t)
    BY <1>1, CloseAndNotifyFacts
  <1> HIDE DEF t
  <1>3. Blank(t) /\ t.nextRx = s.nextRx
    BY <1>2 DEF Blank, Same, Quiet
  <1> QED
    BY <1>2, <1>3 DEF t

LEMMA BlankResets ==
    ASSUME NEW s, Blank(s)
    PROVE  LET t == SendRST(s)
           IN  /\ Blank(t) /\ t.nextRx = s.nextRx /\ t.state = s.state /\ ~ t.endPoint
               /\ \/ t.out = s.out
                  \/ \E m \in Segments : m.flags = "RST" /\ t.out = Append(s.out, m)
  <1> DEFINE u == SendEmptyPacket(s, "RST")
             t == DeallocateEndPoint(u)
  <1>1. /\ Blank(u) /\ u.nextRx = s.nextRx
        /\ \/ u.out = s.out
           \/ \E m \in Segments : m.flags = "RST" /\ u.out = Append(s.out, m)
    BY BlankSend
  <1>2. u.state = s.state
    <2>1. s \in SocketType /\ Quiet(s) /\ "RST" \in Flags
      BY DEF Blank, Flags
    <2>2. CASE s.endPoint
      BY <2>1, <2>2, SendEmptyPacketFacts
    <2>3. CASE ~ s.endPoint
      BY <2>1, <2>3, SendEmptyPacketFacts
    <2> QED
      BY <2>2, <2>3
  <1> HIDE DEF u
  <1>3. /\ t \in SocketType /\ Same(u, t) /\ t.state = u.state /\ t.out = u.out
        /\ ~ t.endPoint /\ Quiet(t)
    BY <1>1, DeallocateEndPointFacts DEF Blank
  <1> HIDE DEF t
  <1>4. Blank(t) /\ t.nextRx = s.nextRx
    BY <1>1, <1>3 DEF Blank, Same, Quiet
  <1>5. SendRST(s) = t
    BY DEF SendRST, t, u
  <1> QED
    BY <1>1, <1>2, <1>3, <1>4, <1>5

\* CloseAndNotify after a RST.
LEMMA BlankAborts ==
    ASSUME NEW s, Blank(s)
    PROVE  LET t == CloseAndNotify(SendRST(s))
           IN  /\ Blank(t) /\ t.nextRx = s.nextRx /\ t.state = "CLOSED" /\ ~ t.endPoint
               /\ \/ t.out = s.out
                  \/ \E m \in Segments : m.flags = "RST" /\ t.out = Append(s.out, m)
  <1> DEFINE u == SendRST(s)
  <1>1. /\ Blank(u) /\ u.nextRx = s.nextRx
        /\ \/ u.out = s.out
           \/ \E m \in Segments : m.flags = "RST" /\ u.out = Append(s.out, m)
    BY BlankResets
  <1> HIDE DEF u
  <1>2. LET t == CloseAndNotify(u)
        IN  /\ Blank(t) /\ t.nextRx = u.nextRx /\ t.state = "CLOSED" /\ ~ t.endPoint
            /\ t.out = u.out
    BY <1>1, BlankCloses
  <1> QED
    BY <1>1, <1>2 DEF u

\* A socket that has just been connected.
LEMMA OpenedSound ==
    ASSUME NEW t \in SocketType, t.endPoint, t.connected, t.head = 1, t.nextTx = 1,
           t.highTx = 1, t.tail >= 1, t.lost = {}, t.held = {}, t.retx = "off",
           t.nextRx >= 1, t.closeOnEmpty => t.closed \/ t.shutdownSend,
           t.state \in {"ESTABLISHED", "SYN_RCVD"}
    PROVE  Sound(t)
  <1>1. Quiet(t) /\ Live(t) /\ Timed(t) /\ Repeats(t)
    BY DEF Quiet, Live, Timed, Repeats
  <1>2. Buffers(t)
    BY FS_EmptySet, Fields DEF Buffers
  <1> QED
    BY <1>1, <1>2 DEF Sane, Sound

LEMMA ConnectedFacts ==
    ASSUME NEW s, Blank(s)
    PROVE  LET t == Connected(s)
           IN  /\ t \in SocketType /\ t.connected /\ t.head = 1 /\ t.nextTx = 1 /\ t.highTx = 1
               /\ t.tail >= 1 /\ t.lost = {} /\ t.held = {} /\ t.retx = "off" /\ t.fin = None
               /\ t.nextRx = s.nextRx /\ t.state = s.state /\ t.endPoint = s.endPoint
               /\ t.closeOnEmpty = s.closeOnEmpty /\ t.closed = s.closed
               /\ t.shutdownSend = s.shutdownSend
  <1> DEFINE t == Connected(s)
             tail == s.tail + 1
  <1>1. s \in SocketType /\ tail \in Nat /\ tail >= 1
    BY Fields DEF Blank
  <1>2. t = [s EXCEPT !.connected = TRUE, !.retx = "off",
                      !.nextTx = 1, !.highTx = 1, !.head = 1, !.tail = tail]
    BY DEF Connected
  <1> HIDE DEF t, tail
  <1>3. t \in SocketType
    <2>1. TRUE \in BOOLEAN /\ "off" \in Retx /\ 1 \in Nat
      BY DEF Retx
    <2> QED
      BY <1>1, <1>2, <2>1, Update
  <1>4. /\ t.connected /\ t.head = 1 /\ t.nextTx = 1 /\ t.highTx = 1
        /\ t.tail = tail /\ t.retx = "off" /\ t.fin = s.fin
        /\ t.lost = s.lost /\ t.held = s.held
        /\ t.nextRx = s.nextRx /\ t.state = s.state /\ t.endPoint = s.endPoint
        /\ t.closeOnEmpty = s.closeOnEmpty /\ t.closed = s.closed
        /\ t.shutdownSend = s.shutdownSend
    BY <1>1, <1>2 DEF SocketType
  <1> QED
    BY <1>1, <1>3, <1>4 DEF Blank, t

\* A SYN+ACK connects the client; a RST, or an answer that is no answer to its
\* SYN, closes it.
LEMMA ProcessSynSentSound ==
    ASSUME NEW s, Blank(s), s.endPoint, s.state = "SYN_SENT",
           NEW m \in Segments, NEW cwnd \in Nat
    PROVE  LET t == ProcessSynSent(s, m, cwnd)
           IN  \/ t = s
               \/ /\ Sound(t) /\ t.state \in {"ESTABLISHED", "FIN_WAIT_1"}
                  /\ m.flags = "SYN+ACK"
               \/ /\ Blank(t) /\ t.nextRx = s.nextRx /\ t.state = "CLOSED" /\ ~ t.endPoint
                  /\ \/ t.out = s.out
                     \/ \E n \in Segments : n.flags = "RST" /\ t.out = Append(s.out, n)
  <1> DEFINE c == Connected(s)
             u == [c EXCEPT !.state = "ESTABLISHED", !.nextRx = m.seq + 1]
             a == SendEmptyPacket(u, "ACK")
             v == SendPendingData(a, cwnd)
             w == [v EXCEPT !.delAckCount = DelAckMaxCount]
             t == ProcessSynSent(s, m, cwnd)
  <1>1. Sound(w) /\ w.state \in {"ESTABLISHED", "FIN_WAIT_1"}
    <2>1. /\ c \in SocketType /\ c.connected /\ c.head = 1 /\ c.nextTx = 1 /\ c.highTx = 1
          /\ c.tail >= 1 /\ c.lost = {} /\ c.held = {} /\ c.retx = "off"
          /\ c.endPoint /\ (c.closeOnEmpty => c.closed \/ c.shutdownSend)
      BY ConnectedFacts DEF Blank
    <2>2. m.seq + 1 \in Nat /\ m.seq + 1 >= 1
      BY DEF Segments
    <2> HIDE DEF c
    <2>3. u \in SocketType
      BY <2>1, <2>2, Update DEF State
    <2>4. /\ u.state = "ESTABLISHED" /\ u.nextRx = m.seq + 1
          /\ u.connected = c.connected /\ u.head = c.head /\ u.nextTx = c.nextTx
          /\ u.highTx = c.highTx /\ u.tail = c.tail /\ u.lost = c.lost /\ u.held = c.held
          /\ u.retx = c.retx /\ u.endPoint = c.endPoint /\ u.closeOnEmpty = c.closeOnEmpty
          /\ u.closed = c.closed /\ u.shutdownSend = c.shutdownSend
      BY <2>1 DEF SocketType
    <2> HIDE DEF u
    <2>5. Sound(u)
      BY <2>1, <2>2, <2>3, <2>4, OpenedSound
    <2>6. Sound(a) /\ a.state = "ESTABLISHED"
      BY <2>4, <2>5, SendEmptySound DEF Sound
    <2> HIDE DEF a
    <2>7. Sound(v) /\ v.state \in {"ESTABLISHED", "FIN_WAIT_1"}
      BY <2>6, SendPendingSound DEF Ends
    <2> HIDE DEF v
    <2>8. v \in SocketType /\ IsFiniteSet(v.held) /\ v.nextRx >= 1
      BY <2>7 DEF Sane, Sound, Buffers, Live
    <2>9. w \in SocketType
      <3>1. DelAckMaxCount \in 0..DelAckMaxCount
        BY TcpAssumption
      <3> QED
        BY <2>8, <3>1, Update
    <2>10. Kept(v, w) /\ w.held = v.held /\ w.nextRx = v.nextRx
      BY <2>8 DEF SocketType, Kept
    <2> HIDE DEF w
    <2> QED
      BY <2>7, <2>8, <2>9, <2>10, KeptSound DEF Kept
  <1>2. m.flags \in Flags
    BY DEF Segments
  <1>3. \/ t = s
        \/ t = w /\ m.flags = "SYN+ACK"
        \/ t = CloseAndNotify(s)
        \/ t = CloseAndNotify(SendRST(s))
    BY <1>2 DEF ProcessSynSent, Flags
  <1>4. CASE t = CloseAndNotify(s)
    BY <1>4, BlankCloses
  <1>5. CASE t = CloseAndNotify(SendRST(s))
    BY <1>5, BlankAborts
  <1> HIDE DEF t, w
  <1> QED
    BY <1>1, <1>3, <1>4, <1>5 DEF t

\* Whoever completes the handshake of the server acknowledges.
LEMMA ProcessSynRcvdSound ==
    ASSUME NEW s, Fresh(Server, s), s.endPoint, s.state = "SYN_RCVD",
           NEW m \in Segments, NEW cwnd \in Nat
    PROVE  LET t == ProcessSynRcvd(s, m, cwnd)
           IN  \/ t = s
               \/ /\ Sound(t) /\ t.state \in {"ESTABLISHED", "CLOSE_WAIT"}
                  /\ m.flags \in {"ACK", "FIN+ACK"}
               \/ /\ Fresh(Server, t) /\ t.nextRx >= 1 /\ t.state \in {"SYN_RCVD", "CLOSED"}
                  /\ \/ t.out = s.out
                     \/ \E n \in Segments : /\ n.flags \in {"SYN+ACK", "RST"}
                                            /\ t.out = Append(s.out, n)
  <1> DEFINE c == Connected(s)
             t == ProcessSynRcvd(s, m, cwnd)
  <1>1. /\ c \in SocketType /\ c.connected /\ c.head = 1 /\ c.nextTx = 1 /\ c.highTx = 1
        /\ c.tail >= 1 /\ c.lost = {} /\ c.held = {} /\ c.retx = "off" /\ c.fin = None
        /\ c.nextRx = s.nextRx /\ c.nextRx >= 1 /\ c.state = "SYN_RCVD" /\ c.endPoint
        /\ (c.closeOnEmpty => c.closed \/ c.shutdownSend) /\ Open(c)
    BY ConnectedFacts DEF Fresh, Blank, Open
  <1>2. m.flags \in Flags /\ m.seq \in Nat /\ Blank(s) /\ s \in SocketType
    BY DEF Segments, Fresh, Blank
  <1> HIDE DEF c
  <1>3. CASE m.flags = "ACK" /\ m.ack = s.nextTx + 1
    <2> DEFINE u == [c EXCEPT !.state = "ESTABLISHED", !.delAckCount = DelAckMaxCount]
    <2>1. t = ReceivedAck(u, m, cwnd)
      BY <1>3 DEF ProcessSynRcvd, c
    <2>2. u \in SocketType
      <3>1. DelAckMaxCount \in 0..DelAckMaxCount /\ "ESTABLISHED" \in State
        BY TcpAssumption DEF State
      <3> QED
        BY <1>1, <3>1, Update
    <2>3. /\ u.state = "ESTABLISHED" /\ u.nextRx = c.nextRx
          /\ u.connected = c.connected /\ u.head = c.head /\ u.nextTx = c.nextTx
          /\ u.highTx = c.highTx /\ u.tail = c.tail /\ u.lost = c.lost /\ u.held = c.held
          /\ u.retx = c.retx /\ u.endPoint = c.endPoint /\ u.closeOnEmpty = c.closeOnEmpty
          /\ u.closed = c.closed /\ u.shutdownSend = c.shutdownSend
      BY <1>1 DEF SocketType
    <2> HIDE DEF u
    <2>4. Sound(u) /\ Open(u)
      BY <1>1, <2>2, <2>3, OpenedSound DEF Open
    <2>5. Sound(t) /\ t.state \in {"ESTABLISHED", "CLOSE_WAIT"}
      <3>1. u.endPoint /\ u.state \in Receives \ {"SYN_RCVD"}
        BY <1>1, <2>3 DEF Receives
      <3>2. /\ Sound(t)
            /\ Open(u) => t.state \in {u.state, "CLOSE_WAIT"}
        BY <2>1, <2>4, <3>1, ReceivedAckSound
      <3> QED
        BY <2>3, <2>4, <3>2
    <2> QED
      BY <1>3, <2>5
  <1>4. CASE m.flags = "SYN"
    <2> DEFINE u == [s EXCEPT !.nextRx = m.seq + 1]
    <2>1. t = SendEmptyPacket(u, "SYN+ACK")
      BY <1>4 DEF ProcessSynRcvd
    <2>2. u \in SocketType /\ m.seq + 1 >= 1
      <3>1. m.seq + 1 \in Nat
        BY <1>2
      <3> QED
        BY <1>2, <3>1, Update
    <2>3. /\ u.nextRx = m.seq + 1
          /\ u.state = s.state /\ u.endPoint = s.endPoint /\ u.retx = s.retx /\ u.out = s.out
          /\ u.lastAck = s.lastAck /\ u.delAck = s.delAck /\ u.sendPending = s.sendPending
          /\ u.head = s.head /\ u.nextTx = s.nextTx /\ u.highTx = s.highTx
          /\ u.lost = s.lost /\ u.held = s.held /\ u.recover = s.recover /\ u.fin = s.fin
          /\ u.connected = s.connected /\ u.closed = s.closed
          /\ u.closeOnEmpty = s.closeOnEmpty /\ u.shutdownSend = s.shutdownSend
      BY <1>2 DEF SocketType
    <2> HIDE DEF u
    <2>4. Blank(u) /\ Open(u) /\ u.retx = "SYN+ACK"
      BY <2>2, <2>3 DEF Fresh, Blank, Quiet, Open
    <2>5. /\ Blank(t) /\ t.nextRx = u.nextRx
          /\ \/ t.state = u.state /\ t.endPoint = u.endPoint
                /\ t.retx = IF u.endPoint THEN Armed(u, "SYN+ACK") ELSE u.retx
             \/ u.endPoint /\ t.state = "CLOSED" /\ ~ t.endPoint
          /\ \/ t.out = u.out
             \/ \E n \in Segments : n.flags = "SYN+ACK" /\ t.out = Append(u.out, n)
      BY <2>1, <2>4, BlankSend
    <2>6. t.closeOnEmpty = u.closeOnEmpty /\ t.shutdownSend = u.shutdownSend
      <3>1. u \in SocketType /\ Quiet(u) /\ "SYN+ACK" \in Flags
        BY <2>4 DEF Blank, Flags
      <3>2. Same(u, t)
        BY <2>1, <3>1, SendEmptyPacketFacts
      <3> QED
        BY <3>2 DEF Same
    <2> HIDE DEF t
    <2>7. Fresh(Server, t) /\ t.nextRx >= 1 /\ t.state \in {"SYN_RCVD", "CLOSED"}
      BY <2>2, <2>3, <2>4, <2>5, <2>6 DEF Fresh, Armed, Open
    <2> QED
      BY <2>3, <2>5, <2>7 DEF t
  <1>5. CASE m.flags = "FIN+ACK"
    <2>1. t = IF m.seq = s.nextRx THEN PeerClose(c, m) ELSE s
      BY <1>5 DEF ProcessSynRcvd, c
    <2>2. CASE m.seq = s.nextRx
      <3>1. Sound(c)
        BY <1>1, OpenedSound
      <3>2. Sound(t) /\ t.state = "CLOSE_WAIT"
        BY <1>1, <1>5, <2>1, <2>2, <3>1, PeerCloseSound
      <3> QED
        BY <1>5, <3>2
    <2>3. CASE m.seq # s.nextRx
      BY <2>1, <2>3
    <2> QED
      BY <2>2, <2>3
  <1>6. CASE m.flags \in {"RST", "SYN+ACK"} \/ (m.flags = "ACK" /\ m.ack # s.nextTx + 1)
    <2>1. t \in {CloseAndNotify(s), CloseAndNotify(SendRST(s))}
      BY <1>6 DEF ProcessSynRcvd
    <2>2. /\ Blank(t) /\ t.nextRx = s.nextRx /\ t.state = "CLOSED" /\ ~ t.endPoint
          /\ \/ t.out = s.out
             \/ \E n \in Segments : n.flags = "RST" /\ t.out = Append(s.out, n)
      <3>1. CASE t = CloseAndNotify(s)
        BY <1>2, <3>1, BlankCloses
      <3>2. CASE t = CloseAndNotify(SendRST(s))
        BY <1>2, <3>2, BlankAborts
      <3> QED
        BY <2>1, <3>1, <3>2
    <2> HIDE DEF t
    <2>3. Fresh(Server, t) /\ t.nextRx >= 1 /\ t.state \in {"SYN_RCVD", "CLOSED"}
      BY <2>2 DEF Fresh
    <2> QED
      BY <2>2, <2>3 DEF t
  <1> QED
    BY <1>2, <1>3, <1>4, <1>5, <1>6 DEF Flags

-----------------------------------------------------------------------------
(* Steps of a socket *)

\* What a socket emits before it is connected.
Emits(x, s) ==
    \A i \in 1..Len(s.out) :
        s.out[i].flags \in IF x = Client THEN {"SYN", "RST"} ELSE {"SYN+ACK", "RST"}

\* One step of socket x, from s to t: t is as it should be, keeps what the
\* handshake brought, and has moved forward.
Outcome(x, s, t) ==
    /\ t \in SocketType
    /\ t.connected => Sound(t) /\ t.state \notin {"SYN_SENT", "SYN_RCVD"}
    /\ ~ t.connected => /\ Fresh(x, t) /\ Emits(x, t)
                        /\ x = Server /\ t.out # <<>> => t.nextRx >= 1
    /\ s.connected => t.connected
    /\ s.nextRx >= 1 => t.nextRx >= 1
    /\ Goes(s.state, t.state)
    /\ s.state = "CLOSED" /\ t.state # "CLOSED" => s = NewSocket

LEMMA SoundOutcome ==
    ASSUME NEW x, NEW s, NEW t, Sound(t), t.state \notin {"SYN_SENT", "SYN_RCVD"},
           Goes(s.state, t.state), s.state # "CLOSED"
    PROVE  Outcome(x, s, t)
  BY DEF Outcome, Sound, Sane, Live

LEMMA FreshOutcome ==
    ASSUME NEW x \in Sockets, NEW s, NEW t, s.out = <<>>, ~ s.connected, Fresh(x, t),
           Goes(s.state, t.state), s.state = "CLOSED" /\ t.state # "CLOSED" => s = NewSocket,
           s.nextRx >= 1 => t.nextRx >= 1,
           x = Server /\ t.out # <<>> => t.nextRx >= 1,
           \/ t.out = s.out
           \/ \E m \in Segments :
                /\ m.flags \in IF x = Client THEN {"SYN", "RST"} ELSE {"SYN+ACK", "RST"}
                /\ t.out = Append(s.out, m)
    PROVE  Outcome(x, s, t) /\ ~ t.connected
  <1>1. t \in SocketType /\ ~ t.connected
    BY DEF Fresh, Blank
  <1>2. Emits(x, t)
    <2>1. CASE t.out = s.out
      BY <2>1 DEF Emits
    <2>2. CASE \E m \in Segments :
                /\ m.flags \in IF x = Client THEN {"SYN", "RST"} ELSE {"SYN+ACK", "RST"}
                /\ t.out = Append(s.out, m)
      <3>1. PICK m \in Segments :
                /\ m.flags \in IF x = Client THEN {"SYN", "RST"} ELSE {"SYN+ACK", "RST"}
                /\ t.out = Append(<<>>, m)
        BY <2>2
      <3>2. t.out = <<m>>
        BY <3>1
      <3>3. Len(t.out) = 1 /\ t.out[1] = m
        BY <3>2
      <3> QED
        BY <3>1, <3>3 DEF Emits
    <2> QED
      BY <2>1, <2>2
  <1> QED
    BY <1>1, <1>2 DEF Outcome

LEMMA NewSocketFresh ==
    /\ NewSocket \in SocketType /\ Blank(NewSocket) /\ ~ NewSocket.endPoint
    /\ NewSocket.state = "CLOSED" /\ NewSocket.retx = "off" /\ NewSocket.out = <<>>
    /\ ~ NewSocket.connected /\ NewSocket.nextRx = 0 /\ Open(NewSocket)
  <1>1. NewSocket \in SocketType
    <2>1. 0 \in SynCount /\ 0 \in DataRetrCount /\ 0 \in DelAckCount
      BY TcpAssumption DEF SynCount, DataRetrCount, DelAckCount
    <2>2. "CLOSED" \in State /\ "off" \in Retx /\ <<>> \in Out /\ {} \in Numbers
          /\ 0 \in Number /\ None \in Finish
      BY DEF State, Retx, Out, Numbers, Number, Finish
    <2> QED
      BY <2>1, <2>2 DEF NewSocket, SocketType
  <1> QED
    BY <1>1 DEF NewSocket, Blank, Quiet, Open

LEMMA ConnectOutcome ==
    ASSUME NEW s, s = NewSocket
    PROVE  LET u == [s EXCEPT !.endPoint = TRUE, !.synCount = SynRetries,
                              !.dataRetrCount = DataRetries]
               t == [SendEmptyPacket(u, "SYN") EXCEPT !.state = "SYN_SENT"]
           IN  Outcome(Client, s, t) /\ ~ t.connected
  <1> DEFINE u == [s EXCEPT !.endPoint = TRUE, !.synCount = SynRetries,
                            !.dataRetrCount = DataRetries]
             a == SendEmptyPacket(u, "SYN")
             t == [a EXCEPT !.state = "SYN_SENT"]
  <1>1. u \in SocketType
    <2>1. SynRetries \in 0..SynRetries /\ DataRetries \in 0..DataRetries
      BY TcpAssumption
    <2> QED
      BY <2>1, NewSocketFresh, Update
  <1>2. Blank(u) /\ u.out = <<>> /\ u.retx = "off"
    <2>1. /\ u.head = 0 /\ u.nextTx = 0 /\ u.highTx = 0 /\ u.lost = {} /\ u.held = {}
          /\ u.recover = 0 /\ u.fin = None /\ u.endPoint /\ ~ u.connected
          /\ ~ u.lastAck /\ ~ u.delAck /\ ~ u.sendPending /\ ~ u.closeOnEmpty
          /\ u.out = <<>> /\ u.retx = "off"
      BY DEF NewSocket
    <2> HIDE DEF u
    <2> QED
      BY <1>1, <2>1 DEF Blank, Quiet
  <1> HIDE DEF u
  <1>3. /\ Blank(a) /\ (a.endPoint => a.retx = "SYN")
        /\ \/ a.out = u.out
           \/ \E m \in Segments : m.flags = "SYN" /\ a.out = Append(u.out, m)
    BY <1>2, BlankSend DEF Armed
  <1> HIDE DEF a
  <1>4. t \in SocketType
    BY <1>3, Update DEF Blank, State
  <1>5. /\ t.state = "SYN_SENT" /\ t.endPoint = a.endPoint /\ t.retx = a.retx /\ t.out = a.out
        /\ t.lastAck = a.lastAck /\ t.delAck = a.delAck /\ t.sendPending = a.sendPending
        /\ t.head = a.head /\ t.nextTx = a.nextTx /\ t.highTx = a.highTx
        /\ t.lost = a.lost /\ t.held = a.held /\ t.recover = a.recover /\ t.fin = a.fin
        /\ t.connected = a.connected /\ t.closed = a.closed
        /\ t.closeOnEmpty = a.closeOnEmpty /\ t.shutdownSend = a.shutdownSend
    BY <1>3 DEF Blank, SocketType
  <1> HIDE DEF t
  <1>6. Fresh(Client, t)
    BY <1>3, <1>4, <1>5 DEF Fresh, Blank, Quiet
  <1>7. Goes(s.state, t.state)
    BY <1>5, NewSocketFresh DEF Goes, Moves
  <1>8. Client \in Sockets /\ Client # Server
    BY TcpAssumption DEF Sockets
  <1>9. Outcome(Client, s, t) /\ ~ t.connected
    <2>1. s.out = <<>> /\ ~ s.connected /\ ~ s.nextRx >= 1
      BY NewSocketFresh
    <2>2. \/ t.out = s.out
          \/ \E m \in Segments : m.flags \in {"SYN", "RST"} /\ t.out = Append(s.out, m)
      BY <1>2, <1>3, <1>5, <2>1
    <2> QED
      BY <1>6, <1>7, <1>8, <2>1, <2>2, FreshOutcome
  <1> QED
    BY <1>9 DEF t, a, u

\* CompleteFork.
LEMMA ForkOutcome ==
    ASSUME NEW s, s = NewSocket, NEW m \in Segments
    PROVE  Outcome(Server, s, CompleteFork(m)) /\ ~ CompleteFork(m).connected
  <1> DEFINE u == [NewSocket EXCEPT !.endPoint = TRUE, !.state = "SYN_RCVD",
                                    !.synCount = SynRetries, !.dataRetrCount = DataRetries,
                                    !.nextRx = m.seq + 1]
             t == SendEmptyPacket(u, "SYN+ACK")
  <1>1. m.seq + 1 \in Nat /\ m.seq + 1 >= 1
    BY DEF Segments
  <1>2. u \in SocketType
    <2>1. SynRetries \in 0..SynRetries /\ DataRetries \in 0..DataRetries /\ "SYN_RCVD" \in State
      BY TcpAssumption DEF State
    <2> QED
      BY <1>1, <2>1, NewSocketFresh, Update
  <1>3. /\ Blank(u) /\ u.out = <<>> /\ u.retx = "off" /\ u.state = "SYN_RCVD" /\ u.endPoint
        /\ u.nextRx = m.seq + 1 /\ Open(u)
    <2>1. /\ u.head = 0 /\ u.nextTx = 0 /\ u.highTx = 0 /\ u.lost = {} /\ u.held = {}
          /\ u.recover = 0 /\ u.fin = None /\ u.endPoint /\ ~ u.connected
          /\ ~ u.lastAck /\ ~ u.delAck /\ ~ u.sendPending /\ ~ u.closeOnEmpty
          /\ ~ u.shutdownSend
          /\ u.out = <<>> /\ u.retx = "off" /\ u.state = "SYN_RCVD" /\ u.nextRx = m.seq + 1
      BY DEF NewSocket
    <2> HIDE DEF u
    <2> QED
      BY <1>2, <2>1 DEF Blank, Quiet, Open
  <1> HIDE DEF u
  <1>4. /\ Blank(t) /\ t.nextRx = u.nextRx
        /\ \/ t.state = "SYN_RCVD" /\ t.endPoint /\ t.retx = "SYN+ACK"
           \/ t.state = "CLOSED" /\ ~ t.endPoint
        /\ \/ t.out = u.out
           \/ \E n \in Segments : n.flags = "SYN+ACK" /\ t.out = Append(u.out, n)
    BY <1>3, BlankSend DEF Armed
  <1>5. Open(t)
    <2>1. u \in SocketType /\ Quiet(u) /\ "SYN+ACK" \in Flags
      BY <1>3 DEF Blank, Flags
    <2>2. Same(u, t)
      BY <2>1, SendEmptyPacketFacts
    <2> QED
      BY <1>3, <2>2 DEF Same, Open
  <1> HIDE DEF t
  <1>6. Fresh(Server, t) /\ t.nextRx >= 1
    BY <1>1, <1>3, <1>4, <1>5 DEF Fresh
  <1>7. Goes(s.state, t.state)
    BY <1>4, NewSocketFresh DEF Goes, Moves
  <1>8. Server \in Sockets /\ Client # Server
    BY TcpAssumption DEF Sockets
  <1>9. Outcome(Server, s, t) /\ ~ t.connected
    BY <1>3, <1>4, <1>6, <1>7, <1>8, NewSocketFresh, FreshOutcome
  <1> QED
    BY <1>9 DEF CompleteFork, t, u

-----------------------------------------------------------------------------
(* Application calls *)

\* Data added to the send buffer.
LEMMA SendOutcome ==
    ASSUME NEW x \in Sockets, NEW s, Settled(x, s), s.endPoint,
           s.state \in {"ESTABLISHED", "SYN_SENT", "CLOSE_WAIT"},
           NEW behind \in BOOLEAN, NEW pending \in BOOLEAN,
           pending => s.sendPending \/ s.state # "SYN_SENT"
    PROVE  LET t == [s EXCEPT !.tail = @ + 1, !.written = @ + 1,
                              !.behind = behind, !.sendPending = pending]
           IN  Outcome(x, s, t) /\ (t.connected => s.connected)
  <1> DEFINE tail == s.tail + 1
             written == s.written + 1
             t == [s EXCEPT !.tail = tail, !.written = written,
                            !.behind = behind, !.sendPending = pending]
  <1>1. s \in SocketType /\ s.out = <<>>
    BY DEF Settled, Sound, Sane, Fresh, Blank
  <1>2. s.tail \in Nat /\ s.head \in Nat /\ s.highTx \in Nat
        /\ tail \in Nat /\ tail > s.tail /\ written \in Nat
    BY <1>1, Fields
  <1> HIDE DEF tail, written
  <1>3. t \in SocketType
    BY <1>1, <1>2, Update
  <1>4. /\ t.tail = tail /\ t.sendPending = pending
        /\ t.state = s.state /\ t.endPoint = s.endPoint /\ t.retx = s.retx /\ t.out = s.out
        /\ t.lastAck = s.lastAck /\ t.delAck = s.delAck
        /\ t.head = s.head /\ t.nextTx = s.nextTx /\ t.highTx = s.highTx
        /\ t.lost = s.lost /\ t.held = s.held /\ t.recover = s.recover /\ t.fin = s.fin
        /\ t.nextRx = s.nextRx
        /\ t.connected = s.connected /\ t.closed = s.closed
        /\ t.closeOnEmpty = s.closeOnEmpty /\ t.shutdownSend = s.shutdownSend
    BY <1>1 DEF SocketType
  <1>5. t = [s EXCEPT !.tail = @ + 1, !.written = @ + 1,
                      !.behind = behind, !.sendPending = pending]
    BY DEF tail, written
  <1> HIDE DEF t
  <1>6. CASE s.connected
    <2>1. Quiet(s) /\ Buffers(s) /\ Live(s) /\ Timed(s) /\ Repeats(s)
          /\ s.state \notin {"SYN_SENT", "SYN_RCVD"}
      BY <1>6 DEF Settled, Sound, Sane
    <2>2. Quiet(t) /\ Live(t)
      BY <1>4, <2>1 DEF Quiet, Live
    <2>3. Buffers(t) /\ (s.head < s.tail => t.head < t.tail)
      BY <1>2, <1>4, <2>1 DEF Buffers
    <2>4. Timed(t) /\ Repeats(t)
      BY <1>4, <2>1, <2>3 DEF Timed, Repeats
    <2>5. Sound(t)
      BY <1>3, <2>2, <2>3, <2>4 DEF Sane, Sound
    <2>6. /\ s.state \notin {"SYN_SENT", "SYN_RCVD"} /\ Goes(s.state, t.state)
          /\ t.connected = s.connected /\ t.closed = s.closed
          /\ t.closeOnEmpty = s.closeOnEmpty /\ t.shutdownSend = s.shutdownSend
      BY <1>4, <2>1 DEF Goes
    <2>7. s.state # "CLOSED" /\ t.state \notin {"SYN_SENT", "SYN_RCVD"}
      BY <1>4, <2>1, <2>6
    <2>8. Outcome(x, s, t)
      BY <2>5, <2>6, <2>7, SoundOutcome
    <2> QED
      BY <1>4, <1>5, <2>8
  <1>7. CASE ~ s.connected
    <2>1. Fresh(x, s) /\ s.state = "SYN_SENT" /\ ~ s.sendPending
      BY <1>7 DEF Settled, Fresh, Blank
    <2>2. ~ pending
      BY <2>1
    <2>3. Fresh(x, t)
      BY <1>3, <1>4, <2>1, <2>2 DEF Fresh, Blank, Quiet
    <2>4. Goes(s.state, t.state) /\ (s.nextRx >= 1 => t.nextRx >= 1) /\ t.out = <<>>
      BY <1>1, <1>4 DEF Goes
    <2>5. s.state # "CLOSED"
      BY <2>1
    <2> QED
      BY <1>1, <1>5, <1>7, <2>3, <2>4, <2>5, FreshOutcome
  <1> QED
    BY <1>6, <1>7

LEMMA SendPendingOutcome ==
    ASSUME NEW x \in Sockets, NEW s, Settled(x, s), s.sendPending, NEW cwnd \in Nat
    PROVE  LET t == SendPendingData([s EXCEPT !.sendPending = FALSE], cwnd)
           IN  Outcome(x, s, t)
  <1> DEFINE u == [s EXCEPT !.sendPending = FALSE]
             t == SendPendingData(u, cwnd)
  <1>1. s.connected
    BY DEF Settled, Fresh, Blank
  <1>2. Sound(s) /\ s \in SocketType /\ s.endPoint /\ s.state \notin {"SYN_SENT", "SYN_RCVD"}
        /\ IsFiniteSet(s.held) /\ s.nextRx >= 1
    BY <1>1 DEF Settled, Sound, Sane, Quiet, Buffers, Live
  <1>3. u \in SocketType
    BY <1>2, Update
  <1>4. Kept(s, u) /\ u.held = s.held /\ u.nextRx = s.nextRx
    BY <1>2 DEF SocketType, Kept
  <1> HIDE DEF u
  <1>5. Sound(u) /\ u.state = s.state
    BY <1>2, <1>3, <1>4, KeptSound DEF Kept
  <1>6. Sound(t) /\ Ends(s.state, t.state)
    BY <1>2, <1>5, SendPendingSound
  <1>7. s.state # "CLOSED"
    BY <1>2 DEF Sound, Sane, Timed
  <1>8. Goes(s.state, t.state) /\ t.state \notin {"SYN_SENT", "SYN_RCVD"}
    BY <1>2, <1>6 DEF Ends, Goes, Moves
  <1> QED
    BY <1>6, <1>7, <1>8, SoundOutcome DEF u

LEMMA CloseOutcome ==
    ASSUME NEW x \in Sockets, NEW s, Settled(x, s), s.endPoint, x = Client \/ s.connected,
           ~ s.closed
    PROVE  LET t == Close([s EXCEPT !.closed = TRUE])
           IN  Outcome(x, s, t) /\ (t.connected => s.connected)
  <1> DEFINE u == [s EXCEPT !.closed = TRUE]
             t == Close(u)
  <1>1. s \in SocketType /\ s.out = <<>>
    BY DEF Settled, Sound, Sane, Fresh, Blank
  <1>2. u \in SocketType
    BY <1>1, Update
  <1>3. /\ u.closed
        /\ u.state = s.state /\ u.endPoint = s.endPoint /\ u.retx = s.retx /\ u.out = s.out
        /\ u.lastAck = s.lastAck /\ u.delAck = s.delAck /\ u.sendPending = s.sendPending
        /\ u.head = s.head /\ u.tail = s.tail /\ u.nextTx = s.nextTx /\ u.highTx = s.highTx
        /\ u.lost = s.lost /\ u.held = s.held /\ u.recover = s.recover /\ u.fin = s.fin
        /\ u.nextRx = s.nextRx /\ u.connected = s.connected
        /\ u.closeOnEmpty = s.closeOnEmpty /\ u.shutdownSend = s.shutdownSend
    BY <1>1 DEF SocketType
  <1> HIDE DEF u
  <1>4. CASE s.connected
    <2>1. Quiet(s) /\ Buffers(s) /\ Live(s) /\ Timed(s) /\ Repeats(s)
          /\ s.state \notin {"SYN_SENT", "SYN_RCVD"}
      BY <1>4 DEF Settled, Sound, Sane
    <2>2. Quiet(u) /\ Buffers(u) /\ Live(u)
      BY <1>3, <2>1 DEF Quiet, Buffers, Live
    <2>3. Timed(u) /\ Repeats(u)
      BY <1>3, <2>1 DEF Timed, Repeats
    <2>4. u.state = "CLOSE_WAIT" /\ u.retx = "rto" => u.head < u.tail
      BY <1>3, <2>1 DEF Repeats
    <2>5. Sane(u) /\ u.state # "SYN_RCVD"
      BY <1>2, <1>3, <2>1, <2>2, <2>3 DEF Sane
    <2>6. Sound(t) /\ Closes(s.state, t.state)
      BY <1>3, <2>3, <2>4, <2>5, CloseSound DEF Sound
    <2>7. s.state \in State \ {"CLOSED", "LISTEN"}
      BY <1>1, <2>1, Fields DEF Timed
    <2>8. Goes(s.state, t.state) /\ t.state \notin {"SYN_SENT", "SYN_RCVD"}
      BY <2>1, <2>6, <2>7 DEF Closes, Goes, Moves, State
    <2> QED
      BY <1>4, <2>6, <2>7, <2>8, SoundOutcome DEF u
  <1>5. CASE ~ s.connected
    <2>1. Fresh(x, s) /\ x = Client /\ s.state = "SYN_SENT" /\ s.retx = "SYN"
      BY <1>5, TcpAssumption DEF Settled, Fresh
    <2>2. Blank(u)
      BY <1>2, <1>3, <2>1 DEF Fresh, Blank, Quiet
    <2>3. CASE SizeFromSequence(u, u.nextTx) > 0
      <3>1. t = [u EXCEPT !.closeOnEmpty = TRUE]
        BY <2>2, <2>3 DEF Close, Blank
      <3> HIDE DEF t
      <3>2. t \in SocketType
        BY <1>2, <3>1, Update
      <3>3. /\ t.closed
            /\ t.state = s.state /\ t.endPoint = s.endPoint /\ t.retx = s.retx /\ t.out = s.out
            /\ t.lastAck = s.lastAck /\ t.delAck = s.delAck /\ t.sendPending = s.sendPending
            /\ t.head = s.head /\ t.nextTx = s.nextTx /\ t.highTx = s.highTx
            /\ t.lost = s.lost /\ t.held = s.held /\ t.recover = s.recover /\ t.fin = s.fin
            /\ t.nextRx = s.nextRx /\ t.connected = s.connected
        BY <1>2, <1>3, <3>1 DEF SocketType
      <3>4. Fresh(x, t)
        BY <2>1, <3>2, <3>3 DEF Fresh, Blank, Quiet
      <3>5. Goes(s.state, t.state) /\ (s.nextRx >= 1 => t.nextRx >= 1) /\ t.out = <<>>
        BY <1>1, <3>3 DEF Goes
      <3> QED
        BY <1>1, <1>5, <2>1, <3>4, <3>5, FreshOutcome DEF t, u
    <2>4. CASE ~ SizeFromSequence(u, u.nextTx) > 0
      <3>1. t = CloseAndNotify(SendRST(u))
        <4>1. t = DoClose(u)
          BY <2>2, <2>4 DEF Close, Blank
        <4> QED
          BY <1>3, <2>1, <4>1 DEF DoClose
      <3>2. /\ Blank(t) /\ t.nextRx = u.nextRx /\ t.state = "CLOSED" /\ ~ t.endPoint
            /\ \/ t.out = u.out
               \/ \E m \in Segments : m.flags = "RST" /\ t.out = Append(u.out, m)
        BY <2>2, <3>1, BlankAborts
      <3> HIDE DEF t
      <3>3. Fresh(x, t)
        BY <3>2 DEF Fresh
      <3>4. Goes(s.state, t.state) /\ (s.nextRx >= 1 => t.nextRx >= 1) /\ s.state # "CLOSED"
        BY <1>3, <2>1, <3>2 DEF Goes, Moves
      <3>5. x # Server
        BY <2>1, TcpAssumption
      <3>6. \/ t.out = s.out
            \/ \E m \in Segments : m.flags \in {"SYN", "RST"} /\ t.out = Append(s.out, m)
        BY <1>3, <3>2
      <3> QED
        BY <1>1, <1>5, <2>1, <3>3, <3>4, <3>5, <3>6, FreshOutcome DEF t, u
    <2> QED
      BY <2>3, <2>4
  <1> QED
    BY <1>4, <1>5

LEMMA ShutdownOutcome ==
    ASSUME NEW x \in Sockets, NEW s, Settled(x, s), s.endPoint, x = Client \/ s.connected,
           ~ s.closed
    PROVE  LET t == ShutdownSend(s)
           IN  Outcome(x, s, t) /\ (t.connected => s.connected)
  <1> DEFINE u == [s EXCEPT !.shutdownSend = TRUE, !.closeOnEmpty = TRUE]
             f == SendEmptyPacket(u, "FIN+ACK")
             t == ShutdownSend(s)
  <1>1. s \in SocketType /\ s.out = <<>>
    BY DEF Settled, Sound, Sane, Fresh, Blank
  <1>2. u \in SocketType
    BY <1>1, Update
  <1>3. /\ u.shutdownSend
        /\ u.state = s.state /\ u.endPoint = s.endPoint /\ u.retx = s.retx /\ u.out = s.out
        /\ u.lastAck = s.lastAck /\ u.delAck = s.delAck /\ u.sendPending = s.sendPending
        /\ u.head = s.head /\ u.tail = s.tail /\ u.nextTx = s.nextTx /\ u.highTx = s.highTx
        /\ u.lost = s.lost /\ u.held = s.held /\ u.recover = s.recover /\ u.fin = s.fin
        /\ u.nextRx = s.nextRx /\ u.connected = s.connected /\ u.closed = s.closed
    BY <1>1 DEF SocketType
  <1>4. \/ t = u
        \/ s.state = "ESTABLISHED" /\ t = [f EXCEPT !.state = "FIN_WAIT_1"]
        \/ s.state = "CLOSE_WAIT" /\ t = [f EXCEPT !.state = "LAST_ACK"]
    BY DEF ShutdownSend
  <1> HIDE DEF u, f, t
  <1>5. CASE s.connected
    <2>1. Quiet(s) /\ Buffers(s) /\ Live(s) /\ Timed(s) /\ Repeats(s)
          /\ s.state \notin {"SYN_SENT", "SYN_RCVD"} /\ s.state # "CLOSED"
      BY <1>5 DEF Settled, Sound, Sane, Timed
    <2>2. Quiet(u) /\ Buffers(u) /\ Live(u)
      BY <1>3, <2>1 DEF Quiet, Buffers, Live
    <2>3. Timed(u) /\ Repeats(u)
      BY <1>3, <2>1 DEF Timed, Repeats
    <2>4. u.state = "CLOSE_WAIT" /\ u.retx = "rto" => u.head < u.tail
      BY <1>3, <2>1 DEF Repeats
    <2>5. Sane(u) /\ Sound(u)
      BY <1>2, <2>2, <2>3 DEF Sane, Sound
    <2>6. CASE t = u
      BY <1>3, <2>1, <2>5, <2>6, SoundOutcome DEF Goes, t
    <2>7. ASSUME NEW q, t = [f EXCEPT !.state = q],
                 <<s.state, q>> \in {<<"ESTABLISHED", "FIN_WAIT_1">>, <<"CLOSE_WAIT", "LAST_ACK">>}
          PROVE  Outcome(x, s, t)
      <3>1. Sound(t) /\ t.state = q
        <4>1. /\ u.endPoint /\ (u.closed \/ u.shutdownSend)
              /\ <<u.state, q>> \in {<<"ESTABLISHED", "FIN_WAIT_1">>, <<"CLOSE_WAIT", "LAST_ACK">>}
          BY <1>3, <2>7
        <4> QED
          BY <2>4, <2>5, <2>7, <4>1, FinSent DEF Sound, f
      <3>2. Goes(s.state, t.state) /\ t.state \notin {"SYN_SENT", "SYN_RCVD"}
        BY <2>7, <3>1 DEF Goes, Moves
      <3> QED
        BY <2>1, <3>1, <3>2, SoundOutcome
    <2> QED
      BY <1>4, <1>5, <2>6, <2>7 DEF t
  <1>6. CASE ~ s.connected
    <2>1. Fresh(x, s) /\ x = Client /\ s.state = "SYN_SENT" /\ s.retx = "SYN"
      BY <1>6, TcpAssumption DEF Settled, Fresh
    <2>2. t = u
      BY <1>4, <2>1
    <2>3. Fresh(x, u)
      BY <1>2, <1>3, <2>1 DEF Fresh, Blank, Quiet
    <2>4. Goes(s.state, u.state) /\ (s.nextRx >= 1 => u.nextRx >= 1) /\ u.out = <<>>
      BY <1>1, <1>3 DEF Goes
    <2> QED
      BY <1>1, <1>6, <2>1, <2>2, <2>3, <2>4, FreshOutcome DEF t
  <1> QED
    BY <1>5, <1>6

-----------------------------------------------------------------------------
(* Timers and segments *)

LEMMA RetxOutcome ==
    ASSUME NEW x \in Sockets, NEW s, Settled(x, s), s.retx # "off"
    PROVE  LET t == RetxExpired(s)
           IN  Outcome(x, s, t) /\ (t.connected => s.connected)
  <1> DEFINE t == RetxExpired(s)
  <1>1. CASE s.connected
    <2>1. Sound(s) /\ s.endPoint /\ s.state \notin {"SYN_SENT", "SYN_RCVD"}
      BY <1>1 DEF Settled, Sound, Sane, Quiet
    <2>2. Sound(t) /\ Ends(s.state, t.state)
      BY <2>1, RetxExpiredSound
    <2>3. s.state # "CLOSED"
      BY <2>1 DEF Sound, Sane, Timed
    <2>4. Goes(s.state, t.state) /\ t.state \notin {"SYN_SENT", "SYN_RCVD"}
      BY <2>1, <2>2 DEF Ends, Goes, Moves
    <2> QED
      BY <1>1, <2>2, <2>3, <2>4, SoundOutcome
  <1>2. CASE ~ s.connected
    <2> DEFINE u == [s EXCEPT !.retx = "off"]
    <2>1. Fresh(x, s) /\ s \in SocketType /\ s.out = <<>> /\ s.endPoint
      BY <1>2 DEF Settled, Fresh, Blank, Quiet
    <2>2. u \in SocketType
      BY <2>1, Update DEF Retx
    <2>3. /\ u.retx = "off" /\ u.state = s.state /\ u.endPoint /\ u.out = s.out
          /\ u.lastAck = s.lastAck /\ u.delAck = s.delAck /\ u.sendPending = s.sendPending
          /\ u.head = s.head /\ u.nextTx = s.nextTx /\ u.highTx = s.highTx
          /\ u.lost = s.lost /\ u.held = s.held /\ u.recover = s.recover /\ u.fin = s.fin
          /\ u.nextRx = s.nextRx /\ u.connected = s.connected /\ u.closed = s.closed
          /\ u.closeOnEmpty = s.closeOnEmpty /\ u.shutdownSend = s.shutdownSend
      BY <2>1 DEF SocketType
    <2> HIDE DEF u
    <2>4. Blank(u)
      BY <2>1, <2>2, <2>3 DEF Fresh, Blank, Quiet
    <2>5. \/ x = Client /\ s.state = "SYN_SENT" /\ s.retx = "SYN"
          \/ /\ x = Server /\ s.state = "SYN_RCVD" /\ s.retx = "SYN+ACK"
             /\ s.nextRx >= 1 /\ Open(s)
      BY <2>1 DEF Fresh
    <2>6. t = SendEmptyPacket(u, s.retx) /\ s.retx \in {"SYN", "SYN+ACK"}
      BY <2>5 DEF RetxExpired, u
    <2>7. /\ Blank(t) /\ t.nextRx = s.nextRx
          /\ \/ t.state = s.state /\ t.endPoint /\ t.retx = s.retx
             \/ t.state = "CLOSED" /\ ~ t.endPoint
          /\ \/ t.out = s.out
             \/ \E m \in Segments : m.flags = s.retx /\ t.out = Append(s.out, m)
      <3>1. Armed(u, s.retx) = s.retx
        BY <2>3, <2>6 DEF Armed
      <3> HIDE DEF Armed, t
      <3>2. t = SendEmptyPacket(u, s.retx) /\ Blank(u) /\ s.retx \in {"SYN", "SYN+ACK"}
        BY <2>4, <2>6
      <3>3. u.nextRx = s.nextRx /\ u.state = s.state /\ u.out = s.out /\ u.endPoint
        BY <2>3
      <3> QED
        BY <3>1, <3>2, <3>3, BlankSend
    <2>8. Open(s) => Open(t)
      <3>1. u \in SocketType /\ Quiet(u) /\ s.retx \in Flags
        BY <2>4, <2>6 DEF Blank, Flags
      <3>2. Same(u, t)
        BY <2>6, <3>1, SendEmptyPacketFacts
      <3> QED
        BY <2>3, <3>2 DEF Same, Open
    <2> HIDE DEF t
    <2>9. Fresh(x, t)
      BY <2>5, <2>7, <2>8 DEF Fresh
    <2>10. Goes(s.state, t.state) /\ s.state # "CLOSED"
      BY <2>5, <2>7 DEF Goes, Moves
    <2>11. (x = Server => t.nextRx >= 1) /\ (s.nextRx >= 1 => t.nextRx >= 1)
      BY <2>5, <2>7, TcpAssumption
    <2>12. \/ t.out = s.out
           \/ \E m \in Segments :
                /\ m.flags \in IF x = Client THEN {"SYN", "RST"} ELSE {"SYN+ACK", "RST"}
                /\ t.out = Append(s.out, m)
      BY <2>5, <2>7, TcpAssumption
    <2> QED
      BY <1>2, <2>1, <2>9, <2>10, <2>11, <2>12, FreshOutcome DEF t
  <1> QED
    BY <1>1, <1>2

LEMMA DelAckOutcome ==
    ASSUME NEW x \in Sockets, NEW s, Settled(x, s), s.delAck
    PROVE  Outcome(x, s, DelAckTimeout(s))
  <1>1. Sound(s) /\ s.state \notin {"SYN_SENT", "SYN_RCVD"} /\ s.endPoint
    BY DEF Settled, Fresh, Blank, Sound, Sane, Quiet
  <1>2. s.state # "CLOSED"
    BY <1>1 DEF Sound, Sane, Timed
  <1> QED
    BY <1>1, <1>2, DelAckTimeoutSound, SoundOutcome DEF Goes

LEMMA LastAckOutcome ==
    ASSUME NEW x \in Sockets, NEW s, Settled(x, s), s.lastAck
    PROVE  Outcome(x, s, LastAckTimeout(s))
  <1>1. Sound(s) /\ s.state \notin {"SYN_SENT", "SYN_RCVD"} /\ s.endPoint
    BY DEF Settled, Fresh, Blank, Sound, Sane, Quiet
  <1>2. s.state # "CLOSED"
    BY <1>1 DEF Sound, Sane, Timed
  <1> QED
    BY <1>1, <1>2, LastAckTimeoutSound, SoundOutcome DEF Goes

LEMMA TimeWaitOutcome ==
    ASSUME NEW x \in Sockets, NEW s, Settled(x, s), s.state = "TIME_WAIT"
    PROVE  Outcome(x, s, CloseAndNotify(s))
  <1>1. Sane(s)
    BY DEF Settled, Fresh, Sound
  <1>2. Goes("TIME_WAIT", "CLOSED")
    BY DEF Goes, Moves
  <1> QED
    BY <1>1, <1>2, CloseAndNotifySound, SoundOutcome

\* Who a segment connects.
Connects(x, m) ==
    IF x = Client THEN m.flags = "SYN+ACK" ELSE m.flags \in {"ACK", "FIN+ACK"}

LEMMA ForwardUpOutcome ==
    ASSUME NEW x \in Sockets, NEW s, Settled(x, s), s.endPoint,
           NEW m \in Segments, NEW cwnd \in Nat
    PROVE  LET t == ForwardUp(s, m, cwnd)
           IN  /\ Outcome(x, s, t)
               /\ t.connected /\ ~ s.connected => Connects(x, m)
  <1> DEFINE t == ForwardUp(s, m, cwnd)
  <1>1. CASE s.connected
    <2>1. Sound(s) /\ s.state \notin {"SYN_SENT", "SYN_RCVD"}
      BY <1>1 DEF Settled
    <2>2. s.state # "CLOSED"
      BY <2>1 DEF Sound, Sane, Timed
    <2> QED
      BY <1>1, <2>1, <2>2, ForwardUpSound, SoundOutcome
  <1>2. CASE ~ s.connected /\ s.state = "SYN_SENT"
    <2>1. Fresh(x, s) /\ Blank(s) /\ x = Client /\ s.out = <<>> /\ s.retx = "SYN"
      BY <1>2 DEF Settled, Fresh
    <2>2. t = ProcessSynSent(s, m, cwnd)
      BY <1>2 DEF ForwardUp, OutOfRange
    <2>3. \/ t = s
          \/ /\ Sound(t) /\ t.state \in {"ESTABLISHED", "FIN_WAIT_1"}
             /\ m.flags = "SYN+ACK"
          \/ /\ Blank(t) /\ t.nextRx = s.nextRx /\ t.state = "CLOSED" /\ ~ t.endPoint
             /\ \/ t.out = s.out
                \/ \E n \in Segments : n.flags = "RST" /\ t.out = Append(s.out, n)
      BY <1>2, <2>1, <2>2, ProcessSynSentSound
    <2> HIDE DEF t
    <2>4. x # Server
      BY <2>1, TcpAssumption
    <2>5. CASE t = s
      BY <1>2, <2>1, <2>4, <2>5, FreshOutcome DEF Goes, t
    <2>6. CASE Sound(t) /\ t.state \in {"ESTABLISHED", "FIN_WAIT_1"} /\ m.flags = "SYN+ACK"
      <3>1. Goes(s.state, t.state)
        BY <1>2, <2>6 DEF Goes, Moves
      <3> QED
        BY <1>2, <2>1, <2>6, <3>1, SoundOutcome DEF Connects, t
    <2>7. CASE /\ Blank(t) /\ t.nextRx = s.nextRx /\ t.state = "CLOSED" /\ ~ t.endPoint
               /\ \/ t.out = s.out
                  \/ \E n \in Segments : n.flags = "RST" /\ t.out = Append(s.out, n)
      <3>1. Fresh(x, t) /\ ~ t.connected
        BY <2>7 DEF Fresh, Blank
      <3>2. Goes(s.state, t.state)
        BY <1>2, <2>7 DEF Goes, Moves
      <3>3. \/ t.out = s.out
            \/ \E n \in Segments : n.flags \in {"SYN", "RST"} /\ t.out = Append(s.out, n)
        BY <2>7
      <3> QED
        BY <1>2, <2>1, <2>4, <2>7, <3>1, <3>2, <3>3, FreshOutcome DEF t
    <2> QED
      BY <2>3, <2>5, <2>6, <2>7
  <1>3. CASE ~ s.connected /\ s.state # "SYN_SENT"
    <2>1. /\ Fresh(x, s) /\ x = Server /\ x # Client /\ s.out = <<>> /\ s.state = "SYN_RCVD"
          /\ s.nextRx >= 1
      BY <1>3, TcpAssumption DEF Settled, Fresh
    <2>2. t = ProcessSynRcvd(s, m, cwnd)
      BY <2>1 DEF ForwardUp, OutOfRange
    <2>3. \/ t = s
          \/ /\ Sound(t) /\ t.state \in {"ESTABLISHED", "CLOSE_WAIT"}
             /\ m.flags \in {"ACK", "FIN+ACK"}
          \/ /\ Fresh(Server, t) /\ t.nextRx >= 1 /\ t.state \in {"SYN_RCVD", "CLOSED"}
             /\ \/ t.out = s.out
                \/ \E n \in Segments : /\ n.flags \in {"SYN+ACK", "RST"}
                                       /\ t.out = Append(s.out, n)
      BY <2>1, <2>2, ProcessSynRcvdSound
    <2> HIDE DEF t
    <2>4. CASE t = s
      BY <1>3, <2>1, <2>4, FreshOutcome DEF Goes, t
    <2>5. CASE Sound(t) /\ t.state \in {"ESTABLISHED", "CLOSE_WAIT"} /\ m.flags \in {"ACK", "FIN+ACK"}
      <3>1. Goes(s.state, t.state)
        BY <2>1, <2>5 DEF Goes, Moves
      <3> QED
        BY <2>1, <2>5, <3>1, SoundOutcome DEF Connects, t
    <2>6. CASE /\ Fresh(Server, t) /\ t.nextRx >= 1 /\ t.state \in {"SYN_RCVD", "CLOSED"}
               /\ \/ t.out = s.out
                  \/ \E n \in Segments : /\ n.flags \in {"SYN+ACK", "RST"}
                                         /\ t.out = Append(s.out, n)
      <3>1. ~ t.connected
        BY <2>6 DEF Fresh, Blank
      <3>2. Goes(s.state, t.state)
        BY <2>1, <2>6 DEF Goes, Moves
      <3> QED
        BY <1>3, <2>1, <2>6, <3>1, <3>2, FreshOutcome DEF t
    <2> QED
      BY <2>3, <2>4, <2>5, <2>6
  <1> QED
    BY <1>1, <1>2, <1>3

\* A socket that nothing happens to.
LEMMA StayOutcome ==
    ASSUME NEW x \in Sockets, NEW s, Settled(x, s)
    PROVE  Outcome(x, s, s)
  <1>1. CASE s.connected
    BY <1>1 DEF Settled, Outcome, Sound, Sane, Goes
  <1>2. CASE ~ s.connected
    BY <1>2 DEF Settled, Outcome, Fresh, Blank, Emits, Goes
  <1> QED
    BY <1>1, <1>2

\* TcpL4Protocol answers for a client without an end point.
LEMMA ResetOutcome ==
    ASSUME NEW s, Settled(Client, s)
    PROVE  Outcome(Client, s, Transmit(s, "RST", 0, 0))
  <1> DEFINE m == [flags |-> "RST", seq |-> 0, ack |-> 0, len |-> 0]
             t == [s EXCEPT !.out = <<m>>]
  <1>1. s \in SocketType /\ s.out = <<>>
    BY DEF Settled, Sound, Sane, Fresh, Blank
  <1>2. m \in Segments /\ m.flags = "RST"
    BY DEF Segments, Flags
  <1>3. Transmit(s, "RST", 0, 0) = t
    BY <1>1 DEF Transmit
  <1> HIDE DEF m
  <1>4. t \in SocketType
    <2>1. <<m>> \in Seq(Segments)
      BY <1>2
    <2> QED
      BY <1>1, <2>1, Update
  <1>5. /\ Kept(s, t) /\ t.sendPending = s.sendPending /\ t.delAck = s.delAck
        /\ t.held = s.held /\ t.nextRx = s.nextRx /\ t.fin = s.fin /\ t.out = <<m>>
    BY <1>1 DEF SocketType, Kept
  <1> HIDE DEF t
  <1>6. Client \in Sockets /\ Client # Server
    BY TcpAssumption DEF Sockets
  <1>7. CASE s.connected
    <2>1. IsFiniteSet(t.held) /\ t.nextRx >= 1
      BY <1>5, <1>7 DEF Settled, Sound, Sane, Buffers, Live
    <2>2. Sound(t)
      BY <1>4, <1>5, <1>7, <2>1, KeptSound DEF Settled
    <2> QED
      BY <1>3, <1>4, <1>5, <1>7, <2>1, <2>2 DEF Settled, Outcome, Kept, Goes
  <1>8. CASE ~ s.connected
    <2>1. Fresh(Client, t)
      BY <1>4, <1>5, <1>8 DEF Settled, Fresh, Blank, Quiet, Kept, Open
    <2>2. t.out = Append(s.out, m)
      BY <1>1, <1>5
    <2>3. Goes(s.state, t.state) /\ s.state = t.state
      BY <1>5 DEF Kept, Goes
    <2> QED
      BY <1>1, <1>2, <1>3, <1>5, <1>6, <1>8, <2>1, <2>2, <2>3, FreshOutcome
  <1> QED
    BY <1>7, <1>8

-----------------------------------------------------------------------------
(* The network *)

\* The members of a sequence.
LEMMA MembersFinite ==
    ASSUME NEW S, NEW p \in Seq(S)
    PROVE  ToSet(p) \in SUBSET S /\ IsFiniteSet(ToSet(p))
           /\ \A m \in ToSet(p) : \E i \in 1..Len(p) : m = p[i]
  <1> DEFINE First(n) == {p[i] : i \in {j \in 1..Len(p) : j <= n}}
             A == {n \in Nat : IsFiniteSet(First(n))}
  <1>1. Len(p) \in Nat /\ DOMAIN p = 1..Len(p)
    OBVIOUS
  <1>2. 0 \in A
    <2>1. First(0) = {}
      BY <1>1
    <2> QED
      BY <2>1, FS_EmptySet
  <1>3. ASSUME NEW n \in A PROVE n + 1 \in A
    <2>1. n \in Nat /\ n + 1 \in Nat /\ IsFiniteSet(First(n))
      OBVIOUS
    <2>2. CASE n + 1 \in 1..Len(p)
      <3>1. \A j \in 1..Len(p) : j <= n + 1 <=> j <= n \/ j = n + 1
        BY <1>1, <2>1
      <3>2. First(n + 1) = First(n) \cup {p[n + 1]}
        BY <2>2, <3>1
      <3> HIDE DEF First
      <3>3. IsFiniteSet(First(n) \cup {p[n + 1]})
        BY <2>1, FS_AddElement
      <3> QED
        BY <2>1, <3>2, <3>3
    <2>3. CASE n + 1 \notin 1..Len(p)
      <3>1. \A j \in 1..Len(p) : j <= n + 1 <=> j <= n
        BY <1>1, <2>1, <2>3
      <3>2. First(n + 1) = First(n)
        BY <3>1
      <3> HIDE DEF First
      <3> QED
        BY <2>1, <3>2
    <2> QED
      BY <2>2, <2>3
  <1>4. Len(p) \in A
    <2> HIDE DEF A
    <2>1. A = Nat
      BY <1>2, <1>3, Induct DEF A
    <2> QED
      BY <1>1, <2>1
  <1>5. ToSet(p) = First(Len(p))
    BY <1>1 DEF ToSet
  <1> QED
    BY <1>1, <1>4, <1>5

LEMMA QueueFacts ==
    ASSUME NEW flight \in SUBSET Segments, IsFiniteSet(flight), NEW out \in Seq(Segments)
    PROVE  /\ Queue(flight, out) \in SUBSET Segments /\ IsFiniteSet(Queue(flight, out))
           /\ \A m \in Queue(flight, out) : m \in flight \/ \E i \in 1..Len(out) : m = out[i]
  <1> DEFINE room == Bigger(0, Capacity - Cardinality(flight))
             n == Lesser(room, Len(out))
             p == SubSeq(out, 1, n)
  <1>1. n \in 0..Len(out)
    <2>1. room \in Nat /\ Len(out) \in Nat
      BY FS_CardinalityType, TcpAssumption DEF Bigger
    <2> HIDE DEF room
    <2> QED
      BY <2>1 DEF Lesser
  <1> HIDE DEF n
  <1>2. /\ p \in Seq(Segments) /\ Len(p) = n
        /\ \A i \in 1..n : p[i] = out[i]
    <2>1. 1 \in 1..(Len(out) + 1) /\ 1 <= n + 1 /\ n - 1 + 1 = n /\ n \in Nat
      BY <1>1
    <2>2. /\ p \in Seq(Segments) /\ Len(p) = n - 1 + 1
          /\ \A i \in 1..(n - 1 + 1) : p[i] = out[1 + i - 1]
      BY <1>1, <2>1, SubSeqFacts
    <2>3. \A i \in 1..n : 1 + i - 1 = i
      BY <2>1
    <2> QED
      BY <2>1, <2>2, <2>3
  <1>3. Queue(flight, out) = flight \cup ToSet(p)
    BY DEF Queue, p, n
  <1> HIDE DEF p
  <1>4. /\ ToSet(p) \in SUBSET Segments /\ IsFiniteSet(ToSet(p))
        /\ \A m \in ToSet(p) : \E i \in 1..Len(p) : m = p[i]
    BY <1>2, MembersFinite
  <1>5. \A m \in ToSet(p) : \E i \in 1..Len(out) : m = out[i]
    BY <1>1, <1>2, <1>4
  <1>6. IsFiniteSet(flight \cup ToSet(p))
    BY <1>4, FS_Union
  <1> QED
    BY <1>3, <1>4, <1>5, <1>6

\* The segments a step emitted are on their way, and the socket is settled.
LEMMA Delivered ==
    ASSUME NEW x \in Sockets, NEW s, NEW t, Outcome(x, s, t)
    PROVE  LET u == [t EXCEPT !.out = <<>>]
           IN  /\ Settled(x, u) /\ u.connected = t.connected /\ u.nextRx = t.nextRx
               /\ u.state = t.state /\ u \in SocketType
  <1> DEFINE u == [t EXCEPT !.out = <<>>]
  <1>1. t \in SocketType
    BY DEF Outcome
  <1>2. u \in SocketType
    <2>1. <<>> \in Seq(Segments)
      OBVIOUS
    <2> QED
      BY <1>1, <2>1, Update
  <1>3. /\ Kept(t, u) /\ u.sendPending = t.sendPending /\ u.delAck = t.delAck
        /\ u.held = t.held /\ u.nextRx = t.nextRx /\ u.fin = t.fin /\ u.out = <<>>
    BY <1>1 DEF SocketType, Kept
  <1> HIDE DEF u
  <1>4. CASE t.connected
    <2>1. Sound(t) /\ IsFiniteSet(u.held) /\ u.nextRx >= 1
      BY <1>3, <1>4 DEF Outcome, Sound, Sane, Buffers, Live
    <2>2. Sound(u)
      BY <1>2, <1>3, <2>1, KeptSound
    <2> QED
      BY <1>2, <1>3, <1>4, <2>2 DEF Outcome, Settled, Kept, u
  <1>5. CASE ~ t.connected
    <2>1. Fresh(x, u)
      BY <1>2, <1>3, <1>5 DEF Outcome, Fresh, Blank, Quiet, Kept, Open
    <2> QED
      BY <1>2, <1>3, <1>5, <2>1 DEF Settled, Kept, u
  <1> QED
    BY <1>4, <1>5

-----------------------------------------------------------------------------
(* Steps of the connection *)

\* What NeverBackwards says of one step.
Onwards ==
    \A x \in Sockets :
        LET from == sock[x].state
            to == sock'[x].state
        IN  to # from => /\ <<from, to>> \in Moves
                         /\ from = "CLOSED" => sock[x] = NewSocket

LEMMA Peers ==
    /\ Client \in Sockets /\ Server \in Sockets /\ Client # Server
    /\ Peer(Client) = Server /\ Peer(Server) = Client
    /\ \A x \in Sockets : /\ Peer(x) \in Sockets /\ Peer(x) # x
                          /\ x = Client \/ x = Server
                          /\ \A y \in Sockets : y = x \/ y = Peer(x)
  BY TcpAssumption DEF Sockets, Peer

\* A step of socket x that takes segments from the network and queues what the
\* socket emitted.
LEMMA StepKeeps ==
    ASSUME IInv, NEW x \in Sockets, NEW t, Outcome(x, sock[x], t), Becomes(x, t),
           NEW left \in SUBSET net[x],
           net' = [net EXCEPT ![x] = left, ![Peer(x)] = Queue(@, t.out)],
           t.connected /\ ~ sock[x].connected =>
              IF x = Client THEN sock[Server].nextRx >= 1 ELSE sock[Client].connected
    PROVE  IInv' /\ Onwards
  <1> DEFINE u == [t EXCEPT !.out = <<>>]
             s == sock[x]
             y == Peer(x)
             queue == Queue(net[y], t.out)
  <1>1. /\ DOMAIN sock = Sockets /\ \A z \in Sockets : Settled(z, sock[z])
        /\ net \in [Sockets -> SUBSET Segments] /\ \A z \in Sockets : IsFiniteSet(net[z])
        /\ losses \in 0..MaxLosses
    BY DEF IInv, NetOK
  <1>2. y \in Sockets /\ y # x /\ \A z \in Sockets : z = x \/ z = y
    BY Peers
  <1>3. /\ Settled(x, u) /\ u.connected = t.connected /\ u.nextRx = t.nextRx
        /\ u.state = t.state
    BY Delivered
  <1>4. t \in SocketType /\ t.out \in Seq(Segments)
    BY Fields DEF Outcome
  <1>5. DOMAIN sock' = Sockets /\ sock'[x] = u /\ sock'[y] = sock[y] /\ losses' = losses
    BY <1>1, <1>2 DEF Becomes
  <1>6. net'[x] = left /\ net'[y] = queue /\ DOMAIN net' = Sockets
    BY <1>1, <1>2
  <1>7. /\ queue \in SUBSET Segments /\ IsFiniteSet(queue)
        /\ \A m \in queue : m \in net[y] \/ \E i \in 1..Len(t.out) : m = t.out[i]
    BY <1>1, <1>2, <1>4, QueueFacts
  <1>8. left \in SUBSET Segments /\ IsFiniteSet(left)
    BY <1>1, FS_Subset
  <1>9. net' \in [Sockets -> SUBSET Segments]
    BY <1>1, <1>2, <1>6, <1>7, <1>8
  <1> HIDE DEF u, y, queue
  <1>10. s.connected => u.connected
    BY <1>3 DEF Outcome
  <1>11. s.nextRx >= 1 => u.nextRx >= 1
    BY <1>3 DEF Outcome
  <1>12. \A z \in Sockets : sock[z].connected => sock'[z].connected
    BY <1>2, <1>5, <1>10
  <1>13. \A z \in Sockets : sock[z].nextRx >= 1 => sock'[z].nextRx >= 1
    BY <1>2, <1>5, <1>11
  <1>14. \A m \in net'[Server] : m.flags \in {"ACK", "FIN+ACK"} => sock'[Client].connected
    <2> SUFFICES ASSUME NEW m \in net'[Server], m.flags \in {"ACK", "FIN+ACK"}
                 PROVE  sock'[Client].connected
      OBVIOUS
    <2>1. m \in net[Server] => sock'[Client].connected
      BY <1>12, Peers DEF IInv, NetOK
    <2>2. CASE x = Server
      BY <1>6, <2>1, <2>2
    <2>3. CASE x = Client
      <3>1. y = Server
        BY <2>3, Peers DEF y
      <3>2. ASSUME NEW i \in 1..Len(t.out), m = t.out[i], ~ t.connected PROVE FALSE
        <4>1. m.flags \in {"SYN", "RST"}
          BY <2>3, <3>2 DEF Outcome, Emits
        <4> QED
          BY <4>1
      <3>3. m \in net[Server] \/ t.connected
        BY <1>6, <1>7, <3>1, <3>2
      <3> QED
        BY <1>3, <1>5, <2>1, <2>3, <3>3
    <2> QED
      BY <2>2, <2>3, Peers
  <1>15. \A m \in net'[Client] :
            m.flags \in {"SYN+ACK", "ACK", "FIN+ACK"} => sock'[Server].nextRx >= 1
    <2> SUFFICES ASSUME NEW m \in net'[Client], m.flags \in {"SYN+ACK", "ACK", "FIN+ACK"}
                 PROVE  sock'[Server].nextRx >= 1
      OBVIOUS
    <2>1. m \in net[Client] => sock'[Server].nextRx >= 1
      BY <1>13, Peers DEF IInv, NetOK
    <2>2. CASE x = Client
      BY <1>6, <2>1, <2>2
    <2>3. CASE x = Server
      <3>1. y = Client
        BY <2>3, Peers DEF y
      <3>2. ASSUME t.out # <<>> PROVE t.nextRx >= 1
        BY <2>3, <3>2 DEF Outcome, Sound, Sane, Live
      <3>3. m \in net[Client] \/ t.out # <<>>
        BY <1>6, <1>7, <3>1
      <3> QED
        BY <1>3, <1>5, <2>1, <2>3, <3>2, <3>3
    <2> QED
      BY <2>2, <2>3, Peers
  <1>16. NetOK'
    BY <1>2, <1>6, <1>7, <1>8, <1>9, <1>14, <1>15 DEF NetOK
  <1>17. HandshakeAgrees'
    <2>1. /\ sock[Server].connected => sock[Client].connected
          /\ sock[Client].connected => sock[Server].nextRx > 0
      BY DEF IInv, HandshakeAgrees
    <2>2. CASE x = Client
      <3>1. sock'[Client] = u /\ sock'[Server] = sock[Server]
        BY <1>2, <1>5, <2>2, Peers
      <3>2. u.connected => sock[Server].nextRx > 0
        <4>1. sock[Server].nextRx \in Nat
          <5>1. sock[Server] \in SocketType
            BY <1>1, Peers DEF Settled, Sound, Sane, Fresh, Blank
          <5> QED
            BY <5>1, Fields
        <4> QED
          BY <1>3, <2>1, <2>2, <4>1
      <3> QED
        BY <1>10, <2>1, <2>2, <3>1, <3>2 DEF HandshakeAgrees
    <2>3. CASE x = Server
      <3>1. sock'[Server] = u /\ sock'[Client] = sock[Client]
        BY <1>2, <1>5, <2>3, Peers
      <3>2. sock[Server].nextRx > 0 => u.nextRx > 0
        <4>1. s \in SocketType /\ u.nextRx \in Nat /\ s.nextRx \in Nat
          <5>1. s \in SocketType
            BY <1>1 DEF Settled, Sound, Sane, Fresh, Blank
          <5> QED
            BY <1>3, <1>4, <5>1, Fields
        <4> HIDE DEF s
        <4> QED
          BY <1>11, <2>3, <4>1 DEF s
      <3>3. u.connected => sock[Client].connected
        BY <1>3, <2>1, <2>3, Peers
      <3> QED
        BY <2>1, <3>1, <3>2, <3>3 DEF HandshakeAgrees
    <2> QED
      BY <2>2, <2>3, Peers
  <1>18. IInv'
    <2>1. \A z \in Sockets : Settled(z, sock[z])'
      BY <1>1, <1>2, <1>3, <1>5
    <2> QED
      BY <1>1, <1>5, <1>16, <1>17, <2>1 DEF IInv
  <1>19. Onwards
    BY <1>2, <1>3, <1>5 DEF Onwards, Outcome, Goes
  <1> QED
    BY <1>18, <1>19

\* The same for a step that takes nothing from the network.
LEMMA OwnStepKeeps ==
    ASSUME IInv, NEW x \in Sockets, NEW t, Outcome(x, sock[x], t), Step(x, t),
           t.connected => sock[x].connected
    PROVE  IInv' /\ Onwards
  <1>1. net \in [Sockets -> SUBSET Segments]
    BY DEF IInv, NetOK
  <1>2. net' = [net EXCEPT ![x] = net[x], ![Peer(x)] = Queue(@, t.out)]
    BY <1>1, Peers DEF Step
  <1>3. net[x] \in SUBSET net[x] /\ Becomes(x, t)
    BY DEF Step
  <1> QED
    BY <1>2, <1>3, StepKeeps

-----------------------------------------------------------------------------
(* One lemma per action *)

LEMMA ConnectKeeps ==
    ASSUME IInv, NEW x \in Sockets, Connect(x)
    PROVE  IInv' /\ Onwards
  <1> DEFINE s == sock[x]
             u == [s EXCEPT !.endPoint = TRUE, !.synCount = SynRetries,
                            !.dataRetrCount = DataRetries]
             t == [SendEmptyPacket(u, "SYN") EXCEPT !.state = "SYN_SENT"]
  <1>1. x = Client /\ s = NewSocket /\ Step(x, t)
    BY DEF Connect
  <1>2. Outcome(x, s, t) /\ ~ t.connected
    BY <1>1, ConnectOutcome
  <1> HIDE DEF t
  <1> QED
    BY <1>1, <1>2, OwnStepKeeps

\* What Holds brings.
LEMMA HoldsFacts ==
    ASSUME IInv, NEW x \in Sockets, Holds(x)
    PROVE  Settled(x, sock[x]) /\ sock[x].endPoint /\ (x = Client \/ sock[x].connected)
  BY DEF IInv, Holds

LEMMA SendKeeps ==
    ASSUME IInv, NEW x \in Sockets, Send(x)
    PROVE  IInv' /\ Onwards
  <1> DEFINE s == sock[x]
             u == [s EXCEPT !.tail = @ + 1, !.written = @ + 1,
                            !.behind = @ \/ s.shutdownSend]
             Pending(cwnd) ==
                \/ u.sendPending
                \/ ~ u.shutdownSend /\ u.state # "SYN_SENT" /\ cwnd > InFlight(u)
  <1>1. PICK cwnd \in CWnd : Step(x, [u EXCEPT !.sendPending = Pending(cwnd)])
    BY DEF Send
  <1> DEFINE pending == Pending(cwnd)
             behind == s.behind \/ s.shutdownSend
             t == [s EXCEPT !.tail = @ + 1, !.written = @ + 1,
                            !.behind = behind, !.sendPending = pending]
  <1>2. Settled(x, s) /\ s.endPoint
    BY HoldsFacts DEF Send
  <1>3. s.state \in {"ESTABLISHED", "SYN_SENT", "CLOSE_WAIT"}
    BY DEF Send
  <1>4. s \in SocketType
    BY <1>2 DEF Settled, Sound, Sane, Fresh, Blank
  <1>5. u.sendPending = s.sendPending /\ u.state = s.state
    BY <1>4 DEF SocketType
  <1>6. [u EXCEPT !.sendPending = pending] = t
    <2> HIDE DEF pending
    <2> QED
      BY <1>4 DEF SocketType
  <1> HIDE DEF u
  <1>7. behind \in BOOLEAN /\ pending \in BOOLEAN /\ (pending => s.sendPending \/ s.state # "SYN_SENT")
    BY <1>4, <1>5, Fields
  <1> HIDE DEF pending, behind, s
  <1>8. Outcome(x, s, t) /\ (t.connected => s.connected)
    BY <1>2, <1>3, <1>7, SendOutcome
  <1> HIDE DEF t
  <1> QED
    BY <1>1, <1>6, <1>8, OwnStepKeeps DEF s, pending

LEMMA SendPendingKeeps ==
    ASSUME IInv, NEW x \in Sockets, SendPendingEvent(x)
    PROVE  IInv' /\ Onwards
  <1> DEFINE s == sock[x]
             t(cwnd) == SendPendingData([s EXCEPT !.sendPending = FALSE], cwnd)
  <1>1. PICK cwnd \in CWnd : Step(x, t(cwnd))
    BY DEF SendPendingEvent
  <1>2. Settled(x, s) /\ s.sendPending
    BY DEF IInv, SendPendingEvent
  <1>3. cwnd \in Nat
    BY TcpAssumption
  <1>4. Outcome(x, s, t(cwnd))
    BY <1>2, <1>3, SendPendingOutcome
  <1>5. s.connected
    BY <1>2 DEF Settled, Fresh, Blank
  <1> HIDE DEF t
  <1> QED
    BY <1>1, <1>4, <1>5, OwnStepKeeps

LEMMA AppCloseKeeps ==
    ASSUME IInv, NEW x \in Sockets, AppClose(x)
    PROVE  IInv' /\ Onwards
  <1> DEFINE s == sock[x]
             t == Close([s EXCEPT !.closed = TRUE])
  <1>1. Step(x, t) /\ Holds(x) /\ ~ s.closed
    BY DEF AppClose
  <1>2. Outcome(x, s, t) /\ (t.connected => s.connected)
    BY <1>1, HoldsFacts, CloseOutcome
  <1> HIDE DEF t
  <1> QED
    BY <1>1, <1>2, OwnStepKeeps

LEMMA AppShutdownSendKeeps ==
    ASSUME IInv, NEW x \in Sockets, AppShutdownSend(x)
    PROVE  IInv' /\ Onwards
  <1> DEFINE s == sock[x]
             t == ShutdownSend(s)
  <1>1. Step(x, t) /\ Holds(x) /\ ~ s.closed
    BY DEF AppShutdownSend
  <1>2. Outcome(x, s, t) /\ (t.connected => s.connected)
    BY <1>1, HoldsFacts, ShutdownOutcome
  <1> HIDE DEF t
  <1> QED
    BY <1>1, <1>2, OwnStepKeeps

LEMMA TimersKeep ==
    ASSUME IInv, NEW x \in Sockets,
           RetxTimer(x) \/ DelAckTimer(x) \/ LastAckTimer(x) \/ TimeWaitTimer(x)
    PROVE  IInv' /\ Onwards
  <1> DEFINE s == sock[x]
  <1>1. Settled(x, s)
    BY DEF IInv
  <1>2. CASE RetxTimer(x)
    <2>1. Step(x, RetxExpired(s)) /\ s.retx # "off"
      BY <1>2 DEF RetxTimer
    <2> QED
      BY <1>1, <2>1, RetxOutcome, OwnStepKeeps
  <1>3. CASE DelAckTimer(x)
    <2>1. Step(x, DelAckTimeout(s)) /\ s.delAck
      BY <1>3 DEF DelAckTimer
    <2>2. s.connected
      BY <1>1, <2>1 DEF Settled, Fresh, Blank
    <2> QED
      BY <1>1, <2>1, <2>2, DelAckOutcome, OwnStepKeeps
  <1>4. CASE LastAckTimer(x)
    <2>1. Step(x, LastAckTimeout(s)) /\ s.lastAck
      BY <1>4 DEF LastAckTimer
    <2>2. s.connected
      BY <1>1, <2>1 DEF Settled, Fresh, Blank
    <2> QED
      BY <1>1, <2>1, <2>2, LastAckOutcome, OwnStepKeeps
  <1>5. CASE TimeWaitTimer(x)
    <2>1. Step(x, CloseAndNotify(s)) /\ s.state = "TIME_WAIT"
      BY <1>5 DEF TimeWaitTimer
    <2>2. s.connected
      BY <1>1, <2>1 DEF Settled, Fresh
    <2> QED
      BY <1>1, <2>1, <2>2, TimeWaitOutcome, OwnStepKeeps
  <1> QED
    BY <1>2, <1>3, <1>4, <1>5

LEMMA ReceiveKeeps ==
    ASSUME IInv, NEW x \in Sockets, Receive(x)
    PROVE  IInv' /\ Onwards
  <1> DEFINE s == sock[x]
  <1>1. PICK m \in net[x], cwnd \in CWnd : Deliver(x, m, cwnd)
    BY DEF Receive
  <1> DEFINE t == IF s.endPoint THEN ForwardUp(s, m, cwnd) ELSE NoEndPoint(x, m)
             left == net[x] \ {m}
  <1>2. /\ Becomes(x, t)
        /\ net' = [net EXCEPT ![x] = left, ![Peer(x)] = Queue(@, t.out)]
    BY <1>1 DEF Deliver
  <1>3. left \in SUBSET net[x]
    OBVIOUS
  <1>4. Settled(x, s) /\ m \in Segments /\ cwnd \in Nat
    BY TcpAssumption DEF IInv, NetOK
  <1>5. CASE s.endPoint
    <2>1. t = ForwardUp(s, m, cwnd)
      BY <1>5
    <2>2. Outcome(x, s, t) /\ (t.connected /\ ~ s.connected => Connects(x, m))
      BY <1>4, <1>5, <2>1, ForwardUpOutcome
    <2>3. ASSUME Connects(x, m)
          PROVE  IF x = Client THEN sock[Server].nextRx >= 1 ELSE sock[Client].connected
      <3>1. CASE x = Client
        BY <2>3, <3>1 DEF Connects, IInv, NetOK
      <3>2. CASE x # Client
        <4>1. x = Server
          BY <3>2, Peers
        <4> QED
          BY <2>3, <3>2, <4>1 DEF Connects, IInv, NetOK
      <3> QED
        BY <3>1, <3>2
    <2> HIDE DEF t, left
    <2> QED
      BY <1>2, <1>3, <2>2, <2>3, StepKeeps
  <1>6. CASE ~ s.endPoint
    <2>1. t = NoEndPoint(x, m)
      BY <1>6
    <2>2. Outcome(x, s, t) /\ (t.connected => s.connected)
      <3>1. CASE t = s
        BY <1>4, <3>1, StayOutcome
      <3>2. CASE x = Client /\ t = Transmit(s, "RST", 0, 0)
        <4>1. t.connected = s.connected
          <5>1. s \in SocketType
            BY <1>4 DEF Settled, Sound, Sane, Fresh, Blank
          <5> QED
            BY <3>2, <5>1 DEF Transmit, SocketType
        <4> QED
          BY <1>4, <3>2, <4>1, ResetOutcome
      <3>3. CASE x = Server /\ s = NewSocket /\ t = CompleteFork(m)
        BY <1>4, <3>3, ForkOutcome
      <3> QED
        BY <2>1, <3>1, <3>2, <3>3, Peers DEF NoEndPoint
    <2> HIDE DEF t, left
    <2> QED
      BY <1>2, <1>3, <2>2, StepKeeps
  <1> QED
    BY <1>5, <1>6

LEMMA LoseKeeps ==
    ASSUME IInv, NEW x \in Sockets, Lose(x)
    PROVE  IInv' /\ Onwards
  <1>1. PICK m \in net[x] : net' = [net EXCEPT ![x] = @ \ {m}]
    BY DEF Lose
  <1>2. /\ sock' = sock /\ losses' = losses + 1 /\ losses < MaxLosses
        /\ losses \in 0..MaxLosses /\ MaxLosses \in Nat
    BY TcpAssumption DEF Lose, IInv
  <1>3. net \in [Sockets -> SUBSET Segments] /\ \A y \in Sockets : IsFiniteSet(net[y])
    BY DEF IInv, NetOK
  <1>4. net' \in [Sockets -> SUBSET Segments] /\ \A y \in Sockets : net'[y] \subseteq net[y]
    BY <1>1, <1>3
  <1>5. \A y \in Sockets : IsFiniteSet(net'[y])
    BY <1>3, <1>4, FS_Subset
  <1>6. NetOK'
    BY <1>2, <1>4, <1>5, Peers DEF IInv, NetOK
  <1>7. losses' \in 0..MaxLosses
    BY <1>2
  <1>8. IInv'
    BY <1>2, <1>6, <1>7 DEF IInv, HandshakeAgrees
  <1> QED
    BY <1>2, <1>8 DEF Onwards

LEMMA NextKeeps ==
    ASSUME IInv, [Next]_vars
    PROVE  IInv' /\ [Onwards]_vars
  <1>1. CASE UNCHANGED vars
    <2>1. IInv'
      BY <1>1 DEF IInv, NetOK, HandshakeAgrees, vars
    <2> QED
      BY <1>1, <2>1
  <1>2. ASSUME NEW x \in Sockets,
               \/ Connect(x) \/ Send(x) \/ SendPendingEvent(x)
               \/ AppClose(x) \/ AppShutdownSend(x)
               \/ RetxTimer(x) \/ DelAckTimer(x) \/ LastAckTimer(x) \/ TimeWaitTimer(x)
               \/ Receive(x) \/ Lose(x)
        PROVE  IInv' /\ Onwards
    BY <1>2, ConnectKeeps, SendKeeps, SendPendingKeeps, AppCloseKeeps, AppShutdownSendKeeps,
       TimersKeep, ReceiveKeeps, LoseKeeps
  <1> QED
    BY <1>1, <1>2 DEF Next

LEMMA InitOK ==
    ASSUME Init
    PROVE  IInv
  <1>1. \A x \in Sockets : sock[x] = NewSocket
    BY DEF Init
  <1>2. ASSUME NEW x \in Sockets PROVE Settled(x, NewSocket)
    BY NewSocketFresh DEF Settled, Fresh
  <1>3. NetOK
    <2>1. \A x \in Sockets : net[x] = {}
      BY DEF Init
    <2>2. net \in [Sockets -> SUBSET Segments]
      BY DEF Init
    <2> QED
      BY <2>1, <2>2, Peers, FS_EmptySet DEF NetOK
  <1>4. HandshakeAgrees
    BY <1>1, Peers, NewSocketFresh DEF HandshakeAgrees
  <1>5. losses \in 0..MaxLosses
    BY TcpAssumption DEF Init
  <1> QED
    BY <1>1, <1>2, <1>3, <1>4, <1>5 DEF IInv, Init

-----------------------------------------------------------------------------
(* What both sockets know of each other *)

\* The application of s is not going to write any more.
Over(s) == s.closed \/ s.shutdownSend

\* The states entered by sending a FIN.
Ending == {"FIN_WAIT_1", "CLOSING", "LAST_ACK"}

\* Socket s counted more than the segments its peer p wrote only if p has sent
\* a FIN.
Beyond(s, p) == ~ p.behind /\ s.nextRx > p.written + 1 => Over(p)

\* The send buffer ends with the last segment written, unless it is empty and
\* the number of the FIN was acknowledged.
Counted(s) ==
    ~ s.behind =>
        /\ ~ s.connected => s.tail = s.written
        /\ s.connected =>
              /\ s.tail >= s.written + 1
              /\ s.tail # s.written + 1 => s.head = s.tail /\ Over(s)

\* Socket s discards and sends by what p acknowledged.
Sends(s, p) ==
    /\ s.connected => s.head >= 1
    /\ s.head <= p.nextRx
    /\ s.nextTx <= s.highTx \/ s.nextTx <= p.nextRx
    /\ s.state = "FIN_WAIT_2" => s.head = s.tail /\ s.highTx < p.nextRx
    /\ s.closeOnEmpty => Over(s)
    /\ s.endPoint /\ (s.retx = "FIN+ACK" \/ s.state \in Ending) => Over(s)
    /\ Counted(s)
    /\ Beyond(p, s)

\* Socket s stored what p sent, counts nothing that it has not stored, and
\* remembers a FIN at the last segment written or behind it.
Takes(s, p) ==
    /\ s.nextRx <= 1 \/ s.nextRx <= p.highTx \/ Finished(s)
    /\ s.held \subseteq s.taken
    /\ \A q \in s.taken : 1 <= q /\ q < p.highTx
    /\ ~ s.connected => s.taken = {} /\ s.nextRx <= 1
    /\ ~ p.behind =>
          /\ \A q \in s.held : q > s.nextRx
          /\ \A q \in s.taken : q <= p.written
          /\ \A q \in 1..p.written : q < s.nextRx => q \in s.taken
          /\ s.fin # None =>
                Over(p) /\ s.fin >= p.written /\ (s.fin = p.written => s.fin \in s.taken)
    /\ Beyond(s, p)

\* A segment m that s sent to p acknowledges what s received and carries data
\* that s wrote; a FIN is numbered behind all data.
Said(s, p, m) ==
    /\ m.ack <= s.nextRx
    /\ m.flags \in {"SYN", "SYN+ACK"} => m.seq = 0
    /\ m.len = 1 => 1 <= m.seq /\ m.seq < s.highTx /\ (~ s.behind => m.seq <= s.written)
    /\ m.flags = "FIN+ACK" =>
          /\ Over(s)
          /\ m.seq <= s.highTx \/ m.seq <= p.nextRx
          /\ ~ s.behind => m.seq + m.len > s.written

\* Socket s during an event while its peer is p.
Good(s, p) ==
    /\ s \in SocketType /\ p \in SocketType /\ Quiet(s) /\ Buffers(s)
    /\ Sends(s, p) /\ Takes(s, p)
    /\ \A i \in 1..Len(s.out) : Said(s, p, s.out[i])

\* What the peer of a socket relies on only grows.
Grows(s, t) ==
    /\ t.nextRx >= s.nextRx /\ t.highTx >= s.highTx
    /\ s.taken \subseteq t.taken
    /\ s.behind => t.behind
    /\ Over(s) => Over(t)
    /\ s.connected => t.connected
    /\ t.written = s.written

Keeps(s, t, p) == Good(t, p) /\ Grows(s, t)

LEMMA KeepsNothing ==
    ASSUME NEW s, NEW p, Good(s, p)
    PROVE  Keeps(s, s, p)
  <1>1. s.nextRx \in Nat /\ s.highTx \in Nat
    BY Fields DEF Good
  <1> QED
    BY <1>1 DEF Keeps, Grows

LEMMA KeepsOn ==
    ASSUME NEW s, NEW t, NEW u, NEW p, s \in SocketType, Keeps(s, t, p), Keeps(t, u, p)
    PROVE  Keeps(s, u, p)
  <1>1. t \in SocketType /\ u \in SocketType
    BY DEF Keeps, Good
  <1>2. /\ s.nextRx \in Nat /\ s.highTx \in Nat /\ t.nextRx \in Nat /\ t.highTx \in Nat
        /\ u.nextRx \in Nat /\ u.highTx \in Nat
    BY <1>1, Fields
  <1>3. Grows(s, t) /\ Grows(t, u) /\ Good(u, p)
    BY DEF Keeps
  <1>4. Grows(s, u)
    BY <1>2, <1>3 DEF Grows
  <1> QED
    BY <1>3, <1>4 DEF Keeps

\* A segment stays true while its sender grows.
LEMMA SaidGrows ==
    ASSUME NEW s \in SocketType, NEW t \in SocketType, NEW p \in SocketType, Grows(s, t),
           NEW m \in Segments, Said(s, p, m)
    PROVE  Said(t, p, m)
  <1>1. /\ s.nextRx \in Nat /\ s.highTx \in Nat /\ t.nextRx \in Nat /\ t.highTx \in Nat
        /\ m.seq \in Nat /\ m.ack \in Nat
    BY Fields DEF Segments
  <1> QED
    BY <1>1 DEF Said, Grows

\* The same while its receiver does.
LEMMA HeardGrows ==
    ASSUME NEW s \in SocketType, NEW p \in SocketType, NEW q \in SocketType, Grows(p, q),
           NEW m \in Segments, Said(s, p, m)
    PROVE  Said(s, q, m)
  <1>1. p.nextRx \in Nat /\ q.nextRx \in Nat /\ m.seq \in Nat
    BY Fields DEF Segments
  <1> QED
    BY <1>1 DEF Said, Grows

\* What the numbers and the buffers of a socket say.
Alike(s, t) ==
    /\ t.head = s.head /\ t.tail = s.tail /\ t.nextTx = s.nextTx /\ t.highTx = s.highTx
    /\ t.nextRx = s.nextRx /\ t.held = s.held /\ t.fin = s.fin /\ t.taken = s.taken
    /\ t.connected = s.connected /\ t.written = s.written

\* A change of state or timers, or a call of Close or ShutdownSend.
LEMMA AlikeKeeps ==
    ASSUME NEW s, NEW t, NEW p, Good(s, p), t \in SocketType, Quiet(t), Buffers(t),
           Alike(s, t), t.behind = s.behind, t.out = s.out,
           Over(s) => Over(t), t.closeOnEmpty => s.closeOnEmpty \/ Over(t),
           t.state = "FIN_WAIT_2" =>
              s.state = "FIN_WAIT_2" \/ (s.head = s.tail /\ s.highTx < p.nextRx),
           t.endPoint /\ (t.retx = "FIN+ACK" \/ t.state \in Ending) => Over(t)
    PROVE  Keeps(s, t, p)
  <1>1. s \in SocketType /\ p \in SocketType /\ Sends(s, p) /\ Takes(s, p)
        /\ \A i \in 1..Len(s.out) : Said(s, p, s.out[i])
    BY DEF Good
  <1>2. s.nextRx \in Nat /\ s.highTx \in Nat
    BY <1>1, Fields
  <1>3. Grows(s, t)
    BY <1>2 DEF Grows, Alike
  <1>4. Sends(t, p)
    <2>1. Counted(t)
      BY <1>1 DEF Sends, Alike, Counted
    <2>2. Beyond(p, t)
      BY <1>1 DEF Sends, Alike, Beyond
    <2>3. t.closeOnEmpty => Over(t)
      BY <1>1 DEF Sends
    <2> QED
      BY <1>1, <2>1, <2>2, <2>3 DEF Sends, Alike
  <1>5. Takes(t, p)
    BY <1>1 DEF Takes, Alike, Beyond, Finished
  <1>6. \A i \in 1..Len(t.out) : Said(t, p, t.out[i])
    <2>1. \A i \in 1..Len(s.out) : s.out[i] \in Segments
      <3>1. s.out \in Seq(Segments)
        BY <1>1, Fields
      <3> QED
        BY <3>1
    <2> QED
      BY <1>1, <1>3, <2>1, SaidGrows
  <1> QED
    BY <1>1, <1>3, <1>4, <1>5, <1>6 DEF Keeps, Good

\* What a handler that only sends an empty segment leaves alone.
LEMMA SameAlike ==
    ASSUME NEW s, NEW t, Same(s, t)
    PROVE  /\ Alike(s, t) /\ (Over(s) <=> Over(t)) /\ t.closeOnEmpty = s.closeOnEmpty
           /\ Buffers(s) => Buffers(t)
  BY DEF Same, Alike, Over, Buffers

\* One more segment.
LEMMA EmitKeeps ==
    ASSUME NEW s, NEW t, NEW p, Good(s, p), t \in SocketType, Quiet(t), Same(s, t),
           t.state = s.state, s.behind => t.behind,
           NEW m \in Segments, t.out = Append(s.out, m), Said(t, p, m),
           t.endPoint /\ (t.retx = "FIN+ACK" \/ t.state \in Ending) => Over(t)
    PROVE  Keeps(s, t, p)
  <1>1. s \in SocketType /\ p \in SocketType /\ Sends(s, p) /\ Takes(s, p) /\ Buffers(s)
        /\ \A i \in 1..Len(s.out) : Said(s, p, s.out[i])
    BY DEF Good
  <1>2. /\ Alike(s, t) /\ Buffers(t) /\ (Over(s) <=> Over(t))
        /\ t.closeOnEmpty = s.closeOnEmpty
    BY <1>1, SameAlike
  <1>3. s.nextRx \in Nat /\ s.highTx \in Nat /\ s.out \in Seq(Segments)
    BY <1>1, Fields
  <1>4. Grows(s, t)
    BY <1>2, <1>3 DEF Grows, Alike
  <1>5. Sends(t, p)
    <2>1. Counted(t)
      BY <1>1, <1>2 DEF Sends, Alike, Counted
    <2>2. Beyond(p, t)
      BY <1>1, <1>2 DEF Sends, Alike, Beyond
    <2> QED
      BY <1>1, <1>2, <2>1, <2>2 DEF Sends, Alike
  <1>6. Takes(t, p)
    BY <1>1, <1>2 DEF Takes, Alike, Beyond, Finished
  <1>7. \A i \in 1..Len(t.out) : Said(t, p, t.out[i])
    <2>1. \A i \in 1..Len(s.out) : s.out[i] \in Segments /\ Said(t, p, s.out[i])
      BY <1>1, <1>3, <1>4, SaidGrows
    <2>2. \A i \in 1..Len(t.out) : t.out[i] = m \/ (i \in 1..Len(s.out) /\ t.out[i] = s.out[i])
      BY <1>3
    <2> QED
      BY <2>1, <2>2
  <1> QED
    BY <1>1, <1>2, <1>4, <1>5, <1>6, <1>7 DEF Keeps, Good

LEMMA SendEmptyGood ==
    ASSUME NEW s, NEW p, Good(s, p), NEW flags \in Flags,
           flags \in {"SYN", "SYN+ACK"} => s.nextTx = 0 /\ s.state \notin Ending,
           flags = "FIN+ACK" /\ s.endPoint => Over(s) /\ s.connected
    PROVE  Keeps(s, SendEmptyPacket(s, flags), p)
  <1> DEFINE t == SendEmptyPacket(s, flags)
  <1>1. s \in SocketType /\ p \in SocketType /\ Quiet(s) /\ Buffers(s) /\ Sends(s, p)
    BY DEF Good
  <1>2. t \in SocketType /\ Quiet(t) /\ Same(s, t)
    BY <1>1, SendEmptyPacketFacts
  <1>3. CASE ~ s.endPoint
    <2>1. t = s
      BY <1>1, <1>3, SendEmptyPacketFacts
    <2> QED
      BY <2>1, KeepsNothing
  <1>4. CASE s.endPoint /\ flags \in {"SYN", "SYN+ACK"} /\ s.synCount = 0
    <2>1. t.state = "CLOSED" /\ ~ t.endPoint /\ t.out = s.out /\ t.behind = s.behind
      BY <1>1, <1>4, SendEmptyPacketFacts
    <2> HIDE DEF t
    <2>2. Alike(s, t) /\ Buffers(t) /\ (Over(s) => Over(t)) /\ (t.closeOnEmpty => s.closeOnEmpty)
      BY <1>1, <1>2, SameAlike
    <2>3. /\ t.state = "FIN_WAIT_2" =>
                s.state = "FIN_WAIT_2" \/ (s.head = s.tail /\ s.highTx < p.nextRx)
          /\ t.endPoint /\ (t.retx = "FIN+ACK" \/ t.state \in Ending) => Over(t)
          /\ t.closeOnEmpty => s.closeOnEmpty \/ Over(t)
      BY <2>1, <2>2
    <2> QED
      BY <1>2, <2>1, <2>2, <2>3, AlikeKeeps DEF t
  <1>5. CASE s.endPoint /\ ~ (flags \in {"SYN", "SYN+ACK"} /\ s.synCount = 0)
    <2>1. /\ t.state = s.state /\ t.endPoint /\ t.retx = Armed(s, flags)
          /\ t.behind = (s.behind \/ (flags = "FIN+ACK" /\ s.nextTx < s.tail))
          /\ \E m : Empty(s, flags, m) /\ t.out = Append(s.out, m)
      BY <1>1, <1>5, SendEmptyPacketFacts
    <2> HIDE DEF t
    <2>2. PICK m : Empty(s, flags, m) /\ t.out = Append(s.out, m)
      BY <2>1
    <2>3. Over(s) <=> Over(t)
      BY <1>2, SameAlike
    <2>4. m \in Segments /\ m.flags = flags /\ m.len = 0 /\ m.ack <= s.nextRx
      BY <2>2 DEF Empty
    <2>5. flags \in {"SYN", "SYN+ACK"} => m.seq = 0
      BY <2>2 DEF Empty, Ending
    <2>6. ASSUME flags = "FIN+ACK"
          PROVE  /\ Over(t)
                 /\ m.seq <= t.highTx \/ m.seq <= p.nextRx
                 /\ ~ t.behind => m.seq + m.len > t.written
      <3>1. m.seq = s.nextTx /\ Over(s) /\ s.connected
        BY <1>5, <2>2, <2>6 DEF Empty
      <3>2. t.highTx = s.highTx /\ t.written = s.written
        BY <1>2 DEF Same
      <3>3. s.nextTx <= s.highTx \/ s.nextTx <= p.nextRx
        BY <1>1 DEF Sends
      <3>4. ASSUME ~ t.behind PROVE s.nextTx > s.written
        <4>1. ~ s.behind /\ ~ s.nextTx < s.tail
          BY <2>1, <2>6, <3>4
        <4>2. s.tail >= s.written + 1
          BY <1>1, <3>1, <4>1 DEF Sends, Counted
        <4>3. s.nextTx \in Nat /\ s.tail \in Nat /\ s.written \in Nat
          BY <1>1, Fields
        <4> QED
          BY <4>1, <4>2, <4>3
      <3>5. s.nextTx + 0 = s.nextTx
        BY <1>1, Fields
      <3> QED
        BY <2>3, <2>4, <3>1, <3>2, <3>3, <3>4, <3>5
    <2>7. Said(t, p, m)
      <3>1. t.nextRx = s.nextRx
        BY <1>2 DEF Same
      <3> QED
        BY <2>4, <2>5, <2>6, <3>1 DEF Said
    <2>8. t.retx = "FIN+ACK" \/ t.state \in Ending => Over(t)
      BY <1>1, <1>5, <2>1, <2>3 DEF Sends, Armed
    <2> QED
      <3>1. /\ t.endPoint /\ (t.retx = "FIN+ACK" \/ t.state \in Ending) => Over(t)
            /\ s.behind => t.behind
            /\ t.state = s.state /\ t.out = Append(s.out, m) /\ m \in Segments
        BY <2>1, <2>2, <2>4, <2>8
      <3> QED
        BY <1>2, <2>7, <3>1, EmitKeeps DEF t
  <1> QED
    BY <1>3, <1>4, <1>5

-----------------------------------------------------------------------------
(* Closing *)

LEMMA StateGood ==
    ASSUME NEW s, NEW p, Good(s, p), NEW q \in State,
           q = "FIN_WAIT_2" => s.head = s.tail /\ s.highTx < p.nextRx,
           q \in Ending /\ s.endPoint => Over(s)
    PROVE  Keeps(s, [s EXCEPT !.state = q], p)
  <1> DEFINE t == [s EXCEPT !.state = q]
  <1>1. s \in SocketType /\ Quiet(s) /\ Buffers(s) /\ Sends(s, p)
    BY DEF Good
  <1>2. t \in SocketType
    BY <1>1, Update
  <1>3. /\ t.state = q /\ Same(s, t) /\ t.endPoint = s.endPoint /\ t.retx = s.retx
        /\ t.behind = s.behind /\ t.out = s.out /\ Quiet(t)
    BY <1>1 DEF SocketType, Same, Quiet
  <1> HIDE DEF t
  <1>4. Alike(s, t) /\ Buffers(t) /\ (Over(s) => Over(t)) /\ (t.closeOnEmpty => s.closeOnEmpty)
    BY <1>1, <1>3, SameAlike
  <1>5. t.endPoint /\ (t.retx = "FIN+ACK" \/ t.state \in Ending) => Over(t)
    BY <1>1, <1>3, <1>4 DEF Sends
  <1>6. t.closeOnEmpty => s.closeOnEmpty \/ Over(t)
    BY <1>4
  <1>7. t.state = "FIN_WAIT_2" =>
           s.state = "FIN_WAIT_2" \/ (s.head = s.tail /\ s.highTx < p.nextRx)
    BY <1>3
  <1> QED
    BY <1>2, <1>3, <1>4, <1>5, <1>6, <1>7, AlikeKeeps DEF t

\* A socket that gives up its end point.
LEMMA QuitGood ==
    ASSUME NEW s, NEW t, NEW p, Good(s, p), t \in SocketType, Quiet(t), Same(s, t),
           t.behind = s.behind, t.out = s.out, ~ t.endPoint, t.state \in {s.state, "CLOSED"}
    PROVE  Keeps(s, t, p)
  <1>1. Buffers(s)
    BY DEF Good
  <1>2. Alike(s, t) /\ Buffers(t) /\ (Over(s) => Over(t)) /\ (t.closeOnEmpty => s.closeOnEmpty)
    BY <1>1, SameAlike
  <1>3. /\ t.endPoint /\ (t.retx = "FIN+ACK" \/ t.state \in Ending) => Over(t)
        /\ t.closeOnEmpty => s.closeOnEmpty \/ Over(t)
        /\ t.state = "FIN_WAIT_2" =>
              s.state = "FIN_WAIT_2" \/ (s.head = s.tail /\ s.highTx < p.nextRx)
    BY <1>2
  <1> QED
    BY <1>2, <1>3, AlikeKeeps

LEMMA DeallocateGood ==
    ASSUME NEW s, NEW p, Good(s, p)
    PROVE  Keeps(s, DeallocateEndPoint(s), p)
  <1>1. s \in SocketType /\ Quiet(s)
    BY DEF Good
  <1> QED
    BY <1>1, DeallocateEndPointFacts, QuitGood

LEMMA CloseAndNotifyGood ==
    ASSUME NEW s, NEW p, Good(s, p)
    PROVE  Keeps(s, CloseAndNotify(s), p)
  <1>1. s \in SocketType /\ Quiet(s)
    BY DEF Good
  <1> QED
    BY <1>1, CloseAndNotifyFacts, QuitGood

LEMMA SendRSTGood ==
    ASSUME NEW s, NEW p, Good(s, p)
    PROVE  Keeps(s, SendRST(s), p)
  <1> DEFINE u == SendEmptyPacket(s, "RST")
  <1>1. s \in SocketType /\ "RST" \in Flags
    BY DEF Good, Flags
  <1>2. Keeps(s, u, p)
    BY <1>1, SendEmptyGood
  <1> HIDE DEF u
  <1>3. Keeps(u, DeallocateEndPoint(u), p)
    BY <1>2, DeallocateGood DEF Keeps
  <1> QED
    BY <1>1, <1>2, <1>3, KeepsOn DEF SendRST, u

LEMMA AbortGood ==
    ASSUME NEW s, NEW p, Good(s, p)
    PROVE  Keeps(s, CloseAndNotify(SendRST(s)), p)
  <1>1. s \in SocketType
    BY DEF Good
  <1>2. Keeps(s, SendRST(s), p)
    BY SendRSTGood
  <1>3. Keeps(SendRST(s), CloseAndNotify(SendRST(s)), p)
    BY <1>2, CloseAndNotifyGood DEF Keeps
  <1> QED
    BY <1>1, <1>2, <1>3, KeepsOn

\* A FIN, and the state that follows it.
LEMMA FinGood ==
    ASSUME NEW s, NEW p, Good(s, p), Over(s), s.connected, NEW q \in Ending
    PROVE  Keeps(s, [SendEmptyPacket(s, "FIN+ACK") EXCEPT !.state = q], p)
  <1> DEFINE u == SendEmptyPacket(s, "FIN+ACK")
  <1>1. s \in SocketType /\ "FIN+ACK" \in Flags /\ q \in State /\ q # "FIN_WAIT_2"
    BY DEF Good, Flags, State, Ending
  <1>2. Keeps(s, u, p)
    BY <1>1, SendEmptyGood
  <1> HIDE DEF u
  <1>3. Keeps(u, [u EXCEPT !.state = q], p)
    BY <1>1, <1>2, StateGood DEF Keeps, Grows
  <1> QED
    BY <1>1, <1>2, <1>3, KeepsOn DEF u

LEMMA DoCloseGood ==
    ASSUME NEW s, NEW p, Good(s, p), Over(s), s.connected \/ s.state = "SYN_SENT"
    PROVE  Keeps(s, DoClose(s), p)
  <1> DEFINE t == DoClose(s)
  <1>1. CASE s.state \in {"SYN_RCVD", "ESTABLISHED"}
    <2>1. t = [SendEmptyPacket(s, "FIN+ACK") EXCEPT !.state = "FIN_WAIT_1"]
      BY <1>1 DEF DoClose
    <2>2. "FIN_WAIT_1" \in Ending /\ s.connected
      BY <1>1 DEF Ending
    <2> QED
      BY <2>1, <2>2, FinGood
  <1>2. CASE s.state = "CLOSE_WAIT"
    <2>1. t = [SendEmptyPacket(s, "FIN+ACK") EXCEPT !.state = "LAST_ACK"]
      BY <1>2 DEF DoClose
    <2>2. "LAST_ACK" \in Ending /\ s.connected
      BY <1>2 DEF Ending
    <2> QED
      BY <2>1, <2>2, FinGood
  <1>3. CASE s.state \in {"SYN_SENT", "CLOSING"}
    <2>1. t = CloseAndNotify(SendRST(s))
      BY <1>3 DEF DoClose
    <2> QED
      BY <2>1, AbortGood
  <1>4. CASE s.state \notin {"SYN_RCVD", "ESTABLISHED", "CLOSE_WAIT", "SYN_SENT", "CLOSING"}
    <2>1. t = s
      BY <1>4 DEF DoClose
    <2> QED
      BY <2>1, KeepsNothing
  <1> QED
    BY <1>1, <1>2, <1>3, <1>4

\* A call of the application that is remembered.
LEMMA OverGood ==
    ASSUME NEW s, NEW t, NEW p, Good(s, p), t \in SocketType, Over(t),
           \/ t = [s EXCEPT !.closed = TRUE]
           \/ t = [s EXCEPT !.closeOnEmpty = TRUE]
           \/ t = [s EXCEPT !.shutdownSend = TRUE, !.closeOnEmpty = TRUE]
    PROVE  Keeps(s, t, p)
  <1>1. s \in SocketType /\ Quiet(s) /\ Buffers(s)
    BY DEF Good
  <1>2. /\ t.head = s.head /\ t.tail = s.tail /\ t.nextTx = s.nextTx /\ t.highTx = s.highTx
        /\ t.nextRx = s.nextRx /\ t.held = s.held /\ t.fin = s.fin /\ t.taken = s.taken
        /\ t.connected = s.connected /\ t.written = s.written /\ t.lost = s.lost
        /\ t.behind = s.behind /\ t.out = s.out /\ t.state = s.state
        /\ t.endPoint = s.endPoint /\ t.retx = s.retx /\ t.lastAck = s.lastAck
        /\ t.delAck = s.delAck /\ t.sendPending = s.sendPending
    <2>1. CASE t = [s EXCEPT !.closed = TRUE]
      BY <1>1, <2>1 DEF SocketType
    <2>2. CASE t = [s EXCEPT !.closeOnEmpty = TRUE]
      BY <1>1, <2>2 DEF SocketType
    <2>3. CASE t = [s EXCEPT !.shutdownSend = TRUE, !.closeOnEmpty = TRUE]
      BY <1>1, <2>3 DEF SocketType
    <2> QED
      BY <2>1, <2>2, <2>3
  <1>3. Alike(s, t) /\ Quiet(t) /\ Buffers(t)
    BY <1>1, <1>2 DEF Alike, Quiet, Buffers
  <1>4. t.state = "FIN_WAIT_2" =>
           s.state = "FIN_WAIT_2" \/ (s.head = s.tail /\ s.highTx < p.nextRx)
    BY <1>2
  <1> QED
    BY <1>2, <1>3, <1>4, AlikeKeeps

LEMMA CloseGood ==
    ASSUME NEW s, NEW p, Good(s, p), Over(s), s.connected \/ s.state = "SYN_SENT"
    PROVE  Keeps(s, Close(s), p)
  <1>1. s \in SocketType
    BY DEF Good
  <1>2. CASE s.held # {}
    BY <1>2, SendRSTGood DEF Close
  <1>3. CASE s.held = {} /\ SizeFromSequence(s, s.nextTx) > 0
    <2> DEFINE t == [s EXCEPT !.closeOnEmpty = TRUE]
    <2>1. Close(s) = t
      BY <1>3 DEF Close
    <2>2. t \in SocketType
      BY <1>1, Update
    <2>3. Over(t)
      BY <1>1 DEF Over, SocketType
    <2> QED
      BY <2>1, <2>2, <2>3, OverGood
  <1>4. CASE s.held = {} /\ ~ SizeFromSequence(s, s.nextTx) > 0
    <2>1. Close(s) = DoClose(s)
      BY <1>4 DEF Close
    <2> QED
      BY <2>1, DoCloseGood
  <1> QED
    BY <1>2, <1>3, <1>4

LEMMA ShutdownSendGood ==
    ASSUME NEW s, NEW p, Good(s, p), s.connected \/ s.state = "SYN_SENT"
    PROVE  Keeps(s, ShutdownSend(s), p)
  <1> DEFINE t == [s EXCEPT !.shutdownSend = TRUE, !.closeOnEmpty = TRUE]
             u == ShutdownSend(s)
  <1>1. s \in SocketType
    BY DEF Good
  <1>2. t \in SocketType
    <2>1. [s EXCEPT !.shutdownSend = TRUE] \in SocketType
      BY <1>1, Update
    <2>2. t = [[s EXCEPT !.shutdownSend = TRUE] EXCEPT !.closeOnEmpty = TRUE]
      BY <1>1 DEF SocketType
    <2> QED
      BY <2>1, <2>2, Update
  <1>3. Over(t) /\ t.connected = s.connected /\ t.state = s.state
    BY <1>1 DEF Over, SocketType
  <1>4. Keeps(s, t, p)
    BY <1>2, <1>3, OverGood
  <1>5. Good(t, p)
    BY <1>4 DEF Keeps
  <1>6. u \in {t, [SendEmptyPacket(t, "FIN+ACK") EXCEPT !.state = "FIN_WAIT_1"],
               [SendEmptyPacket(t, "FIN+ACK") EXCEPT !.state = "LAST_ACK"]}
        /\ (u # t => s.state \in {"ESTABLISHED", "CLOSE_WAIT"})
    BY DEF ShutdownSend
  <1> HIDE DEF t, u
  <1>7. ASSUME u # t PROVE Keeps(t, u, p)
    <2>1. t.connected /\ {"FIN_WAIT_1", "LAST_ACK"} \subseteq Ending
      BY <1>3, <1>6, <1>7 DEF Ending
    <2> QED
      BY <1>3, <1>5, <1>6, <1>7, <2>1, FinGood
  <1> QED
    BY <1>1, <1>4, <1>7, KeepsOn DEF u

\* LAST_ACK is entered from CLOSE_WAIT by a socket that keeps its end point.
LEMMA CloseStays ==
    ASSUME NEW s \in SocketType, Quiet(s), s.endPoint, s.state = "CLOSE_WAIT",
           Close(s).state = "LAST_ACK"
    PROVE  Close(s).endPoint
  <1> DEFINE u == SendEmptyPacket(s, "RST")
             f == SendEmptyPacket(s, "FIN+ACK")
  <1>1. "RST" \in Flags /\ "FIN+ACK" \in Flags
    BY DEF Flags
  <1>2. u \in SocketType /\ Quiet(u) /\ u.state = "CLOSE_WAIT"
    BY <1>1, SendEmptyPacketFacts
  <1>3. f \in SocketType /\ f.endPoint
    BY <1>1, SendEmptyPacketFacts
  <1> HIDE DEF u, f
  <1>4. s.held = {}
    <2>1. ASSUME s.held # {} PROVE FALSE
      <3>1. Close(s) = DeallocateEndPoint(u)
        BY <2>1 DEF Close, SendRST, u
      <3>2. DeallocateEndPoint(u).state = "CLOSE_WAIT"
        BY <1>2, DeallocateEndPointFacts
      <3> QED
        BY <3>1, <3>2
    <2> QED
      BY <2>1
  <1>5. ~ SizeFromSequence(s, s.nextTx) > 0
    <2>1. ASSUME SizeFromSequence(s, s.nextTx) > 0 PROVE FALSE
      <3>1. Close(s) = [s EXCEPT !.closeOnEmpty = TRUE]
        BY <1>4, <2>1 DEF Close
      <3> QED
        BY <3>1 DEF SocketType
    <2> QED
      BY <2>1
  <1>6. Close(s) = [f EXCEPT !.state = "LAST_ACK"]
    BY <1>4, <1>5 DEF Close, DoClose, f
  <1> QED
    BY <1>3, <1>6 DEF SocketType

LEMMA DoPeerCloseGood ==
    ASSUME NEW s, NEW p, Good(s, p), s.connected, s.endPoint
    PROVE  Keeps(s, DoPeerClose(s), p)
  <1> DEFINE t == [s EXCEPT !.state = "CLOSE_WAIT"]
             u == IF s.shutdownSend THEN Close(t) ELSE SendEmptyPacket(t, "ACK")
             v == [u EXCEPT !.dataRetrCount = DataRetries, !.lastAck = TRUE]
  <1>1. /\ s \in SocketType /\ "CLOSE_WAIT" \in State /\ "ACK" \in Flags
        /\ "CLOSE_WAIT" \notin Ending
    BY DEF Good, State, Flags, Ending
  <1>2. Keeps(s, t, p)
    BY <1>1, StateGood
  <1>3. t \in SocketType /\ Quiet(t) /\ Good(t, p)
    BY <1>2 DEF Keeps, Good
  <1>4. /\ t.state = "CLOSE_WAIT" /\ t.connected /\ t.endPoint
        /\ (s.shutdownSend => Over(t))
    BY <1>1 DEF SocketType, Over
  <1>5. DoPeerClose(s) = IF u.state = "LAST_ACK" THEN v ELSE u
    BY DEF DoPeerClose
  <1> HIDE DEF t
  <1>6. Keeps(t, u, p)
    BY <1>1, <1>3, <1>4, CloseGood, SendEmptyGood
  <1>7. Keeps(s, u, p)
    BY <1>1, <1>2, <1>6, KeepsOn
  <1>8. ASSUME u.state = "LAST_ACK" PROVE Keeps(s, v, p)
    <2>1. u.endPoint
      <3>1. CASE s.shutdownSend
        BY <1>3, <1>4, <1>8, <3>1, CloseStays
      <3>2. CASE ~ s.shutdownSend
        <4>1. SendEmptyPacket(t, "ACK").endPoint
          BY <1>1, <1>3, <1>4, SendEmptyPacketFacts
        <4> QED
          BY <3>2, <4>1
      <3> QED
        BY <3>1, <3>2
    <2> HIDE DEF u
    <2>2. u \in SocketType /\ Quiet(u) /\ Buffers(u) /\ Good(u, p) /\ Sends(u, p)
      BY <1>7 DEF Keeps, Good
    <2>3. v \in SocketType
      <3> DEFINE w == [u EXCEPT !.dataRetrCount = DataRetries]
      <3>1. DataRetries \in 0..DataRetries
        BY TcpAssumption
      <3>2. w \in SocketType
        BY <2>2, <3>1, Update
      <3>3. v = [w EXCEPT !.lastAck = TRUE]
        BY <2>2 DEF SocketType
      <3> HIDE DEF w
      <3> QED
        BY <3>2, <3>3, Update
    <2>4. /\ v.head = u.head /\ v.tail = u.tail /\ v.nextTx = u.nextTx /\ v.highTx = u.highTx
          /\ v.nextRx = u.nextRx /\ v.held = u.held /\ v.fin = u.fin /\ v.taken = u.taken
          /\ v.connected = u.connected /\ v.written = u.written /\ v.lost = u.lost
          /\ v.behind = u.behind /\ v.out = u.out /\ v.state = u.state
          /\ v.endPoint = u.endPoint /\ v.retx = u.retx /\ v.closed = u.closed
          /\ v.closeOnEmpty = u.closeOnEmpty /\ v.shutdownSend = u.shutdownSend
      BY <2>2 DEF SocketType
    <2> HIDE DEF v
    <2>5. Alike(u, v) /\ Quiet(v) /\ Buffers(v) /\ (Over(u) <=> Over(v))
      BY <2>1, <2>2, <2>4 DEF Alike, Quiet, Buffers, Over
    <2>6. /\ v.endPoint /\ (v.retx = "FIN+ACK" \/ v.state \in Ending) => Over(v)
          /\ v.closeOnEmpty => u.closeOnEmpty \/ Over(v)
          /\ v.state = "FIN_WAIT_2" =>
                u.state = "FIN_WAIT_2" \/ (u.head = u.tail /\ u.highTx < p.nextRx)
      BY <2>2, <2>4, <2>5 DEF Sends
    <2>7. Keeps(u, v, p)
      BY <2>2, <2>3, <2>4, <2>5, <2>6, AlikeKeeps
    <2> QED
      BY <1>1, <1>7, <2>7, KeepsOn
  <1> QED
    BY <1>5, <1>7, <1>8

-----------------------------------------------------------------------------
(* Receiving *)

\* A FIN that is remembered at n: all the peer wrote comes before it, or was
\* stored.
LEMMA SetFinGood ==
    ASSUME NEW s, NEW p, Good(s, p), s.connected, NEW n \in Nat, Over(p),
           n <= s.nextRx \/ n <= p.highTx \/ ~ Finished(s),
           ~ p.behind => n >= p.written /\ (n = p.written => n \in s.taken)
    PROVE  Keeps(s, SetFinSequence(s, n), p)
  <1> DEFINE t == SetFinSequence(s, n)
             next == IF s.nextRx = n THEN n + 1 ELSE s.nextRx
  <1>1. s \in SocketType /\ p \in SocketType /\ Quiet(s) /\ Buffers(s) /\ Sends(s, p)
        /\ Takes(s, p) /\ \A i \in 1..Len(s.out) : Said(s, p, s.out[i])
    BY DEF Good
  <1>2. /\ s.nextRx \in Nat /\ s.highTx \in Nat /\ p.written \in Nat /\ p.highTx \in Nat
        /\ s.held \in SUBSET Nat /\ s.fin \in Nat \cup {None} /\ s.out \in Seq(Segments)
        /\ s.taken \in SUBSET Nat
    BY <1>1, Fields
  <1>3. t \in SocketType /\ t.fin = n /\ t.nextRx = next
    BY <1>1, SetFinFacts
  <1>4. /\ t.head = s.head /\ t.tail = s.tail /\ t.nextTx = s.nextTx /\ t.highTx = s.highTx
        /\ t.held = s.held /\ t.taken = s.taken
        /\ t.connected = s.connected /\ t.written = s.written /\ t.lost = s.lost
        /\ t.behind = s.behind /\ t.out = s.out /\ t.state = s.state
        /\ t.endPoint = s.endPoint /\ t.retx = s.retx /\ t.lastAck = s.lastAck
        /\ t.delAck = s.delAck /\ t.sendPending = s.sendPending /\ t.closed = s.closed
        /\ t.closeOnEmpty = s.closeOnEmpty /\ t.shutdownSend = s.shutdownSend
    BY <1>1 DEF SocketType, SetFinSequence
  <1> HIDE DEF t
  <1>5. Quiet(t) /\ Buffers(t) /\ (Over(s) <=> Over(t))
    BY <1>1, <1>4 DEF Quiet, Buffers, Over
  <1>6. Grows(s, t)
    BY <1>2, <1>3, <1>4, <1>5 DEF Grows
  <1>7. Sends(t, p)
    BY <1>1, <1>4, <1>5 DEF Sends, Counted, Beyond
  <1>8. Takes(t, p)
    <2>1. t.nextRx <= 1 \/ t.nextRx <= p.highTx \/ Finished(t)
      <3>1. n # None
        BY DEF None
      <3>2. CASE n <= s.nextRx
        BY <1>2, <1>3, <3>1, <3>2 DEF Finished
      <3>3. CASE n > s.nextRx
        <4>1. next = s.nextRx
          BY <1>2, <3>3
        <4>2. ~ Finished(s) => s.nextRx <= 1 \/ s.nextRx <= p.highTx
          BY <1>1 DEF Takes
        <4> QED
          BY <1>2, <1>3, <3>3, <4>1, <4>2
      <3> QED
        BY <1>2, <3>2, <3>3
    <2>2. t.held \subseteq t.taken /\ \A q \in t.taken : 1 <= q /\ q < p.highTx
      BY <1>1, <1>4 DEF Takes
    <2>3. ASSUME ~ p.behind
          PROVE  /\ \A q \in t.held : q > t.nextRx
                 /\ \A q \in t.taken : q <= p.written
                 /\ \A q \in 1..p.written : q < t.nextRx => q \in t.taken
                 /\ t.fin >= p.written /\ (t.fin = p.written => t.fin \in t.taken)
      <3>1. /\ \A q \in s.held : q > s.nextRx
            /\ \A q \in s.taken : q <= p.written
            /\ \A q \in 1..p.written : q < s.nextRx => q \in s.taken
            /\ s.held \subseteq s.taken
        BY <1>1, <2>3 DEF Takes
      <3>2. n >= p.written /\ (n = p.written => n \in s.taken)
        BY <2>3
      <3>3. \A q \in t.held : q > t.nextRx
        <4> SUFFICES ASSUME NEW q \in s.held PROVE q > next
          BY <1>3, <1>4
        <4>1. q \in Nat /\ q > s.nextRx /\ q <= p.written
          BY <1>2, <3>1
        <4> QED
          BY <1>2, <3>2, <4>1
      <3>4. \A q \in 1..p.written : q < t.nextRx => q \in t.taken
        <4> SUFFICES ASSUME NEW q \in 1..p.written, q < next PROVE q \in s.taken
          BY <1>3, <1>4
        <4>1. CASE q < s.nextRx
          BY <3>1, <4>1
        <4>2. CASE ~ q < s.nextRx
          <5>1. q = n
            BY <1>2, <4>2
          <5> QED
            BY <1>2, <3>2, <5>1
        <4> QED
          BY <4>1, <4>2
      <3> QED
        BY <1>3, <1>4, <3>1, <3>2, <3>3, <3>4
    <2> HIDE DEF next
    <2> QED
      BY <1>4, <1>1, <2>1, <2>2, <2>3 DEF Takes, Beyond
  <1>9. \A i \in 1..Len(t.out) : Said(t, p, t.out[i])
    BY <1>1, <1>2, <1>3, <1>4, <1>6, SaidGrows
  <1> QED
    BY <1>1, <1>3, <1>5, <1>6, <1>7, <1>8, <1>9 DEF Keeps, Good, t

\* A segment that is stored: everything before the next number expected was, and
\* nothing behind it is missing from what is held.
LEMMA AddGood ==
    ASSUME NEW s, NEW p, Good(s, p), s.connected, NEW m \in Segments, m.len = 1,
           Said(p, s, m), CanAdd(s, m)
    PROVE  Keeps(s, Add(s, m), p) /\ m.seq \in Add(s, m).taken
  <1> DEFINE held == s.held \cup {m.seq}
             next == FirstGap(s.nextRx, held)
             taken == s.taken \cup {m.seq}
             later == {q \in held : q > next}
             nextRx == IF next = s.fin THEN next + 1 ELSE next
             t == Add(s, m)
  <1>1. s \in SocketType /\ p \in SocketType /\ Quiet(s) /\ Buffers(s) /\ Sends(s, p)
        /\ Takes(s, p) /\ \A i \in 1..Len(s.out) : Said(s, p, s.out[i])
    BY DEF Good
  <1>2. /\ s.nextRx \in Nat /\ s.highTx \in Nat /\ p.written \in Nat /\ p.highTx \in Nat
        /\ s.held \in SUBSET Nat /\ s.fin \in Nat \cup {None} /\ s.out \in Seq(Segments)
        /\ s.taken \in SUBSET Nat /\ m.seq \in Nat
    BY <1>1, Fields DEF Segments
  <1>3. held \in SUBSET Nat /\ IsFiniteSet(held)
    <2>1. IsFiniteSet(s.held)
      BY <1>1 DEF Buffers
    <2> QED
      BY <1>2, <2>1, FS_AddElement
  <1>4. /\ next \in Nat /\ next >= s.nextRx
        /\ \A q \in s.nextRx .. next - 1 : q \in held
    <2> HIDE DEF held
    <2> QED
      BY <1>2, <1>3, FirstGapFacts
  <1>5. t = [s EXCEPT !.taken = taken, !.held = later, !.nextRx = nextRx]
    BY DEF Add
  <1>6. t \in SocketType /\ IsFiniteSet(t.held)
    BY <1>1, AddFacts
  <1> HIDE DEF t
  <1>7. /\ t.taken = taken /\ t.held = later /\ t.nextRx = nextRx
        /\ t.head = s.head /\ t.tail = s.tail /\ t.nextTx = s.nextTx /\ t.highTx = s.highTx
        /\ t.connected = s.connected /\ t.written = s.written /\ t.lost = s.lost
        /\ t.behind = s.behind /\ t.out = s.out /\ t.state = s.state /\ t.fin = s.fin
        /\ t.endPoint = s.endPoint /\ t.retx = s.retx /\ t.lastAck = s.lastAck
        /\ t.delAck = s.delAck /\ t.sendPending = s.sendPending /\ t.closed = s.closed
        /\ t.closeOnEmpty = s.closeOnEmpty /\ t.shutdownSend = s.shutdownSend
    <2> HIDE DEF taken, later, nextRx
    <2> QED
      BY <1>1, <1>5 DEF SocketType
  <1> HIDE DEF next
  <1>8. Quiet(t) /\ Buffers(t) /\ (Over(s) <=> Over(t))
    BY <1>1, <1>6, <1>7 DEF Quiet, Buffers, Over
  <1>9. nextRx \in Nat /\ nextRx >= s.nextRx
    BY <1>2, <1>4
  <1>10. Grows(s, t)
    BY <1>2, <1>7, <1>8, <1>9 DEF Grows
  <1>11. Sends(t, p)
    BY <1>1, <1>7, <1>8 DEF Sends, Counted, Beyond
  <1>12. /\ s.held \subseteq s.taken /\ \A q \in s.taken : 1 <= q /\ q < p.highTx
         /\ 1 <= m.seq /\ m.seq < p.highTx /\ (~ p.behind => m.seq <= p.written)
    BY <1>1 DEF Takes, Said
  <1>13. \A q \in taken : 1 <= q /\ q < p.highTx
    BY <1>12
  <1>14. held \subseteq taken
    BY <1>12
  <1>15. next = s.nextRx \/ (next - 1 \in held /\ next > s.nextRx)
    BY <1>2, <1>4
  <1> HIDE DEF held, taken
  <1>16. t.nextRx <= 1 \/ t.nextRx <= p.highTx \/ Finished(t)
    <2>1. CASE next = s.fin
      <3>1. nextRx = next + 1 /\ s.fin # None
        BY <1>4, <2>1 DEF None
      <3> QED
        BY <1>4, <1>7, <2>1, <3>1 DEF Finished
    <2>2. CASE next # s.fin /\ next = s.nextRx
      BY <1>1, <1>7, <2>2 DEF Takes, Finished
    <2>3. CASE next # s.fin /\ next - 1 \in held /\ next > s.nextRx
      BY <1>2, <1>4, <1>7, <1>13, <1>14, <2>3
    <2> QED
      BY <1>15, <2>1, <2>2, <2>3
  <1>17. ASSUME ~ p.behind
         PROVE  /\ \A q \in t.held : q > t.nextRx
                /\ \A q \in t.taken : q <= p.written
                /\ \A q \in 1..p.written : q < t.nextRx => q \in t.taken
                /\ t.fin # None =>
                      Over(p) /\ t.fin >= p.written /\ (t.fin = p.written => t.fin \in t.taken)
                /\ Beyond(t, p)
    <2>1. /\ \A q \in s.taken : q <= p.written
          /\ \A q \in 1..p.written : q < s.nextRx => q \in s.taken
          /\ s.fin # None =>
                Over(p) /\ s.fin >= p.written /\ (s.fin = p.written => s.fin \in s.taken)
      BY <1>1, <1>17 DEF Takes
    <2>2. \A q \in taken : q \in Nat /\ q <= p.written
      BY <1>2, <1>12, <1>17, <2>1 DEF taken
    <2>3. s.taken \subseteq taken
      BY DEF taken
    <2>4. next = s.fin => s.fin # None
      BY <1>4 DEF None
    <2>5. \A q \in t.held : q > t.nextRx
      <3> SUFFICES ASSUME NEW q \in held, q > next PROVE q > nextRx
        BY <1>7
      <3>1. q \in Nat /\ q <= p.written
        BY <1>14, <2>2
      <3> QED
        BY <1>2, <1>4, <2>1, <2>4, <3>1
    <2>6. \A q \in 1..p.written : q < t.nextRx => q \in t.taken
      <3> SUFFICES ASSUME NEW q \in 1..p.written, q < nextRx PROVE q \in taken
        BY <1>7
      <3>1. CASE q < s.nextRx
        BY <2>1, <2>3, <3>1
      <3>2. CASE ~ q < s.nextRx /\ q < next
        <4>1. q \in s.nextRx .. next - 1
          BY <1>2, <1>4, <3>2
        <4> QED
          BY <1>4, <1>14, <4>1
      <3>3. CASE ~ q < next
        <4>1. q = next /\ next = s.fin
          BY <1>2, <1>4, <3>3
        <4>2. s.fin = p.written
          BY <1>2, <2>1, <2>4, <4>1
        <4> QED
          BY <2>1, <2>3, <2>4, <4>1, <4>2
      <3> QED
        BY <1>2, <1>4, <3>1, <3>2, <3>3
    <2>7. Beyond(t, p)
      <3> SUFFICES ASSUME nextRx > p.written + 1 PROVE Over(p)
        BY <1>7 DEF Beyond
      <3>1. CASE next = s.fin
        BY <2>1, <2>4, <3>1
      <3>2. CASE next # s.fin /\ next = s.nextRx
        BY <1>1, <1>17, <3>2 DEF Takes, Beyond
      <3>3. CASE next # s.fin /\ next - 1 \in held /\ next > s.nextRx
        BY <1>2, <1>4, <1>14, <2>2, <3>3
      <3> QED
        BY <1>15, <3>1, <3>2, <3>3
    <2> QED
      BY <1>7, <2>1, <2>2, <2>3, <2>5, <2>6, <2>7
  <1>18. t.held \subseteq t.taken
    BY <1>7, <1>14
  <1>19. Takes(t, p)
    <2>1. ~ p.behind => Beyond(t, p)
      BY <1>17
    <2>2. Beyond(t, p)
      BY <2>1 DEF Beyond
    <2> QED
      BY <1>7, <1>13, <1>16, <1>17, <1>18, <2>2 DEF Takes
  <1>20. \A i \in 1..Len(t.out) : Said(t, p, t.out[i])
    BY <1>1, <1>2, <1>6, <1>7, <1>10, SaidGrows
  <1>21. m.seq \in t.taken
    BY <1>7 DEF taken
  <1> QED
    BY <1>1, <1>6, <1>8, <1>10, <1>11, <1>19, <1>20, <1>21 DEF Keeps, Good, t

LEMMA ReceivedDataGood ==
    ASSUME NEW s, NEW p, Good(s, p), s.connected, s.endPoint, NEW m \in Segments, m.len = 1,
           Said(p, s, m)
    PROVE  LET t == ReceivedData(s, m)
           IN  /\ Keeps(s, t, p)
               /\ ~ p.behind => m.seq \in t.taken
               /\ m.flags = "FIN+ACK" => t.endPoint
  <1> DEFINE u == Add(s, m)
             gap == u.held # {} \/ u.nextRx > s.nextRx + m.len
             count == s.delAckCount + 1
             v == [u EXCEPT !.delAckCount = count, !.delAck = TRUE]
             t == ReceivedData(s, m)
  <1>1. s \in SocketType /\ p \in SocketType /\ Quiet(s) /\ Buffers(s) /\ Takes(s, p)
        /\ "ACK" \in Flags
    BY DEF Good, Flags
  <1>2. CASE ~ CanAdd(s, m)
    <2>1. t = SendEmptyPacket(s, "ACK")
      BY <1>2 DEF ReceivedData
    <2> HIDE DEF t
    <2>2. Keeps(s, t, p)
      BY <1>1, <2>1, SendEmptyGood
    <2>3. t.endPoint
      BY <1>1, <2>1, SendEmptyPacketFacts
    <2>4. ASSUME ~ p.behind PROVE m.seq \in s.taken
      <3>1. /\ s.held \subseteq s.taken /\ 1 <= m.seq /\ m.seq <= p.written
            /\ \A q \in 1..p.written : q < s.nextRx => q \in s.taken
        BY <1>1, <2>4 DEF Takes, Said
      <3>2. m.seq \in s.held \/ m.seq < s.nextRx
        BY <1>1, <1>2, Fields DEF CanAdd, Segments
      <3>3. m.seq \in Nat /\ p.written \in Nat
        BY <1>1, Fields DEF Segments
      <3> QED
        BY <3>1, <3>2, <3>3
    <2> QED
      BY <2>2, <2>3, <2>4 DEF Keeps, Grows, t
  <1> DEFINE Closing == u.nextRx > s.nextRx /\ Finished(u) /\ m.flags # "FIN+ACK"
  <1>3. ASSUME CanAdd(s, m)
        PROVE  /\ Keeps(s, u, p) /\ m.seq \in u.taken /\ Good(u, p)
               /\ u \in SocketType /\ Quiet(u) /\ Buffers(u) /\ Sends(u, p)
               /\ u.connected /\ u.endPoint
    <2>1. Keeps(s, u, p) /\ m.seq \in u.taken
      BY <1>3, AddGood
    <2>2. u.endPoint /\ u.connected
      BY <1>1, AddFacts DEF Kept
    <2> HIDE DEF u
    <2> QED
      BY <2>1, <2>2 DEF Keeps, Good
  <1>4. CASE CanAdd(s, m) /\ Closing
    <2>1. t = DoPeerClose(u)
      BY <1>4 DEF ReceivedData
    <2> HIDE DEF t, u
    <2>2. Keeps(u, t, p)
      BY <1>3, <1>4, <2>1, DoPeerCloseGood
    <2>3. Keeps(s, t, p)
      BY <1>1, <1>3, <1>4, <2>2, KeepsOn
    <2> QED
      BY <1>3, <1>4, <2>2, <2>3 DEF Keeps, Grows, t
  <1>5. CASE CanAdd(s, m) /\ ~ Closing /\ (gap \/ count >= DelAckMaxCount)
    <2>1. t = SendEmptyPacket(u, "ACK")
      BY <1>5 DEF ReceivedData
    <2> HIDE DEF t, u
    <2>2. Keeps(u, t, p)
      BY <1>1, <1>3, <1>5, <2>1, SendEmptyGood
    <2>3. Keeps(s, t, p)
      BY <1>1, <1>3, <1>5, <2>2, KeepsOn
    <2>4. t.endPoint
      BY <1>1, <1>3, <1>5, <2>1, SendEmptyPacketFacts
    <2> QED
      BY <1>3, <1>5, <2>2, <2>3, <2>4 DEF Keeps, Grows, t
  <1>6. CASE CanAdd(s, m) /\ ~ Closing /\ ~ (gap \/ count >= DelAckMaxCount)
    <2>1. t = v
      BY <1>6 DEF ReceivedData
    <2>2. count \in 0..DelAckMaxCount
      <3>1. s.delAckCount \in 0..DelAckMaxCount /\ DelAckMaxCount \in Nat
        BY <1>1, Fields, TcpAssumption
      <3> QED
        BY <1>6, <3>1
    <2> HIDE DEF t, count, u
    <2>3. v \in SocketType
      BY <1>3, <1>6, <2>2, Update
    <2>4. /\ v.head = u.head /\ v.tail = u.tail /\ v.nextTx = u.nextTx /\ v.highTx = u.highTx
          /\ v.nextRx = u.nextRx /\ v.held = u.held /\ v.fin = u.fin /\ v.taken = u.taken
          /\ v.connected = u.connected /\ v.written = u.written /\ v.lost = u.lost
          /\ v.behind = u.behind /\ v.out = u.out /\ v.state = u.state
          /\ v.endPoint = u.endPoint /\ v.retx = u.retx /\ v.closed = u.closed
          /\ v.closeOnEmpty = u.closeOnEmpty /\ v.shutdownSend = u.shutdownSend
      BY <1>3, <1>6 DEF SocketType
    <2> HIDE DEF v
    <2>5. Alike(u, v) /\ Quiet(v) /\ Buffers(v) /\ (Over(u) <=> Over(v))
      BY <1>3, <1>6, <2>4 DEF Alike, Quiet, Buffers, Over
    <2>6. /\ v.endPoint /\ (v.retx = "FIN+ACK" \/ v.state \in Ending) => Over(v)
          /\ v.closeOnEmpty => u.closeOnEmpty \/ Over(v)
          /\ v.state = "FIN_WAIT_2" =>
                u.state = "FIN_WAIT_2" \/ (u.head = u.tail /\ u.highTx < p.nextRx)
      BY <1>3, <1>6, <2>4, <2>5 DEF Sends
    <2>7. Keeps(u, v, p)
      BY <1>3, <1>6, <2>3, <2>4, <2>5, <2>6, AlikeKeeps
    <2>8. Keeps(s, v, p)
      BY <1>1, <1>3, <1>6, <2>7, KeepsOn
    <2> QED
      BY <1>3, <1>6, <2>1, <2>4, <2>8 DEF t
  <1> QED
    BY <1>2, <1>4, <1>5, <1>6

\* DiscardUpTo and ProcessAck.
Acked(s, t, ack) ==
    /\ t \in SocketType /\ Buffers(t) /\ t.endPoint
    /\ t.head = ack
    /\ t.tail = IF ack > s.head THEN Bigger(s.tail, ack) ELSE s.tail
    /\ t.nextTx \in {s.nextTx, ack}
    /\ t.highTx = s.highTx /\ t.state = s.state /\ t.retx \in {s.retx, "off", "rto"}
    /\ t.nextRx = s.nextRx /\ t.held = s.held /\ t.fin = s.fin /\ t.taken = s.taken
    /\ t.connected = s.connected /\ t.written = s.written /\ t.behind = s.behind
    /\ t.closed = s.closed /\ t.closeOnEmpty = s.closeOnEmpty
    /\ t.shutdownSend = s.shutdownSend /\ t.out = s.out

LEMMA ProcessAckFacts ==
    ASSUME NEW s \in SocketType, Buffers(s), s.endPoint, NEW ack \in Nat, ack >= s.head
    PROVE  Acked(s, ProcessAck(DiscardUpTo(s, ack), ack, s.head), ack)
  <1> DEFINE t == ProcessAck(DiscardUpTo(s, ack), ack, s.head)
  <1>1. s.head \in Nat /\ s.tail \in Nat /\ s.nextTx \in Nat /\ s.highTx \in Nat
        /\ s.lost \in SUBSET Nat /\ s.recover \in Nat /\ s.retx \in Retx
    BY Fields
  <1>2. CASE ack > s.head
    <2> DEFINE tail == Bigger(s.tail, ack)
               lost == {q \in s.lost : q >= ack}
               recover == IF ack >= s.recover THEN 0 ELSE s.recover
               nextTx == Bigger(s.nextTx, ack)
               u == DiscardUpTo(s, ack)
               v == [u EXCEPT !.recover = IF ack >= @ THEN 0 ELSE @]
               w == [v EXCEPT !.dataRetrCount = DataRetries, !.nextTx = Bigger(@, ack)]
    <2>1. u = [s EXCEPT !.head = ack, !.tail = tail, !.lost = lost]
      BY <1>1, <1>2 DEF DiscardUpTo
    <2>2. t = NewAck(v, ack)
      BY <1>2 DEF ProcessAck
    <2> HIDE DEF tail, lost, u
    <2>3. v = [s EXCEPT !.head = ack, !.tail = tail, !.lost = lost, !.recover = recover]
      <3>1. u.recover = s.recover
        BY <2>1 DEF SocketType
      <3> QED
        BY <2>1, <3>1
    <2> HIDE DEF v, recover
    <2>4. w = [s EXCEPT !.head = ack, !.tail = tail, !.lost = lost, !.recover = recover,
                        !.dataRetrCount = DataRetries, !.nextTx = nextTx]
      <3>1. v.nextTx = s.nextTx
        BY <2>3 DEF SocketType
      <3> QED
        BY <2>3, <3>1
    <2> DEFINE retx == IF TxSize(w) = 0 /\ w.state \notin {"FIN_WAIT_1", "CLOSING"} THEN "off"
                       ELSE IF w.state = "SYN_RCVD" THEN s.retx ELSE "rto"
    <2>5. t = [w EXCEPT !.retx = retx]
      <3>1. t = IF TxSize(w) = 0 /\ w.state \notin {"FIN_WAIT_1", "CLOSING"}
                THEN [w EXCEPT !.retx = "off"]
                ELSE [w EXCEPT !.retx = IF w.state = "SYN_RCVD" THEN @ ELSE "rto"]
        BY <2>2 DEF NewAck
      <3> HIDE DEF w
      <3>2. w.retx = s.retx
        BY <2>4 DEF SocketType
      <3> QED
        BY <3>1, <3>2
    <2>6. retx \in {s.retx, "off", "rto"}
      OBVIOUS
    <2> HIDE DEF t, w, nextTx, retx
    <2>7. /\ tail \in Nat /\ tail >= s.tail /\ tail >= ack /\ lost \in SUBSET Nat
          /\ nextTx \in Nat /\ nextTx >= ack /\ recover \in Nat /\ nextTx \in {s.nextTx, ack}
      BY <1>1 DEF tail, lost, nextTx, recover, Bigger
    <2>8. retx \in Retx
      BY <1>1, <2>6 DEF Retx
    <2>9. DataRetries \in 0..DataRetries
      BY TcpAssumption
    <2>10. t = [s EXCEPT !.head = ack, !.tail = tail, !.lost = lost, !.recover = recover,
                         !.dataRetrCount = DataRetries, !.nextTx = nextTx, !.retx = retx]
      BY <2>4, <2>5
    <2>11. t \in SocketType
      BY <2>7, <2>8, <2>9, <2>10, Update
    <2>12. /\ t.head = ack /\ t.tail = tail /\ t.lost = lost /\ t.nextTx = nextTx
           /\ t.retx = retx /\ t.state = s.state /\ t.endPoint = s.endPoint
           /\ t.highTx = s.highTx /\ t.nextRx = s.nextRx /\ t.held = s.held
           /\ t.fin = s.fin /\ t.taken = s.taken
           /\ t.connected = s.connected /\ t.written = s.written /\ t.behind = s.behind
           /\ t.closed = s.closed /\ t.closeOnEmpty = s.closeOnEmpty
           /\ t.shutdownSend = s.shutdownSend /\ t.out = s.out
      BY <2>10 DEF SocketType
    <2>13. Buffers(t)
      <3>1. s.lost \subseteq s.head .. s.highTx - 1 /\ s.highTx <= s.tail /\ IsFiniteSet(s.held)
        BY DEF Buffers
      <3>2. lost \subseteq ack .. s.highTx - 1
        BY <1>1, <3>1 DEF lost
      <3>3. s.highTx <= tail
        BY <1>1, <2>7, <3>1
      <3> QED
        BY <2>7, <2>12, <3>1, <3>2, <3>3 DEF Buffers
    <2> QED
      BY <1>2, <2>6, <2>7, <2>11, <2>12, <2>13 DEF Acked, t, tail
  <1>3. CASE ~ ack > s.head
    <2>1. ack = s.head /\ DiscardUpTo(s, ack) = s
      BY <1>1, <1>3 DEF DiscardUpTo
    <2>2. t = s \/ t = [s EXCEPT !.nextTx = ack]
      BY <1>3, <2>1 DEF ProcessAck
    <2> HIDE DEF t
    <2>3. t \in SocketType
      <3>1. \A z \in SocketType, v \in Nat : [z EXCEPT !.nextTx = v] \in SocketType
        BY Update
      <3>2. s \in SocketType /\ ack \in Nat
        BY <1>1
      <3> QED
        BY <2>2, <3>1, <3>2
    <2>4. /\ t.nextTx \in {s.nextTx, ack} /\ t.head = s.head /\ t.tail = s.tail
          /\ t.lost = s.lost /\ t.retx = s.retx /\ t.state = s.state /\ t.endPoint = s.endPoint
          /\ t.highTx = s.highTx /\ t.nextRx = s.nextRx /\ t.held = s.held
          /\ t.fin = s.fin /\ t.taken = s.taken
          /\ t.connected = s.connected /\ t.written = s.written /\ t.behind = s.behind
          /\ t.closed = s.closed /\ t.closeOnEmpty = s.closeOnEmpty
          /\ t.shutdownSend = s.shutdownSend /\ t.out = s.out
      BY <2>2 DEF SocketType
    <2>5. Buffers(t)
      BY <1>1, <2>1, <2>4 DEF Buffers
    <2> QED
      BY <1>3, <2>1, <2>3, <2>4, <2>5 DEF Acked, t
  <1> QED
    BY <1>2, <1>3

\* What is acknowledged was received, so that it may be discarded.
LEMMA ProcessAckGood ==
    ASSUME NEW s, NEW p, Good(s, p), s.connected, s.endPoint,
           NEW ack \in Nat, ack >= s.head, ack <= p.nextRx
    PROVE  LET t == ProcessAck(DiscardUpTo(s, ack), ack, s.head)
           IN  Keeps(s, t, p) /\ t.endPoint
  <1> DEFINE t == ProcessAck(DiscardUpTo(s, ack), ack, s.head)
  <1>1. s \in SocketType /\ p \in SocketType /\ Quiet(s) /\ Buffers(s) /\ Sends(s, p)
        /\ Takes(s, p) /\ \A i \in 1..Len(s.out) : Said(s, p, s.out[i])
    BY DEF Good
  <1>2. /\ s.nextRx \in Nat /\ s.highTx \in Nat /\ s.head \in Nat /\ s.tail \in Nat
        /\ s.nextTx \in Nat /\ s.written \in Nat /\ p.nextRx \in Nat /\ s.out \in Seq(Segments)
        /\ s.head <= s.tail
    BY <1>1, Fields DEF Buffers
  <1>3. Acked(s, t, ack)
    BY <1>1, ProcessAckFacts
  <1> HIDE DEF t
  <1>4. t \in SocketType /\ Buffers(t) /\ Quiet(t) /\ (Over(s) <=> Over(t)) /\ Grows(s, t)
    BY <1>2, <1>3 DEF Acked, Quiet, Over, Grows
  <1>5. Counted(t)
    <2> SUFFICES ASSUME ~ s.behind
                 PROVE  /\ t.tail >= s.written + 1
                        /\ t.tail # s.written + 1 => t.head = t.tail /\ Over(t)
      BY <1>3 DEF Counted, Acked
    <2>1. /\ s.tail >= s.written + 1
          /\ s.tail # s.written + 1 => s.head = s.tail /\ Over(s)
      BY <1>1 DEF Sends, Counted
    <2>2. p.nextRx > s.written + 1 => Over(s)
      BY <1>1 DEF Sends, Beyond
    <2>3. /\ t.head = ack
          /\ t.tail = IF ack > s.head THEN Bigger(s.tail, ack) ELSE s.tail
      BY <1>3 DEF Acked
    <2>4. CASE ack > s.tail
      <3>1. t.tail = ack
        BY <1>2, <2>3, <2>4 DEF Bigger
      <3> QED
        BY <1>2, <1>4, <2>1, <2>2, <2>3, <2>4, <3>1
    <2>5. CASE ~ ack > s.tail
      <3>1. t.tail = s.tail
        BY <1>2, <2>3, <2>5 DEF Bigger
      <3> QED
        BY <1>2, <1>4, <2>1, <2>3, <2>5, <3>1
    <2> QED
      BY <2>4, <2>5
  <1>6. Sends(t, p)
    <2>1. s.head >= 1 /\ (s.state = "FIN_WAIT_2" => s.head = s.tail /\ s.highTx < p.nextRx)
          /\ (s.nextTx <= s.highTx \/ s.nextTx <= p.nextRx) /\ (s.closeOnEmpty => Over(s))
          /\ (s.endPoint /\ (s.retx = "FIN+ACK" \/ s.state \in Ending) => Over(s))
          /\ Beyond(p, s)
      BY <1>1 DEF Sends
    <2>2. ack >= 1
      BY <1>2, <2>1
    <2>3. t.head = ack /\ t.highTx = s.highTx /\ t.state = s.state
          /\ t.closeOnEmpty = s.closeOnEmpty /\ t.nextTx \in {s.nextTx, ack}
          /\ t.retx \in {s.retx, "off", "rto"} /\ t.written = s.written /\ t.behind = s.behind
      BY <1>3 DEF Acked
    <2>4. t.state = "FIN_WAIT_2" => t.head = t.tail /\ t.highTx < p.nextRx
      <3> SUFFICES ASSUME s.state = "FIN_WAIT_2" PROVE t.tail = ack
        BY <2>1, <2>3
      <3>1. t.tail = IF ack > s.head THEN Bigger(s.tail, ack) ELSE s.tail
        BY <1>3 DEF Acked
      <3> QED
        BY <1>2, <2>1, <3>1 DEF Bigger
    <2>5. t.nextTx <= t.highTx \/ t.nextTx <= p.nextRx
      BY <2>1, <2>3
    <2>6. t.endPoint /\ (t.retx = "FIN+ACK" \/ t.state \in Ending) => Over(t)
      BY <1>4, <2>1, <2>3
    <2>7. Beyond(p, t)
      BY <1>4, <2>1, <2>3 DEF Beyond
    <2> QED
      BY <1>4, <1>5, <2>1, <2>2, <2>3, <2>4, <2>5, <2>6, <2>7 DEF Sends
  <1>7. Takes(t, p)
    BY <1>1, <1>3 DEF Takes, Acked, Beyond, Finished
  <1>8. \A i \in 1..Len(t.out) : Said(t, p, t.out[i])
    <2>1. t.out = s.out
      BY <1>3 DEF Acked
    <2> QED
      BY <1>1, <1>2, <1>4, <2>1, SaidGrows
  <1>9. t.endPoint
    BY <1>3 DEF Acked
  <1> QED
    BY <1>1, <1>4, <1>6, <1>7, <1>8, <1>9 DEF Keeps, Good, t

\* What is sent was written, and the FIN goes with the last of it.
LEMMA SendPendingGood ==
    ASSUME NEW s, NEW p, Good(s, p), s.connected, NEW cwnd \in Nat
    PROVE  Keeps(s, SendPendingData(s, cwnd), p)
  <1> DEFINE t == SendPendingData(s, cwnd)
  <1>1. s \in SocketType /\ p \in SocketType /\ Quiet(s) /\ Buffers(s) /\ Sends(s, p)
        /\ Takes(s, p) /\ \A i \in 1..Len(s.out) : Said(s, p, s.out[i])
    BY DEF Good
  <1>2. /\ s.nextRx \in Nat /\ s.highTx \in Nat /\ s.head \in Nat /\ s.tail \in Nat
        /\ s.nextTx \in Nat /\ s.written \in Nat /\ s.out \in Seq(Segments)
    BY <1>1, Fields
  <1>3. CASE ~ MaySend(s, cwnd)
    <2>1. t = s
      BY <1>3, SendPendingIdle
    <2> QED
      BY <2>1, KeepsNothing
  <1>4. CASE MaySend(s, cwnd)
    <2>1. Sent(s, t)
      BY <1>1, <1>4, SendPendingFacts
    <2> HIDE DEF t
    <2>2. t \in SocketType /\ Quiet(t) /\ (Over(s) <=> Over(t)) /\ Grows(s, t)
      BY <1>2, <2>1 DEF Sent, Quiet, Over, Grows
    <2>3. t.highTx \in Nat /\ t.nextTx \in Nat
      BY <2>2, Fields
    <2>4. Buffers(t)
      <3>1. /\ s.lost \subseteq s.head .. s.highTx - 1 /\ IsFiniteSet(s.held)
            /\ s.head <= s.tail
        BY <1>1 DEF Buffers
      <3>2. /\ t.lost \subseteq s.lost /\ t.head = s.head /\ t.tail = s.tail /\ t.held = s.held
            /\ t.highTx >= s.highTx /\ t.highTx <= s.tail /\ s.head < t.nextTx
        BY <2>1 DEF Sent
      <3>3. t.lost \subseteq t.head .. t.highTx - 1
        <4>1. ASSUME NEW n \in t.lost PROVE n \in t.head .. t.highTx - 1
          <5>1. n \in s.head .. s.highTx - 1
            BY <3>1, <3>2, <4>1
          <5>2. t.head = s.head /\ t.highTx >= s.highTx
            BY <3>2
          <5> QED
            BY <1>2, <2>3, <5>1, <5>2
        <4> QED
          BY <4>1
      <3>4. t.head <= t.nextTx
        BY <1>2, <2>3, <3>2
      <3> QED
        BY <3>1, <3>2, <3>3, <3>4 DEF Buffers
    <2>5. s.head < s.tail /\ t.head = s.head /\ t.tail = s.tail /\ t.written = s.written
          /\ t.behind = s.behind /\ t.connected = s.connected
          /\ t.closeOnEmpty = s.closeOnEmpty /\ t.nextTx <= t.highTx
          /\ Ends(s.state, t.state) /\ (t.state # s.state => s.closeOnEmpty)
          /\ (t.retx = "FIN+ACK" => s.retx = "FIN+ACK") /\ s.endPoint
      BY <2>1 DEF Sent
    <2>6. Sends(t, p)
      <3>1. t.state = "FIN_WAIT_2" => s.state = "FIN_WAIT_2"
        BY <2>5 DEF Ends
      <3>2. s.state # "FIN_WAIT_2"
        BY <1>1, <1>2, <2>5 DEF Sends
      <3>3. Counted(t) /\ Beyond(p, t)
        BY <1>1, <2>2, <2>5 DEF Sends, Counted, Beyond
      <3>4. t.retx = "FIN+ACK" \/ t.state \in Ending => Over(t)
        BY <1>1, <2>2, <2>5 DEF Sends
      <3> QED
        BY <1>1, <2>2, <2>5, <3>1, <3>2, <3>3, <3>4 DEF Sends
    <2>7. Takes(t, p)
      BY <1>1, <2>1 DEF Takes, Sent, Beyond, Finished
    <2>8. ASSUME NEW m, Piece(s, t.highTx, m)
          PROVE  Said(t, p, m)
      <3>1. /\ m \in Segments /\ m.len = 1 /\ m.ack = s.nextRx
            /\ s.head <= m.seq /\ m.seq < s.tail /\ m.seq < t.highTx
            /\ m.flags = "ACK" \/ (m.flags = "FIN+ACK" /\ s.closeOnEmpty /\ m.seq + 1 = s.tail)
        BY <2>8 DEF Piece
      <3>2. m.seq \in Nat
        BY <3>1 DEF Segments
      <3>3. s.head >= 1
        BY <1>1 DEF Sends
      <3>4. ~ s.behind => s.tail = s.written + 1
        <4>1. ~ s.behind => (s.tail # s.written + 1 => s.head = s.tail)
          BY <1>1 DEF Sends, Counted
        <4> QED
          BY <1>2, <2>5, <4>1
      <3>5. s.closeOnEmpty => Over(t)
        BY <1>1, <2>2 DEF Sends
      <3>6. t.nextRx = s.nextRx
        BY <2>1 DEF Sent
      <3>7. 1 <= m.seq /\ m.seq < t.highTx /\ (~ t.behind => m.seq <= t.written)
        BY <1>2, <2>5, <3>1, <3>2, <3>3, <3>4
      <3>8. m.flags = "FIN+ACK" =>
               /\ Over(t) /\ m.seq <= t.highTx
               /\ ~ t.behind => m.seq + m.len > t.written
        BY <1>2, <2>3, <2>5, <3>1, <3>2, <3>4, <3>5
      <3>9. m.ack <= t.nextRx /\ m.flags \notin {"SYN", "SYN+ACK"}
        BY <1>2, <3>1, <3>6
      <3> QED
        BY <3>7, <3>8, <3>9 DEF Said
    <2>9. \A i \in 1..Len(t.out) : Said(t, p, t.out[i])
      <3> SUFFICES ASSUME NEW i \in 1..Len(t.out) PROVE Said(t, p, t.out[i])
        OBVIOUS
      <3>1. (i <= Len(s.out) /\ t.out[i] = s.out[i]) \/ Piece(s, t.highTx, t.out[i])
        BY <2>1 DEF Sent
      <3>2. CASE i <= Len(s.out) /\ t.out[i] = s.out[i]
        <4>1. i \in 1..Len(s.out) /\ s.out[i] \in Segments
          BY <1>2, <3>2
        <4> QED
          BY <1>1, <2>2, <3>2, <4>1, SaidGrows
      <3> QED
        BY <2>8, <3>1, <3>2
    <2> QED
      BY <1>1, <2>2, <2>4, <2>6, <2>7, <2>9 DEF Keeps, Good, t
  <1> QED
    BY <1>3, <1>4

LEMMA ReceivedAckGood ==
    ASSUME NEW s, NEW p, Good(s, p), s.connected, s.endPoint, NEW m \in Segments,
           Said(p, s, m), NEW cwnd \in Nat
    PROVE  LET t == ReceivedAck(s, m, cwnd)
           IN  Keeps(s, t, p) /\ (m.len = 1 /\ ~ p.behind => m.seq \in t.taken)
  <1> DEFINE Piggybacked(u) == IF m.len > 0 THEN ReceivedData(u, m) ELSE u
             acked == ProcessAck(DiscardUpTo(s, m.ack), m.ack, s.head)
             t == ReceivedAck(s, m, cwnd)
  <1>1. s \in SocketType /\ p \in SocketType /\ m.ack \in Nat /\ s.head \in Nat
        /\ m.len \in {0, 1} /\ m.ack <= p.nextRx
    BY Fields DEF Good, Segments, Said
  <1>2. ASSUME NEW u, Keeps(s, u, p), u.endPoint
        PROVE  LET v == Piggybacked(u)
               IN  /\ Keeps(s, v, p) /\ Good(v, p) /\ v.connected
                   /\ m.len = 1 /\ ~ p.behind => m.seq \in v.taken
    <2>1. Good(u, p) /\ u \in SocketType /\ Grows(s, u) /\ u.connected
      BY <1>2 DEF Keeps, Good, Grows
    <2>2. CASE m.len = 1
      <3> DEFINE v == ReceivedData(u, m)
      <3>1. Piggybacked(u) = v
        BY <2>2
      <3>2. Said(p, u, m)
        BY <1>1, <2>1, HeardGrows
      <3>3. Keeps(u, v, p) /\ (~ p.behind => m.seq \in v.taken)
        BY <1>2, <2>1, <2>2, <3>2, ReceivedDataGood
      <3> HIDE DEF v
      <3>4. Keeps(s, v, p)
        BY <1>1, <1>2, <3>3, KeepsOn
      <3>5. Good(v, p) /\ v.connected
        BY <3>4 DEF Keeps, Grows
      <3> HIDE DEF Piggybacked
      <3> QED
        BY <3>1, <3>3, <3>4, <3>5
    <2>3. CASE m.len = 0
      BY <1>2, <2>1, <2>3
    <2> QED
      BY <1>1, <2>2, <2>3
  <1>3. CASE m.ack < s.head
    <2>1. t = Piggybacked(s)
      BY <1>3 DEF ReceivedAck
    <2> HIDE DEF Piggybacked
    <2> QED
      BY <1>2, <2>1, KeepsNothing
  <1>4. CASE ~ m.ack < s.head
    <2> DEFINE v == Piggybacked(acked)
    <2>1. t = SendPendingData(v, cwnd)
      BY <1>4 DEF ReceivedAck
    <2>2. Keeps(s, acked, p) /\ acked.endPoint
      BY <1>1, <1>4, ProcessAckGood
    <2> HIDE DEF Piggybacked, acked
    <2>3. /\ Keeps(s, v, p) /\ Good(v, p) /\ v.connected
          /\ m.len = 1 /\ ~ p.behind => m.seq \in v.taken
      BY <1>2, <2>2
    <2> HIDE DEF v, t
    <2>4. Keeps(v, t, p)
      BY <2>1, <2>3, SendPendingGood
    <2>5. Keeps(s, t, p)
      BY <1>1, <2>3, <2>4, KeepsOn
    <2> QED
      BY <2>3, <2>4, <2>5 DEF Keeps, Grows, t
  <1> QED
    BY <1>3, <1>4

LEMMA PeerCloseGood ==
    ASSUME NEW s, NEW p, Good(s, p), s.connected, s.endPoint, NEW m \in Segments,
           m.flags = "FIN+ACK", Said(p, s, m)
    PROVE  Keeps(s, PeerClose(s, m), p)
  <1> DEFINE t == SetFinSequence(s, m.seq + m.len)
             u == IF m.len > 0 THEN ReceivedData(t, m) ELSE t
             v == PeerClose(s, m)
  <1>1. s \in SocketType /\ p \in SocketType /\ Takes(s, p)
    BY DEF Good
  <1>2. /\ s.nextRx \in Nat /\ m.seq \in Nat /\ m.len \in {0, 1} /\ p.written \in Nat
        /\ s.fin \in Nat \cup {None}
    BY <1>1, Fields DEF Segments
  <1>3. CASE m.seq < s.nextRx \/ (s.fin # None /\ m.seq > s.fin)
    <2>1. v = s
      BY <1>3 DEF PeerClose
    <2> QED
      BY <2>1, KeepsNothing
  <1>4. CASE ~ (m.seq < s.nextRx \/ (s.fin # None /\ m.seq > s.fin))
    <2>1. ~ Finished(s)
      BY <1>2, <1>4 DEF Finished
    <2>2. Over(p) /\ (~ p.behind => m.seq + m.len > p.written) /\ m.seq + m.len \in Nat
      BY <1>2 DEF Said
    <2>3. ~ p.behind => /\ m.seq + m.len >= p.written
                        /\ m.seq + m.len = p.written => m.seq + m.len \in s.taken
      BY <1>2, <2>2
    <2>4. Keeps(s, t, p)
      BY <2>1, <2>2, <2>3, SetFinGood
    <2>5. t.endPoint /\ t.connected /\ t \in SocketType
      BY <1>1, <2>2, SetFinFacts DEF Kept
    <2> HIDE DEF t
    <2>6. Good(t, p) /\ Grows(s, t)
      BY <2>4 DEF Keeps
    <2>7. Keeps(t, u, p) /\ u.endPoint
      <3>1. CASE m.len = 1
        <4>1. Said(p, t, m)
          BY <1>1, <2>5, <2>6, HeardGrows
        <4>2. u = ReceivedData(t, m)
          BY <3>1
        <4> QED
          BY <2>5, <2>6, <3>1, <4>1, <4>2, ReceivedDataGood
      <3>2. CASE m.len = 0
        BY <2>5, <2>6, <3>2, KeepsNothing
      <3> QED
        BY <1>2, <3>1, <3>2
    <2>8. v = IF ~ Finished(u) THEN u
              ELSE IF u.state = "FIN_WAIT_1" THEN [u EXCEPT !.state = "CLOSING"]
              ELSE DoPeerClose(u)
      BY <1>4 DEF PeerClose, t
    <2> HIDE DEF u, v
    <2>9. Keeps(s, u, p)
      BY <1>1, <2>4, <2>7, KeepsOn
    <2>10. Good(u, p) /\ u.connected /\ Sends(u, p)
      BY <2>9 DEF Keeps, Grows, Good
    <2>11. CASE ~ Finished(u)
      BY <2>8, <2>9, <2>11 DEF v
    <2>12. CASE Finished(u) /\ u.state = "FIN_WAIT_1"
      <3>1. v = [u EXCEPT !.state = "CLOSING"]
        BY <2>8, <2>12
      <3>2. "CLOSING" \in State /\ Over(u)
        BY <2>7, <2>10, <2>12 DEF State, Sends, Ending
      <3>3. Keeps(u, v, p)
        BY <2>10, <3>1, <3>2, StateGood
      <3> QED
        BY <1>1, <2>9, <3>3, KeepsOn DEF v
    <2>13. CASE Finished(u) /\ u.state # "FIN_WAIT_1"
      <3>1. v = DoPeerClose(u)
        BY <2>8, <2>13
      <3>2. Keeps(u, v, p)
        BY <2>7, <2>10, <3>1, DoPeerCloseGood
      <3> QED
        BY <1>1, <2>9, <3>2, KeepsOn DEF v
    <2> QED
      BY <2>11, <2>12, <2>13
  <1> QED
    BY <1>3, <1>4

-----------------------------------------------------------------------------
(* One handler per state *)

LEMMA ProcessEstablishedGood ==
    ASSUME NEW s, NEW p, Good(s, p), s.connected, s.endPoint, NEW m \in Segments,
           Said(p, s, m), NEW cwnd \in Nat
    PROVE  Keeps(s, ProcessEstablished(s, m, cwnd), p)
  <1> DEFINE t == ProcessEstablished(s, m, cwnd)
  <1>1. CASE m.flags = "ACK"
    <2>1. t \in {s, SendEmptyPacket(s, "ACK"), ReceivedAck(s, m, cwnd)}
      BY <1>1 DEF ProcessEstablished
    <2>2. "ACK" \in Flags
      BY DEF Flags
    <2>3. Keeps(s, SendEmptyPacket(s, "ACK"), p)
      BY <2>2, SendEmptyGood
    <2>4. Keeps(s, ReceivedAck(s, m, cwnd), p)
      BY ReceivedAckGood
    <2> QED
      BY <2>1, <2>3, <2>4, KeepsNothing
  <1>2. CASE m.flags \in {"SYN", "SYN+ACK"}
    <2>1. t = s
      BY <1>2 DEF ProcessEstablished
    <2> QED
      BY <2>1, KeepsNothing
  <1>3. CASE m.flags = "FIN+ACK"
    <2>1. t = PeerClose(s, m)
      BY <1>3 DEF ProcessEstablished
    <2> QED
      BY <1>3, <2>1, PeerCloseGood
  <1>4. CASE m.flags \notin {"ACK", "SYN", "SYN+ACK", "FIN+ACK"}
    <2>1. t = CloseAndNotify(s)
      BY <1>4 DEF ProcessEstablished
    <2> QED
      BY <2>1, CloseAndNotifyGood
  <1> QED
    BY <1>1, <1>2, <1>3, <1>4

\* FIN_WAIT_2 is entered when the number of the FIN was acknowledged.
LEMMA ProcessWaitAckGood ==
    ASSUME NEW s, NEW p, Good(s, p), s.connected, s.endPoint, NEW m \in Segments,
           Said(p, s, m), NEW cwnd \in Nat
    PROVE  Keeps(s, ProcessWaitAck(s, m, cwnd), p)
  <1> DEFINE t == ReceivedAck(s, m, cwnd)
             v == [t EXCEPT !.state = "FIN_WAIT_2"]
  <1>1. s \in SocketType /\ p \in SocketType
    BY DEF Good
  <1>2. Keeps(s, t, p)
    BY ReceivedAckGood
  <1>3. ProcessWaitAck(s, m, cwnd) = IF t.state = "FIN_WAIT_1" /\ AcksFin(t, m) THEN v ELSE t
    BY DEF ProcessWaitAck
  <1> HIDE DEF t
  <1>4. Good(t, p) /\ t \in SocketType
    BY <1>2 DEF Keeps, Good
  <1>5. ASSUME AcksFin(t, m) PROVE Keeps(t, v, p)
    <2>1. TxSize(t) = 0 /\ m.ack = t.highTx + 1 /\ m.ack <= p.nextRx
      BY <1>5 DEF AcksFin, Said
    <2>2. t.head \in Nat /\ t.tail \in Nat /\ t.highTx \in Nat /\ p.nextRx \in Nat
      BY <1>1, <1>4, Fields
    <2>3. t.head = t.tail /\ t.highTx < p.nextRx
      BY <2>1, <2>2 DEF TxSize
    <2>4. "FIN_WAIT_2" \in State /\ "FIN_WAIT_2" \notin Ending
      BY DEF State, Ending
    <2> QED
      BY <1>4, <2>3, <2>4, StateGood
  <1> QED
    BY <1>1, <1>2, <1>3, <1>5, KeepsOn

\* The FIN is remembered at the number of its segment.
LEMMA ProcessWaitFinGood ==
    ASSUME NEW s, NEW p, Good(s, p), s.connected, s.endPoint, NEW m \in Segments,
           m.flags = "FIN+ACK", Said(p, s, m), NEW cwnd \in Nat
    PROVE  Keeps(s, ProcessWaitFin(s, m, cwnd), p)
  <1> DEFINE t == ReceivedAck(s, m, cwnd)
             u == SetFinSequence(t, m.seq)
  <1>1. s \in SocketType /\ p \in SocketType /\ m.seq \in Nat /\ m.len \in {0, 1}
    BY DEF Good, Segments
  <1>2. Keeps(s, t, p) /\ (m.len = 1 /\ ~ p.behind => m.seq \in t.taken)
    BY ReceivedAckGood
  <1>3. ProcessWaitFin(s, m, cwnd) = u
    BY DEF ProcessWaitFin
  <1> HIDE DEF t
  <1>4. Good(t, p) /\ t.connected /\ t.nextRx >= s.nextRx /\ t \in SocketType
    BY <1>2 DEF Keeps, Grows, Good
  <1>5. s.nextRx \in Nat /\ t.nextRx \in Nat /\ p.written \in Nat
    BY <1>1, <1>4, Fields
  <1>6. /\ Over(p) /\ (m.seq <= p.highTx \/ m.seq <= s.nextRx)
        /\ ~ p.behind => m.seq + m.len > p.written
    BY DEF Said
  <1>7. m.seq <= t.nextRx \/ m.seq <= p.highTx \/ ~ Finished(t)
    BY <1>1, <1>4, <1>5, <1>6
  <1>8. ~ p.behind => m.seq >= p.written /\ (m.seq = p.written => m.seq \in t.taken)
    BY <1>1, <1>2, <1>5, <1>6
  <1>9. Keeps(t, u, p)
    BY <1>1, <1>4, <1>6, <1>7, <1>8, SetFinGood
  <1> QED
    BY <1>1, <1>2, <1>3, <1>9, KeepsOn

LEMMA TimeWaitGood ==
    ASSUME NEW s, NEW p, Good(s, p)
    PROVE  Keeps(s, TimeWait(s), p)
  <1> DEFINE t == TimeWait(s)
  <1>1. s \in SocketType /\ Quiet(s) /\ Buffers(s) /\ Sends(s, p)
    BY DEF Good
  <1>2. t \in SocketType
    <2>1. "off" \in Retx /\ "TIME_WAIT" \in State
      BY DEF Retx, State
    <2> QED
      BY <1>1, <2>1, Update DEF TimeWait
  <1>3. /\ Same(s, t) /\ t.state = "TIME_WAIT" /\ t.retx = "off" /\ t.behind = s.behind
        /\ t.out = s.out /\ Quiet(t)
    BY <1>1 DEF SocketType, Same, TimeWait, Quiet
  <1> HIDE DEF t
  <1>4. Alike(s, t) /\ Buffers(t) /\ (Over(s) => Over(t)) /\ (t.closeOnEmpty => s.closeOnEmpty)
    BY <1>1, <1>3, SameAlike
  <1>5. /\ t.endPoint /\ (t.retx = "FIN+ACK" \/ t.state \in Ending) => Over(t)
        /\ t.closeOnEmpty => s.closeOnEmpty \/ Over(t)
        /\ t.state = "FIN_WAIT_2" =>
              s.state = "FIN_WAIT_2" \/ (s.head = s.tail /\ s.highTx < p.nextRx)
    BY <1>3, <1>4 DEF Ending
  <1> QED
    BY <1>2, <1>3, <1>4, <1>5, AlikeKeeps DEF t

LEMMA FinishWaitGood ==
    ASSUME NEW s, NEW p, Good(s, p), NEW m
    PROVE  Keeps(s, FinishWait(s, m), p)
  <1> DEFINE closing == [s EXCEPT !.state = "CLOSING"]
             next == IF s.state = "FIN_WAIT_1" /\ ~ AcksFin(s, m) THEN closing ELSE TimeWait(s)
             t == FinishWait(s, m)
  <1>1. s \in SocketType /\ "ACK" \in Flags /\ Sends(s, p)
    BY DEF Good, Flags
  <1>2. Keeps(s, next, p)
    <2>1. ASSUME s.state = "FIN_WAIT_1" PROVE Keeps(s, closing, p)
      <3>1. "CLOSING" \in State /\ (s.endPoint => Over(s))
        BY <1>1, <2>1 DEF State, Sends, Ending
      <3> QED
        BY <3>1, StateGood
    <2>2. Keeps(s, TimeWait(s), p)
      BY TimeWaitGood
    <2> QED
      BY <2>1, <2>2
  <1>3. t = SendEmptyPacket(next, "ACK") \/ t = s
    BY DEF FinishWait
  <1> HIDE DEF next, t
  <1>4. Keeps(next, SendEmptyPacket(next, "ACK"), p)
    BY <1>1, <1>2, SendEmptyGood DEF Keeps
  <1>5. Keeps(s, SendEmptyPacket(next, "ACK"), p)
    BY <1>1, <1>2, <1>4, KeepsOn
  <1> QED
    BY <1>3, <1>5, KeepsNothing DEF t

LEMMA ProcessWaitGood ==
    ASSUME NEW s, NEW p, Good(s, p), s.connected, s.endPoint, NEW m \in Segments,
           Said(p, s, m), NEW cwnd \in Nat
    PROVE  Keeps(s, ProcessWait(s, m, cwnd), p)
  <1> DEFINE t == ProcessWait(s, m, cwnd)
             a == ProcessWaitAck(s, m, cwnd)
             f == ProcessWaitFin(s, m, cwnd)
  <1>1. s \in SocketType
    BY DEF Good
  <1>2. CASE m.flags = "ACK"
    <2>1. t = FinishWait(a, m)
      BY <1>2 DEF ProcessWait
    <2>2. Keeps(s, a, p)
      BY ProcessWaitAckGood
    <2> HIDE DEF a, t
    <2>3. Keeps(a, t, p)
      BY <2>1, <2>2, FinishWaitGood DEF Keeps
    <2> QED
      BY <1>1, <2>2, <2>3, KeepsOn DEF t
  <1>3. CASE m.flags = "FIN+ACK"
    <2>1. t = FinishWait(f, m)
      BY <1>3 DEF ProcessWait
    <2>2. Keeps(s, f, p)
      BY <1>3, ProcessWaitFinGood
    <2> HIDE DEF f, t
    <2>3. Keeps(f, t, p)
      BY <2>1, <2>2, FinishWaitGood DEF Keeps
    <2> QED
      BY <1>1, <2>2, <2>3, KeepsOn DEF t
  <1>4. CASE m.flags \in {"SYN", "SYN+ACK"}
    <2>1. t = s
      BY <1>4 DEF ProcessWait
    <2> QED
      BY <2>1, KeepsNothing
  <1>5. CASE m.flags \notin {"ACK", "SYN", "SYN+ACK", "FIN+ACK"}
    <2>1. t = CloseAndNotify(s)
      BY <1>5 DEF ProcessWait
    <2> QED
      BY <2>1, CloseAndNotifyGood
  <1> QED
    BY <1>2, <1>3, <1>4, <1>5

LEMMA ProcessClosingGood ==
    ASSUME NEW s, NEW p, Good(s, p), NEW m
    PROVE  Keeps(s, ProcessClosing(s, m), p)
  <1> DEFINE u == SendEmptyPacket(s, "ACK")
  <1>1. s \in SocketType /\ "ACK" \in Flags
    BY DEF Good, Flags
  <1>2. ProcessClosing(s, m) \in {s, TimeWait(s), CloseAndNotify(u), CloseAndNotify(s),
                                  CloseAndNotify(SendRST(s))}
    BY DEF ProcessClosing
  <1>3. Keeps(s, u, p)
    BY <1>1, SendEmptyGood
  <1> HIDE DEF u
  <1>4. Keeps(u, CloseAndNotify(u), p)
    BY <1>3, CloseAndNotifyGood DEF Keeps
  <1>5. Keeps(s, CloseAndNotify(u), p)
    BY <1>1, <1>3, <1>4, KeepsOn
  <1>6. /\ Keeps(s, s, p) /\ Keeps(s, TimeWait(s), p) /\ Keeps(s, CloseAndNotify(s), p)
        /\ Keeps(s, CloseAndNotify(SendRST(s)), p)
    BY KeepsNothing, TimeWaitGood, CloseAndNotifyGood, AbortGood
  <1> QED
    BY <1>2, <1>5, <1>6

LEMMA ProcessLastAckGood ==
    ASSUME NEW s, NEW p, Good(s, p), NEW m
    PROVE  Keeps(s, ProcessLastAck(s, m), p)
  <1>1. ProcessLastAck(s, m) \in {s, CloseAndNotify(s), CloseAndNotify(SendRST(s))}
    BY DEF ProcessLastAck
  <1>2. /\ Keeps(s, s, p) /\ Keeps(s, CloseAndNotify(s), p)
        /\ Keeps(s, CloseAndNotify(SendRST(s)), p)
    BY KeepsNothing, CloseAndNotifyGood, AbortGood
  <1> QED
    BY <1>1, <1>2

\* A segment that arrives at a connected socket.
LEMMA ConnectedGood ==
    ASSUME NEW s, NEW p, Good(s, p), s.connected, s.endPoint,
           s.state \notin {"SYN_SENT", "SYN_RCVD"}, NEW m \in Segments,
           Said(p, s, m), NEW cwnd \in Nat
    PROVE  Keeps(s, ForwardUp(s, m, cwnd), p)
  <1> DEFINE t == ForwardUp(s, m, cwnd)
  <1>1. t \in {s, SendEmptyPacket(s, "ACK"), ProcessEstablished(s, m, cwnd),
               ProcessWait(s, m, cwnd), ProcessClosing(s, m), ProcessLastAck(s, m)}
    BY DEF ForwardUp
  <1>2. "ACK" \in Flags
    BY DEF Flags
  <1>3. Keeps(s, s, p) /\ Keeps(s, SendEmptyPacket(s, "ACK"), p)
    BY <1>2, KeepsNothing, SendEmptyGood
  <1>4. Keeps(s, ProcessEstablished(s, m, cwnd), p)
    BY ProcessEstablishedGood
  <1>5. Keeps(s, ProcessWait(s, m, cwnd), p)
    BY ProcessWaitGood
  <1>6. Keeps(s, ProcessClosing(s, m), p) /\ Keeps(s, ProcessLastAck(s, m), p)
    BY ProcessClosingGood, ProcessLastAckGood
  <1> QED
    BY <1>1, <1>3, <1>4, <1>5, <1>6

-----------------------------------------------------------------------------
(* Timers and application calls *)

\* Everything but timers and the counts of retries.
Untouched(s, t) ==
    /\ Alike(s, t) /\ t.behind = s.behind /\ t.out = s.out /\ t.state = s.state
    /\ t.endPoint = s.endPoint /\ t.retx \in {s.retx, "off"}
    /\ t.closed = s.closed /\ t.closeOnEmpty = s.closeOnEmpty
    /\ t.shutdownSend = s.shutdownSend

LEMMA UntouchedGood ==
    ASSUME NEW s, NEW t, NEW p, Good(s, p), t \in SocketType, Quiet(t), Buffers(t),
           Untouched(s, t)
    PROVE  Keeps(s, t, p) /\ Good(t, p)
  <1>1. Sends(s, p)
    BY DEF Good
  <1>2. Alike(s, t) /\ t.behind = s.behind /\ t.out = s.out /\ (Over(s) <=> Over(t))
    BY DEF Untouched, Over
  <1>3. /\ t.endPoint /\ (t.retx = "FIN+ACK" \/ t.state \in Ending) => Over(t)
        /\ t.closeOnEmpty => s.closeOnEmpty \/ Over(t)
        /\ t.state = "FIN_WAIT_2" =>
              s.state = "FIN_WAIT_2" \/ (s.head = s.tail /\ s.highTx < p.nextRx)
    BY <1>1, <1>2 DEF Untouched, Sends
  <1>4. Keeps(s, t, p)
    BY <1>2, <1>3, AlikeKeeps
  <1> QED
    BY <1>4 DEF Keeps

\* The data timer marks everything lost.
LEMMA TimeoutGood ==
    ASSUME NEW s, NEW p, Good(s, p), s.connected, s.dataRetrCount # 0
    PROVE  LET u == [s EXCEPT !.dataRetrCount = @ - 1, !.recover = s.highTx,
                              !.lost = s.head .. s.highTx - 1]
           IN  Keeps(s, SendPendingData(u, 1), p)
  <1> DEFINE lost == s.head .. s.highTx - 1
             u == [s EXCEPT !.dataRetrCount = @ - 1, !.recover = s.highTx, !.lost = lost]
             t == SendPendingData(u, 1)
  <1>1. s \in SocketType /\ Quiet(s) /\ Buffers(s)
    BY DEF Good
  <1>2. s.head \in Nat /\ s.tail \in Nat /\ s.highTx \in Nat
    BY <1>1, Fields
  <1>3. lost \in SUBSET Nat
    BY <1>2
  <1>4. u \in SocketType
    <2>1. s.dataRetrCount - 1 \in 0..DataRetries
      BY <1>1, Fields, TcpAssumption
    <2> HIDE DEF lost
    <2> QED
      BY <1>1, <1>2, <1>3, <2>1, Update
  <1>5. /\ Untouched(s, u) /\ u.lost = lost /\ u.lastAck = s.lastAck
        /\ u.delAck = s.delAck /\ u.sendPending = s.sendPending /\ u.connected
    BY <1>1 DEF SocketType, Untouched, Alike
  <1> HIDE DEF u, t
  <1>6. Quiet(u) /\ Buffers(u)
    BY <1>1, <1>5 DEF Quiet, Buffers, Untouched, Alike
  <1>7. Keeps(s, u, p) /\ Good(u, p)
    BY <1>4, <1>5, <1>6, UntouchedGood
  <1>8. Keeps(u, t, p)
    BY <1>5, <1>7, SendPendingGood DEF t
  <1> QED
    BY <1>1, <1>7, <1>8, KeepsOn DEF t, u

LEMMA RetxExpiredGood ==
    ASSUME NEW x, NEW s, NEW p, Settled(x, s), Good(s, p), s.retx # "off"
    PROVE  Keeps(s, RetxExpired(s), p)
  <1> DEFINE u == [s EXCEPT !.retx = "off"]
             t == RetxExpired(s)
  <1>1. s \in SocketType /\ Quiet(s) /\ Buffers(s) /\ s.endPoint /\ Sends(s, p)
        /\ "FIN+ACK" \in Flags
    BY DEF Good, Quiet, Flags
  <1>2. u \in SocketType
    BY <1>1, Update DEF Retx
  <1>3. /\ Untouched(s, u) /\ u.lost = s.lost /\ u.lastAck = s.lastAck
        /\ u.delAck = s.delAck /\ u.sendPending = s.sendPending
        /\ u.dataRetrCount = s.dataRetrCount
    BY <1>1 DEF SocketType, Untouched, Alike
  <1>4. t = IF s.retx = "rto" THEN ReTxTimeout(u) ELSE SendEmptyPacket(u, s.retx)
    BY DEF RetxExpired
  <1> HIDE DEF u, t
  <1>5. Quiet(u) /\ Buffers(u) /\ u.endPoint /\ (Over(s) => Over(u)) /\ u.connected = s.connected
        /\ u.state = s.state /\ u.nextTx = s.nextTx
    BY <1>1, <1>3 DEF Quiet, Buffers, Untouched, Alike, Over
  <1>6. Keeps(s, u, p) /\ Good(u, p)
    BY <1>2, <1>3, <1>5, UntouchedGood
  <1>7. ASSUME Over(s), s.connected PROVE Keeps(u, SendEmptyPacket(u, "FIN+ACK"), p)
    BY <1>1, <1>5, <1>6, <1>7, SendEmptyGood
  <1>8. Keeps(u, t, p)
    <2>1. CASE ~ s.connected
      <3>1. s.retx \in {"SYN", "SYN+ACK"} /\ s.nextTx = 0 /\ s.state \in {"SYN_SENT", "SYN_RCVD"}
        BY <1>1, <2>1 DEF Settled, Fresh, Blank
      <3>2. t = SendEmptyPacket(u, s.retx)
        BY <1>4, <3>1
      <3>3. s.retx \in Flags /\ u.state \notin Ending
        BY <1>5, <3>1 DEF Flags, Ending
      <3> QED
        BY <1>5, <1>6, <3>1, <3>2, <3>3, SendEmptyGood
    <2>2. CASE s.connected /\ s.retx = "FIN+ACK"
      <3>1. Over(s)
        BY <1>1, <2>2 DEF Sends
      <3> QED
        BY <1>4, <1>7, <2>2, <3>1
    <2>3. CASE s.connected /\ s.retx = "rto"
      <3>1. t = ReTxTimeout(u)
        BY <1>4, <2>3
      <3>2. CASE TxSize(u) = 0 /\ u.state \in {"FIN_WAIT_1", "CLOSING"}
        <4>1. t = SendEmptyPacket(u, "FIN+ACK")
          BY <3>1, <3>2 DEF ReTxTimeout
        <4>2. Over(s)
          BY <1>1, <1>5, <3>2 DEF Sends, Ending
        <4> QED
          BY <1>7, <2>3, <4>1, <4>2
      <3>3. CASE TxSize(u) = 0 /\ u.state \notin {"FIN_WAIT_1", "CLOSING"}
        <4>1. t = u
          BY <3>1, <3>3 DEF ReTxTimeout
        <4> QED
          BY <1>6, <4>1, KeepsNothing
      <3>4. CASE TxSize(u) # 0 /\ TxSize(u) > 0 /\ u.dataRetrCount = 0
        <4>1. t = DeallocateEndPoint(u)
          BY <3>1, <3>4 DEF ReTxTimeout
        <4> QED
          BY <1>6, <4>1, DeallocateGood
      <3>5. CASE TxSize(u) # 0 /\ ~ (TxSize(u) > 0 /\ u.dataRetrCount = 0)
        <4>1. t = SendPendingData([u EXCEPT !.dataRetrCount = @ - 1, !.recover = u.highTx,
                                            !.lost = u.head .. u.highTx - 1], 1)
          BY <3>1, <3>5 DEF ReTxTimeout
        <4>2. u.dataRetrCount # 0
          <5>1. TxSize(u) > 0
            <6>1. u.head \in Nat /\ u.tail \in Nat /\ u.head <= u.tail
              BY <1>2, <1>5, Fields DEF Buffers
            <6> QED
              BY <3>5, <6>1 DEF TxSize
          <5> QED
            BY <3>5, <5>1
        <4> QED
          BY <1>5, <1>6, <2>3, <4>1, <4>2, TimeoutGood
      <3> QED
        BY <3>2, <3>3, <3>4, <3>5
    <2>4. s.connected => s.retx \in {"rto", "FIN+ACK"}
      BY DEF Settled, Sound, Sane, Live
    <2> QED
      BY <2>1, <2>2, <2>3, <2>4
  <1> QED
    BY <1>1, <1>6, <1>8, KeepsOn DEF t

LEMMA DelAckTimeoutGood ==
    ASSUME NEW s, NEW p, Good(s, p)
    PROVE  Keeps(s, DelAckTimeout(s), p)
  <1> DEFINE u == [s EXCEPT !.delAck = FALSE, !.delAckCount = 0]
  <1>1. s \in SocketType /\ Quiet(s) /\ Buffers(s) /\ "ACK" \in Flags
    BY DEF Good, Flags
  <1>2. u \in SocketType
    <2>1. FALSE \in BOOLEAN /\ 0 \in 0..DelAckMaxCount
      BY TcpAssumption
    <2> QED
      BY <1>1, <2>1, Update
  <1>3. /\ Untouched(s, u) /\ u.lost = s.lost /\ u.lastAck = s.lastAck
        /\ u.sendPending = s.sendPending /\ ~ u.delAck /\ u.retx = s.retx
    BY <1>1 DEF SocketType, Untouched, Alike
  <1> HIDE DEF u
  <1>4. Quiet(u) /\ Buffers(u)
    BY <1>1, <1>3 DEF Quiet, Buffers, Untouched, Alike
  <1>5. Keeps(s, u, p) /\ Good(u, p)
    BY <1>2, <1>3, <1>4, UntouchedGood
  <1>6. DelAckTimeout(s) = SendEmptyPacket(u, "ACK")
    BY DEF DelAckTimeout, u
  <1>7. Keeps(u, SendEmptyPacket(u, "ACK"), p)
    BY <1>1, <1>5, SendEmptyGood
  <1> QED
    BY <1>1, <1>5, <1>6, <1>7, KeepsOn

LEMMA LastAckTimeoutGood ==
    ASSUME NEW s, NEW p, Good(s, p), s.connected, s.lastAck
    PROVE  Keeps(s, LastAckTimeout(s), p)
  <1> DEFINE u == [s EXCEPT !.lastAck = FALSE]
             t == LastAckTimeout(s)
  <1>1. s \in SocketType /\ Quiet(s) /\ Buffers(s) /\ s.endPoint /\ Sends(s, p)
        /\ "FIN+ACK" \in Flags
    BY DEF Good, Quiet, Flags
  <1>2. u \in SocketType
    BY <1>1, Update
  <1>3. /\ Untouched(s, u) /\ u.lost = s.lost /\ u.retx = s.retx
        /\ u.delAck = s.delAck /\ u.sendPending = s.sendPending /\ ~ u.lastAck
        /\ u.dataRetrCount = s.dataRetrCount
    BY <1>1 DEF SocketType, Untouched, Alike
  <1>4. CASE s.state # "LAST_ACK" \/ s.dataRetrCount = 0
    <2>1. t = u \/ t = DeallocateEndPoint(u)
      BY <1>4 DEF LastAckTimeout
    <2> HIDE DEF u, t
    <2>2. Quiet(u) /\ Buffers(u)
      BY <1>1, <1>3 DEF Quiet, Buffers, Untouched, Alike
    <2>3. Keeps(s, u, p) /\ Good(u, p)
      BY <1>2, <1>3, <2>2, UntouchedGood
    <2>4. Keeps(u, DeallocateEndPoint(u), p)
      BY <2>3, DeallocateGood
    <2> QED
      BY <1>1, <2>1, <2>3, <2>4, KeepsOn DEF t
  <1>5. CASE s.state = "LAST_ACK" /\ s.dataRetrCount # 0
    <2> DEFINE v == [u EXCEPT !.dataRetrCount = s.dataRetrCount - 1]
               w == SendEmptyPacket(v, "FIN+ACK")
               z == [w EXCEPT !.lastAck = TRUE]
    <2>1. t = z
      BY <1>3, <1>5 DEF LastAckTimeout
    <2> HIDE DEF u, t
    <2>2. v \in SocketType
      <3>1. s.dataRetrCount - 1 \in 0..DataRetries
        BY <1>1, <1>5, Fields, TcpAssumption
      <3> QED
        BY <1>2, <3>1, Update
    <2>3. /\ Untouched(s, v) /\ v.lost = s.lost /\ v.lastAck = u.lastAck
          /\ v.delAck = s.delAck /\ v.sendPending = s.sendPending /\ v.endPoint
      BY <1>1, <1>2, <1>3 DEF SocketType, Untouched, Alike
    <2> HIDE DEF v
    <2>4. Quiet(v) /\ Buffers(v)
      BY <1>1, <2>3 DEF Quiet, Buffers, Untouched, Alike
    <2>5. Keeps(s, v, p) /\ Good(v, p)
      BY <2>2, <2>3, <2>4, UntouchedGood
    <2>6. Over(v) /\ v.connected
      BY <1>1, <1>5, <2>3 DEF Sends, Ending, Untouched, Alike, Over
    <2>7. Keeps(v, w, p) /\ w.endPoint
      <3>1. Keeps(v, w, p)
        BY <1>1, <2>5, <2>6, SendEmptyGood
      <3>2. w.endPoint
        BY <1>1, <2>2, <2>3, <2>4, SendEmptyPacketFacts
      <3> QED
        BY <3>1, <3>2
    <2> HIDE DEF w
    <2>8. Good(w, p) /\ w \in SocketType /\ Quiet(w) /\ Buffers(w)
      BY <2>7 DEF Keeps, Good
    <2>9. z \in SocketType
      BY <2>8, Update
    <2>10. /\ Untouched(w, z) /\ z.lost = w.lost /\ z.endPoint
      BY <2>7, <2>8 DEF SocketType, Untouched, Alike
    <2> HIDE DEF z
    <2>11. Quiet(z) /\ Buffers(z)
      BY <2>8, <2>10 DEF Quiet, Buffers, Untouched, Alike
    <2>12. Keeps(w, z, p)
      BY <2>8, <2>9, <2>10, <2>11, UntouchedGood
    <2>13. Keeps(s, w, p)
      BY <1>1, <2>5, <2>7, KeepsOn
    <2>14. Keeps(s, z, p)
      BY <1>1, <2>12, <2>13, KeepsOn
    <2> QED
      BY <2>1, <2>14 DEF t
  <1> QED
    BY <1>4, <1>5

LEMMA PendingGood ==
    ASSUME NEW s, NEW p, Good(s, p), s.connected, NEW cwnd \in Nat
    PROVE  Keeps(s, SendPendingData([s EXCEPT !.sendPending = FALSE], cwnd), p)
  <1> DEFINE u == [s EXCEPT !.sendPending = FALSE]
             t == SendPendingData(u, cwnd)
  <1>1. s \in SocketType /\ Quiet(s) /\ Buffers(s)
    BY DEF Good
  <1>2. u \in SocketType
    BY <1>1, Update
  <1>3. /\ Untouched(s, u) /\ u.lost = s.lost /\ u.retx = s.retx /\ u.lastAck = s.lastAck
        /\ u.delAck = s.delAck /\ ~ u.sendPending /\ u.connected
    BY <1>1 DEF SocketType, Untouched, Alike
  <1> HIDE DEF u
  <1>4. Quiet(u) /\ Buffers(u)
    BY <1>1, <1>3 DEF Quiet, Buffers, Untouched, Alike
  <1>5. Keeps(s, u, p) /\ Good(u, p)
    BY <1>2, <1>3, <1>4, UntouchedGood
  <1>6. Keeps(u, t, p)
    BY <1>3, <1>5, SendPendingGood
  <1> QED
    BY <1>1, <1>5, <1>6, KeepsOn DEF u

LEMMA AppCloseGood ==
    ASSUME NEW s, NEW p, Good(s, p), s.connected \/ s.state = "SYN_SENT"
    PROVE  Keeps(s, Close([s EXCEPT !.closed = TRUE]), p)
  <1> DEFINE u == [s EXCEPT !.closed = TRUE]
  <1>1. s \in SocketType
    BY DEF Good
  <1>2. u \in SocketType
    BY <1>1, Update
  <1>3. Over(u) /\ u.connected = s.connected /\ u.state = s.state
    BY <1>1 DEF SocketType, Over
  <1>4. Keeps(s, u, p)
    BY <1>2, <1>3, OverGood
  <1> HIDE DEF u
  <1>5. Keeps(u, Close(u), p)
    BY <1>3, <1>4, CloseGood DEF Keeps
  <1> QED
    BY <1>1, <1>4, <1>5, KeepsOn DEF u

-----------------------------------------------------------------------------
(* The handshake *)

\* A socket whose SYN was consumed.
Joins(s, t) ==
    /\ t.endPoint /\ t.connected /\ t.head = 1 /\ t.nextTx = 1 /\ t.highTx = 1
    /\ t.tail = s.tail + 1 /\ t.lost = {} /\ t.held = {} /\ t.retx = "off" /\ t.fin = None
    /\ t.closed = s.closed /\ t.closeOnEmpty = s.closeOnEmpty
    /\ t.shutdownSend = s.shutdownSend
    /\ t.taken = s.taken /\ t.written = s.written /\ t.behind = s.behind /\ t.out = s.out

LEMMA ConnectedJoins ==
    ASSUME NEW s, Blank(s), s.endPoint
    PROVE  LET t == Connected(s)
           IN  t \in SocketType /\ Joins(s, t) /\ t.nextRx = s.nextRx /\ t.state = s.state
  <1> DEFINE t == Connected(s)
             tail == s.tail + 1
  <1>1. s \in SocketType /\ tail \in Nat
    BY Fields DEF Blank
  <1>2. t = [s EXCEPT !.connected = TRUE, !.retx = "off",
                      !.nextTx = 1, !.highTx = 1, !.head = 1, !.tail = tail]
    BY DEF Connected
  <1>3. s.lost = {} /\ s.held = {} /\ s.fin = None
    BY DEF Blank
  <1>4. t \in SocketType
    BY ConnectedFacts
  <1> HIDE DEF t, tail
  <1>5. /\ t.endPoint /\ t.connected /\ t.head = 1 /\ t.nextTx = 1 /\ t.highTx = 1
        /\ t.tail = tail /\ t.lost = s.lost /\ t.held = s.held /\ t.retx = "off"
        /\ t.fin = s.fin /\ t.nextRx = s.nextRx /\ t.state = s.state
    BY <1>1, <1>2 DEF SocketType
  <1>6. /\ t.closed = s.closed /\ t.closeOnEmpty = s.closeOnEmpty
        /\ t.shutdownSend = s.shutdownSend /\ t.taken = s.taken /\ t.written = s.written
        /\ t.behind = s.behind /\ t.out = s.out
    BY <1>1, <1>2 DEF SocketType
  <1> QED
    BY <1>3, <1>4, <1>5, <1>6 DEF Joins, t, tail

LEMMA JoinGood ==
    ASSUME NEW s, NEW t, NEW p, Good(s, p), Blank(s), t \in SocketType, Joins(s, t),
           t.nextRx \in {s.nextRx, 1}, p.nextRx >= 1,
           t.state \in {"ESTABLISHED", "SYN_RCVD"}
    PROVE  Keeps(s, t, p)
  <1>1. s \in SocketType /\ p \in SocketType /\ Sends(s, p) /\ Takes(s, p)
        /\ \A i \in 1..Len(s.out) : Said(s, p, s.out[i])
    BY DEF Good
  <1>2. /\ s.nextRx \in Nat /\ s.tail \in Nat /\ s.written \in Nat /\ p.written \in Nat
        /\ p.nextRx \in Nat /\ s.out \in Seq(Segments)
    BY <1>1, Fields
  <1>3. ~ s.connected /\ s.highTx = 0
    BY DEF Blank
  <1>4. s.nextRx <= 1 /\ s.taken = {}
    BY <1>1, <1>3 DEF Takes
  <1>5. (Over(s) <=> Over(t)) /\ t.nextRx <= 1 /\ t.nextRx >= s.nextRx
    BY <1>2, <1>4 DEF Joins, Over
  <1>6. Quiet(t) /\ Buffers(t)
    <2>1. t.lost = {} /\ t.head <= t.tail /\ t.highTx <= t.tail /\ t.head <= t.nextTx
      BY <1>2 DEF Joins
    <2> QED
      BY <2>1, FS_EmptySet DEF Quiet, Buffers, Joins
  <1>7. Counted(t)
    <2>1. ~ s.behind => s.tail = s.written
      BY <1>1, <1>3 DEF Sends, Counted
    <2>2. ~ s.behind => t.tail = t.written + 1 /\ t.tail \in Nat
      BY <1>2, <2>1 DEF Joins
    <2> QED
      BY <2>2 DEF Joins, Counted
  <1>8. Sends(t, p)
    <2>1. Beyond(p, t)
      BY <1>1, <1>5 DEF Sends, Beyond, Joins
    <2>2. t.head >= 1 /\ t.head <= p.nextRx /\ t.nextTx <= t.highTx
      BY <1>2 DEF Joins
    <2>3. t.closeOnEmpty => Over(t)
      BY <1>1, <1>5 DEF Sends, Joins
    <2>4. t.retx # "FIN+ACK" /\ t.state \notin Ending /\ t.state # "FIN_WAIT_2"
      BY DEF Joins, Ending
    <2> QED
      BY <1>7, <2>1, <2>2, <2>3, <2>4 DEF Sends
  <1>9. Takes(t, p)
    <2>1. t.nextRx \in Nat
      BY Fields
    <2>2. ~ t.nextRx > p.written + 1
      BY <1>2, <1>5, <2>1
    <2>3. t.taken = {} /\ t.held = {} /\ t.fin = None /\ t.connected
      BY <1>4 DEF Joins
    <2>4. \A q \in 1..p.written : ~ q < t.nextRx
      BY <1>2, <1>5, <2>1
    <2> QED
      BY <1>5, <2>2, <2>3, <2>4 DEF Takes, Beyond
  <1>10. Grows(s, t)
    <2>1. t.highTx >= s.highTx
      BY <1>3 DEF Joins
    <2> QED
      BY <1>5, <2>1 DEF Grows, Joins
  <1>11. ASSUME NEW i \in 1..Len(t.out) PROVE Said(t, p, t.out[i])
    <2>1. t.out = s.out
      BY DEF Joins
    <2>2. Said(s, p, s.out[i]) /\ s.out[i] \in Segments
      BY <1>1, <1>2, <2>1
    <2> QED
      BY <1>1, <1>10, <2>1, <2>2, SaidGrows
  <1> QED
    BY <1>1, <1>6, <1>8, <1>9, <1>10, <1>11 DEF Keeps, Good

LEMMA ProcessSynSentGood ==
    ASSUME NEW s, NEW p, Good(s, p), Blank(s), s.endPoint, NEW m \in Segments,
           Said(p, s, m), NEW cwnd \in Nat
    PROVE  Keeps(s, ProcessSynSent(s, m, cwnd), p)
  <1> DEFINE c == Connected(s)
             n == m.seq + 1
             u == [c EXCEPT !.state = "ESTABLISHED", !.nextRx = n]
             a == SendEmptyPacket(u, "ACK")
             v == SendPendingData(a, cwnd)
             w == [v EXCEPT !.delAckCount = DelAckMaxCount]
             t == ProcessSynSent(s, m, cwnd)
  <1>1. s \in SocketType /\ p \in SocketType /\ s.nextTx = 0 /\ m.flags \in Flags
    BY DEF Good, Blank, Segments
  <1>2. ASSUME m.flags = "SYN+ACK", m.ack = s.nextTx + 1
        PROVE  Keeps(s, w, p)
    <2>1. n = 1 /\ p.nextRx >= 1
      <3>1. m.seq = 0 /\ m.ack <= p.nextRx /\ m.ack = 1
        BY <1>1, <1>2 DEF Said
      <3> QED
        BY <3>1
    <2>2. c \in SocketType /\ Joins(s, c)
      BY ConnectedJoins
    <2> HIDE DEF c, n
    <2>3. u \in SocketType
      BY <2>1, <2>2, Update DEF State
    <2>4. u.nextRx = n /\ u.state = "ESTABLISHED" /\ Joins(s, u)
      BY <2>2 DEF SocketType, Joins
    <2> HIDE DEF u
    <2>5. Keeps(s, u, p)
      BY <2>1, <2>3, <2>4, JoinGood
    <2>6. Good(u, p) /\ u.connected /\ Quiet(u) /\ "ACK" \in Flags
      BY <2>4, <2>5 DEF Keeps, Good, Joins, Flags
    <2>7. Keeps(u, a, p)
      BY <2>6, SendEmptyGood
    <2>8. a.connected
      BY <2>3, <2>6, SendEmptyPacketFacts DEF Same
    <2> HIDE DEF a
    <2>9. Good(a, p)
      BY <2>7 DEF Keeps
    <2>10. Keeps(a, v, p)
      BY <2>8, <2>9, SendPendingGood
    <2> HIDE DEF v
    <2>11. Good(v, p) /\ v \in SocketType /\ Quiet(v) /\ Buffers(v)
      BY <2>10 DEF Keeps, Good
    <2>12. w \in SocketType
      <3>1. DelAckMaxCount \in 0..DelAckMaxCount
        BY TcpAssumption
      <3> QED
        BY <2>11, <3>1, Update
    <2>13. /\ Untouched(v, w) /\ w.lost = v.lost /\ w.retx = v.retx /\ w.lastAck = v.lastAck
           /\ w.delAck = v.delAck /\ w.sendPending = v.sendPending
      BY <2>11 DEF SocketType, Untouched, Alike
    <2> HIDE DEF w
    <2>14. Quiet(w) /\ Buffers(w)
      BY <2>11, <2>13 DEF Quiet, Buffers, Untouched, Alike
    <2>15. Keeps(v, w, p)
      BY <2>11, <2>12, <2>13, <2>14, UntouchedGood
    <2>16. Keeps(s, a, p)
      BY <1>1, <2>5, <2>7, KeepsOn
    <2>17. Keeps(s, v, p)
      BY <1>1, <2>10, <2>16, KeepsOn
    <2> QED
      BY <1>1, <2>15, <2>17, KeepsOn
  <1>3. \/ t = s
        \/ t = w /\ m.flags = "SYN+ACK" /\ m.ack = s.nextTx + 1
        \/ t = CloseAndNotify(s)
        \/ t = CloseAndNotify(SendRST(s))
    BY <1>1 DEF ProcessSynSent, Flags
  <1>4. Keeps(s, s, p) /\ Keeps(s, CloseAndNotify(s), p)
        /\ Keeps(s, CloseAndNotify(SendRST(s)), p)
    BY KeepsNothing, CloseAndNotifyGood, AbortGood
  <1> HIDE DEF t, w
  <1> QED
    BY <1>2, <1>3, <1>4 DEF t

LEMMA ProcessSynRcvdGood ==
    ASSUME NEW s, NEW p, Good(s, p), Fresh(Server, s), s.endPoint, s.state = "SYN_RCVD",
           NEW m \in Segments, Said(p, s, m), NEW cwnd \in Nat,
           m.flags = "FIN+ACK" => p.nextRx >= 1
    PROVE  Keeps(s, ProcessSynRcvd(s, m, cwnd), p)
  <1> DEFINE c == Connected(s)
             t == ProcessSynRcvd(s, m, cwnd)
  <1>1. s \in SocketType /\ p \in SocketType /\ Blank(s) /\ s.nextTx = 0 /\ m.flags \in Flags
        /\ s.nextRx >= 1
    BY DEF Good, Fresh, Blank, Segments
  <1>2. c \in SocketType /\ Joins(s, c) /\ c.nextRx = s.nextRx /\ c.state = "SYN_RCVD"
    BY <1>1, ConnectedJoins
  <1> HIDE DEF c
  <1>3. CASE m.flags = "ACK" /\ m.ack = s.nextTx + 1
    <2> DEFINE u == [c EXCEPT !.state = "ESTABLISHED", !.delAckCount = DelAckMaxCount]
    <2>1. t = ReceivedAck(u, m, cwnd)
      BY <1>3 DEF ProcessSynRcvd, c
    <2>2. u \in SocketType
      <3>1. DelAckMaxCount \in 0..DelAckMaxCount /\ "ESTABLISHED" \in State
        BY TcpAssumption DEF State
      <3> QED
        BY <1>2, <3>1, Update
    <2>3. u.nextRx = s.nextRx /\ u.state = "ESTABLISHED" /\ Joins(s, u)
      BY <1>2 DEF SocketType, Joins
    <2> HIDE DEF u
    <2>4. p.nextRx >= 1
      BY <1>1, <1>3 DEF Said
    <2>5. Keeps(s, u, p)
      BY <1>1, <2>2, <2>3, <2>4, JoinGood
    <2>6. Good(u, p) /\ u.connected /\ u.endPoint /\ Grows(s, u)
      BY <2>3, <2>5 DEF Keeps, Joins
    <2>7. Said(p, u, m)
      BY <1>1, <2>2, <2>6, HeardGrows
    <2>8. Keeps(u, t, p)
      BY <2>1, <2>6, <2>7, ReceivedAckGood
    <2> QED
      BY <1>1, <2>5, <2>8, KeepsOn
  <1>4. CASE m.flags = "SYN"
    <2> DEFINE u == [s EXCEPT !.nextRx = m.seq + 1]
    <2>1. t = SendEmptyPacket(u, "SYN+ACK")
      BY <1>4 DEF ProcessSynRcvd
    <2>2. m.seq + 1 = s.nextRx
      <3>1. m.seq = 0
        BY <1>4 DEF Said
      <3>2. s.nextRx <= 1
        BY <1>1 DEF Good, Takes, Blank
      <3>3. s.nextRx \in Nat
        BY <1>1, Fields
      <3> QED
        BY <1>1, <3>1, <3>2, <3>3
    <2>3. u \in SocketType
      <3>1. m.seq + 1 \in Nat
        BY <1>1, <2>2, Fields
      <3> QED
        BY <1>1, <3>1, Update
    <2>4. /\ Untouched(s, u) /\ u.lost = s.lost /\ u.retx = s.retx /\ u.lastAck = s.lastAck
          /\ u.delAck = s.delAck /\ u.sendPending = s.sendPending /\ u.nextTx = 0
      BY <1>1, <2>2 DEF SocketType, Untouched, Alike
    <2> HIDE DEF u
    <2>5. Quiet(s) /\ Buffers(s) /\ "SYN+ACK" \in Flags
      BY DEF Good, Flags
    <2>6. Quiet(u) /\ Buffers(u)
      BY <2>4, <2>5 DEF Quiet, Buffers, Untouched, Alike
    <2>7. Keeps(s, u, p) /\ Good(u, p)
      BY <2>3, <2>4, <2>6, UntouchedGood
    <2>8. u.state \notin Ending
      BY <2>4 DEF Untouched, Ending
    <2>9. Keeps(u, t, p)
      BY <2>1, <2>4, <2>5, <2>7, <2>8, SendEmptyGood
    <2> QED
      BY <1>1, <2>7, <2>9, KeepsOn
  <1>5. CASE m.flags = "FIN+ACK" /\ m.seq = s.nextRx
    <2>1. t = PeerClose(c, m)
      BY <1>5 DEF ProcessSynRcvd, c
    <2>2. Keeps(s, c, p)
      BY <1>1, <1>2, <1>5, JoinGood
    <2>3. Good(c, p) /\ c.connected /\ c.endPoint /\ Grows(s, c)
      BY <1>2, <2>2 DEF Keeps, Joins
    <2>4. Said(p, c, m)
      BY <1>1, <1>2, <2>3, HeardGrows
    <2>5. Keeps(c, t, p)
      BY <1>5, <2>1, <2>3, <2>4, PeerCloseGood
    <2> QED
      BY <1>1, <2>2, <2>5, KeepsOn
  <1>6. CASE \/ m.flags = "FIN+ACK" /\ m.seq # s.nextRx
             \/ m.flags \in {"RST", "SYN+ACK"} \/ (m.flags = "ACK" /\ m.ack # s.nextTx + 1)
    <2>1. t \in {s, CloseAndNotify(s), CloseAndNotify(SendRST(s))}
      BY <1>6 DEF ProcessSynRcvd
    <2>2. Keeps(s, s, p) /\ Keeps(s, CloseAndNotify(s), p)
          /\ Keeps(s, CloseAndNotify(SendRST(s)), p)
      BY KeepsNothing, CloseAndNotifyGood, AbortGood
    <2> QED
      BY <2>1, <2>2
  <1> QED
    BY <1>1, <1>3, <1>4, <1>5, <1>6 DEF Flags

-----------------------------------------------------------------------------
(* Steps of one socket, seen by both *)

\* After a step of a socket from s to t, both sockets know of each other what
\* they should, and the segments of both stay true.
Known(s, t, p) ==
    /\ t \in SocketType
    /\ Sends(t, p) /\ Takes(t, p) /\ Sends(p, t) /\ Takes(p, t)
    /\ \A m \in Segments : Said(s, p, m) => Said(t, p, m)
    /\ \A m \in Segments : Said(p, s, m) => Said(p, t, m)
    /\ \A i \in 1..Len(t.out) : Said(t, p, t.out[i])

LEMMA SettledGood ==
    ASSUME NEW x, NEW s, NEW p \in SocketType, Settled(x, s), Sends(s, p), Takes(s, p)
    PROVE  Good(s, p)
  <1>1. s.out = <<>>
    BY DEF Settled
  <1>2. s \in SocketType /\ Quiet(s)
    BY DEF Settled, Sound, Sane, Fresh, Blank
  <1>3. CASE s.connected
    <2>1. Buffers(s)
      BY <1>3 DEF Settled, Sound, Sane
    <2> QED
      BY <1>1, <1>2, <2>1 DEF Good
  <1>4. CASE ~ s.connected
    <2>1. /\ s.lost = {} /\ s.held = {} /\ s.head = 0 /\ s.nextTx = 0 /\ s.highTx = 0
      BY <1>4 DEF Settled, Fresh, Blank
    <2>2. s.tail \in Nat
      BY <1>2, Fields
    <2>3. Buffers(s)
      BY <2>1, <2>2, FS_EmptySet DEF Buffers
    <2> QED
      BY <1>1, <1>2, <2>3 DEF Good
  <1> QED
    BY <1>3, <1>4

LEMMA KeepsKnown ==
    ASSUME NEW s \in SocketType, NEW t, NEW p, Keeps(s, t, p), Sends(p, s), Takes(p, s)
    PROVE  Known(s, t, p)
  <1>1. t \in SocketType /\ p \in SocketType /\ Sends(t, p) /\ Takes(t, p) /\ Grows(s, t)
        /\ \A i \in 1..Len(t.out) : Said(t, p, t.out[i])
    BY DEF Keeps, Good
  <1>2. /\ s.nextRx \in Nat /\ s.highTx \in Nat /\ t.nextRx \in Nat /\ t.highTx \in Nat
        /\ p.nextRx \in Nat /\ p.highTx \in Nat /\ p.head \in Nat /\ p.nextTx \in Nat
    BY <1>1, Fields
  <1>3. /\ t.nextRx >= s.nextRx /\ t.highTx >= s.highTx /\ t.written = s.written
        /\ s.behind => t.behind
        /\ Over(s) => Over(t)
    BY <1>1 DEF Grows
  <1>4. Beyond(t, p) /\ Beyond(p, t)
    BY <1>1 DEF Sends, Takes
  <1>5. Sends(p, t)
    BY <1>2, <1>3, <1>4 DEF Sends
  <1>6. Takes(p, t)
    <2>1. p.nextRx <= 1 \/ p.nextRx <= t.highTx \/ Finished(p)
      BY <1>2, <1>3 DEF Takes
    <2>2. \A q \in p.taken : 1 <= q /\ q < t.highTx
      <3>1. p.taken \in SUBSET Nat
        BY <1>1, Fields
      <3> QED
        BY <1>2, <1>3, <3>1 DEF Takes
    <2> QED
      BY <1>3, <1>4, <2>1, <2>2 DEF Takes
  <1>7. \A m \in Segments : Said(s, p, m) => Said(t, p, m)
    BY <1>1, SaidGrows
  <1>8. \A m \in Segments : Said(p, s, m) => Said(p, t, m)
    BY <1>1, HeardGrows
  <1> QED
    BY <1>1, <1>5, <1>6, <1>7, <1>8 DEF Known

\* Send: data after ShutdownSend is behind its FIN, any other is the next.
LEMMA SendKnown ==
    ASSUME NEW s, NEW p, Good(s, p), s.out = <<>>, Sends(p, s), Takes(p, s), ~ s.closed,
           s.state # "FIN_WAIT_2", NEW pending \in BOOLEAN
    PROVE  Known(s, [s EXCEPT !.tail = @ + 1, !.written = @ + 1,
                              !.behind = s.behind \/ s.shutdownSend,
                              !.sendPending = pending], p)
  <1> DEFINE tail == s.tail + 1
             written == s.written + 1
             behind == s.behind \/ s.shutdownSend
             t == [s EXCEPT !.tail = tail, !.written = written,
                            !.behind = behind, !.sendPending = pending]
  <1>1. s \in SocketType /\ p \in SocketType /\ Sends(s, p) /\ Takes(s, p)
    BY DEF Good
  <1>2. /\ s.tail \in Nat /\ s.written \in Nat /\ tail \in Nat /\ written \in Nat
        /\ behind \in BOOLEAN /\ s.head \in Nat /\ p.nextRx \in Nat
        /\ p.taken \in SUBSET Nat
    BY <1>1, Fields
  <1>3. tail = s.tail + 1 /\ written = s.written + 1 /\ (behind <=> s.behind \/ s.shutdownSend)
    OBVIOUS
  <1>4. t = [s EXCEPT !.tail = @ + 1, !.written = @ + 1,
                      !.behind = s.behind \/ s.shutdownSend, !.sendPending = pending]
    OBVIOUS
  <1> HIDE DEF tail, written, behind
  <1>5. t \in SocketType
    BY <1>1, <1>2, Update
  <1>6. /\ t.tail = tail /\ t.written = written /\ t.behind = behind
        /\ t.state = s.state /\ t.endPoint = s.endPoint /\ t.retx = s.retx /\ t.out = s.out
        /\ t.head = s.head /\ t.nextTx = s.nextTx /\ t.highTx = s.highTx
        /\ t.held = s.held /\ t.fin = s.fin /\ t.nextRx = s.nextRx /\ t.taken = s.taken
        /\ t.connected = s.connected /\ t.closed = s.closed
        /\ t.closeOnEmpty = s.closeOnEmpty /\ t.shutdownSend = s.shutdownSend
    BY <1>1 DEF SocketType
  <1> HIDE DEF t
  <1>7. Over(t) <=> Over(s)
    BY <1>6 DEF Over
  <1>8. ~ t.behind => ~ s.behind /\ ~ Over(s)
    BY <1>3, <1>6 DEF Over
  <1>9. Counted(t)
    <2>1. Counted(s)
      BY <1>1 DEF Sends
    <2>2. ASSUME ~ t.behind
          PROVE  s.tail = IF s.connected THEN s.written + 1 ELSE s.written
      BY <1>8, <2>1, <2>2 DEF Counted
    <2>3. ASSUME ~ t.behind
          PROVE  t.tail = IF t.connected THEN t.written + 1 ELSE t.written
      BY <1>2, <1>3, <1>6, <2>2, <2>3
    <2>4. t.tail \in Nat /\ t.written \in Nat
      BY <1>2, <1>6
    <2> QED
      BY <2>3, <2>4 DEF Counted
  <1>10. Beyond(p, t)
    <2>1. Beyond(p, s)
      BY <1>1 DEF Sends
    <2>2. p.nextRx > t.written + 1 => p.nextRx > s.written + 1
      BY <1>2, <1>3, <1>6
    <2> QED
      BY <1>7, <1>8, <2>1, <2>2 DEF Beyond
  <1>11. Beyond(t, p) /\ Beyond(s, p)
    BY <1>1, <1>6 DEF Takes, Beyond
  <1>12. Sends(t, p)
    BY <1>1, <1>6, <1>7, <1>9, <1>10 DEF Sends
  <1>13. Takes(t, p)
    BY <1>1, <1>6, <1>11 DEF Takes, Finished
  <1>14. Sends(p, t)
    BY <1>6, <1>11 DEF Sends
  <1>15. Takes(p, t)
    <2>1. ASSUME ~ t.behind
          PROVE  /\ \A q \in p.taken : q <= t.written
                 /\ \A q \in 1..t.written : q < p.nextRx => q \in p.taken
                 /\ p.fin = None
      <3>1. /\ \A q \in p.taken : q <= s.written
            /\ \A q \in 1..s.written : q < p.nextRx => q \in p.taken
            /\ p.fin = None
        BY <1>8, <2>1 DEF Takes
      <3>2. ~ p.nextRx > s.written + 1
        BY <1>1, <1>8, <2>1 DEF Sends, Beyond
      <3>3. \A q \in p.taken : q <= t.written
        BY <1>2, <1>3, <1>6, <3>1
      <3>4. \A q \in 1..t.written : q < p.nextRx => q \in 1..s.written
        BY <1>2, <1>3, <1>6, <3>2
      <3> QED
        BY <3>1, <3>3, <3>4
    <2> QED
      BY <1>6, <1>8, <1>10, <2>1 DEF Takes
  <1>16. ASSUME NEW m \in Segments, Said(s, p, m) PROVE Said(t, p, m)
    <2>1. m.seq \in Nat
      BY DEF Segments
    <2> QED
      BY <1>2, <1>3, <1>6, <1>7, <1>8, <1>16, <2>1 DEF Said
  <1>17. ASSUME NEW m \in Segments, Said(p, s, m) PROVE Said(p, t, m)
    BY <1>6, <1>17 DEF Said
  <1>18. Len(t.out) = 0
    BY <1>6
  <1> QED
    BY <1>4, <1>5, <1>12, <1>13, <1>14, <1>15, <1>16, <1>17, <1>18 DEF Known

-----------------------------------------------------------------------------
(* The connection *)

\* Both sockets, and the segments of each to the other.
DataInv ==
    \A x \in Sockets :
        /\ Sends(sock[x], sock[Peer(x)]) /\ Takes(sock[x], sock[Peer(x)])
        /\ \A m \in net[Peer(x)] : Said(sock[x], sock[Peer(x)], m)

\* Nothing that is known of a socket is about the segments it is emitting.
LEMMA Emptied ==
    ASSUME NEW t \in SocketType, NEW p
    PROVE  LET u == [t EXCEPT !.out = <<>>]
           IN  /\ Sends(t, p) => Sends(u, p)
               /\ Takes(t, p) => Takes(u, p)
               /\ Sends(p, t) => Sends(p, u)
               /\ Takes(p, t) => Takes(p, u)
               /\ \A m : Said(t, p, m) => Said(u, p, m)
               /\ \A m : Said(p, t, m) => Said(p, u, m)
  <1> DEFINE u == [t EXCEPT !.out = <<>>]
  <1>1. /\ u.state = t.state /\ u.endPoint = t.endPoint /\ u.connected = t.connected
        /\ u.head = t.head /\ u.tail = t.tail /\ u.nextTx = t.nextTx /\ u.highTx = t.highTx
        /\ u.nextRx = t.nextRx /\ u.held = t.held /\ u.fin = t.fin /\ u.retx = t.retx
        /\ u.closeOnEmpty = t.closeOnEmpty /\ u.shutdownSend = t.shutdownSend
        /\ u.written = t.written /\ u.closed = t.closed /\ u.taken = t.taken
        /\ u.behind = t.behind
    BY DEF SocketType
  <1> HIDE DEF u
  <1>2. /\ Over(u) <=> Over(t)
        /\ Finished(u) <=> Finished(t)
        /\ Counted(u) <=> Counted(t)
        /\ Beyond(u, p) <=> Beyond(t, p)
        /\ Beyond(p, u) <=> Beyond(p, t)
    <2>1. (Over(u) <=> Over(t)) /\ (Finished(u) <=> Finished(t))
      BY <1>1 DEF Over, Finished
    <2> QED
      BY <1>1, <2>1 DEF Counted, Beyond
  <1>3. Sends(t, p) => Sends(u, p)
    BY <1>1, <1>2 DEF Sends
  <1>4. Takes(t, p) => Takes(u, p)
    BY <1>1, <1>2 DEF Takes
  <1>5. Sends(p, t) => Sends(p, u)
    BY <1>1, <1>2 DEF Sends
  <1>6. Takes(p, t) => Takes(p, u)
    BY <1>1, <1>2 DEF Takes
  <1>7. \A m : (Said(t, p, m) => Said(u, p, m)) /\ (Said(p, t, m) => Said(p, u, m))
    BY <1>1, <1>2 DEF Said
  <1> QED
    BY <1>3, <1>4, <1>5, <1>6, <1>7 DEF u

\* A step of socket x that takes segments from the network and queues what the
\* socket emitted.
LEMMA StepInforms ==
    ASSUME IInv, DataInv, NEW x \in Sockets, NEW t, Known(sock[x], t, sock[Peer(x)]),
           Becomes(x, t), NEW left \in SUBSET net[x],
           net' = [net EXCEPT ![x] = left, ![Peer(x)] = Queue(@, t.out)]
    PROVE  DataInv'
  <1> DEFINE u == [t EXCEPT !.out = <<>>]
             s == sock[x]
             y == Peer(x)
             p == sock[y]
             queue == Queue(net[y], t.out)
  <1>1. /\ DOMAIN sock = Sockets
        /\ net \in [Sockets -> SUBSET Segments] /\ \A z \in Sockets : IsFiniteSet(net[z])
    BY DEF IInv, NetOK
  <1>2. y \in Sockets /\ y # x /\ (\A z \in Sockets : z = x \/ z = y) /\ Peer(y) = x
    BY Peers
  <1>3. /\ t \in SocketType
        /\ Sends(t, p) /\ Takes(t, p) /\ Sends(p, t) /\ Takes(p, t)
        /\ \A m \in Segments : Said(s, p, m) => Said(t, p, m)
        /\ \A m \in Segments : Said(p, s, m) => Said(p, t, m)
        /\ \A i \in 1..Len(t.out) : Said(t, p, t.out[i])
    BY DEF Known
  <1>4. t.out \in Seq(Segments)
    BY <1>3, Fields
  <1>5. sock'[x] = u /\ sock'[y] = p
    BY <1>1, <1>2 DEF Becomes
  <1>6. net'[x] = left /\ net'[y] = queue
    BY <1>1, <1>2
  <1>7. /\ queue \in SUBSET Segments
        /\ \A m \in queue : m \in net[y] \/ \E i \in 1..Len(t.out) : m = t.out[i]
    BY <1>1, <1>2, <1>4, QueueFacts
  <1>8. /\ Sends(t, p) => Sends(u, p)
        /\ Takes(t, p) => Takes(u, p)
        /\ Sends(p, t) => Sends(p, u)
        /\ Takes(p, t) => Takes(p, u)
        /\ \A m : Said(t, p, m) => Said(u, p, m)
        /\ \A m : Said(p, t, m) => Said(p, u, m)
    BY <1>3, Emptied
  <1>9. /\ \A m \in net[y] : Said(s, p, m)
        /\ \A m \in net[x] : Said(p, s, m)
    BY <1>2 DEF DataInv
  <1> HIDE DEF u, y, p, s, queue
  <1>10. \A m \in queue : Said(u, p, m)
    BY <1>3, <1>7, <1>8, <1>9
  <1>11. \A m \in left : Said(p, u, m)
    BY <1>1, <1>3, <1>8, <1>9
  <1>12. /\ Sends(sock'[x], sock'[y]) /\ Takes(sock'[x], sock'[y])
         /\ \A m \in net'[y] : Said(sock'[x], sock'[y], m)
    BY <1>3, <1>5, <1>6, <1>8, <1>10
  <1>13. /\ Sends(sock'[y], sock'[x]) /\ Takes(sock'[y], sock'[x])
         /\ \A m \in net'[x] : Said(sock'[y], sock'[x], m)
    BY <1>3, <1>5, <1>6, <1>8, <1>11
  <1>14. Peer(x) = y /\ Peer(y) = x
    BY <1>2 DEF y
  <1> QED
    BY <1>2, <1>12, <1>13, <1>14 DEF DataInv

\* The same for a step that takes nothing from the network.
LEMMA OwnStepInforms ==
    ASSUME IInv, DataInv, NEW x \in Sockets, NEW t, Known(sock[x], t, sock[Peer(x)]),
           Step(x, t)
    PROVE  DataInv'
  <1>1. net \in [Sockets -> SUBSET Segments]
    BY DEF IInv, NetOK
  <1>2. net' = [net EXCEPT ![x] = net[x], ![Peer(x)] = Queue(@, t.out)]
    BY <1>1, Peers DEF Step
  <1>3. net[x] \in SUBSET net[x] /\ Becomes(x, t)
    BY DEF Step
  <1> QED
    BY <1>2, <1>3, StepInforms

\* Where a step starts from.
LEMMA Before ==
    ASSUME IInv, DataInv, NEW x \in Sockets
    PROVE  LET s == sock[x]
               p == sock[Peer(x)]
           IN  /\ Settled(x, s) /\ s \in SocketType /\ Good(s, p)
               /\ Sends(p, s) /\ Takes(p, s) /\ p \in SocketType
  <1> DEFINE s == sock[x]
             p == sock[Peer(x)]
  <1>1. Peer(x) \in Sockets /\ Peer(Peer(x)) = x
    BY Peers
  <1>2. Settled(x, s) /\ Settled(Peer(x), p)
    BY <1>1 DEF IInv
  <1>3. s \in SocketType /\ p \in SocketType
    BY <1>2 DEF Settled, Sound, Sane, Fresh, Blank
  <1>4. Sends(s, p) /\ Takes(s, p) /\ Sends(p, s) /\ Takes(p, s)
    BY <1>1 DEF DataInv
  <1>5. Good(s, p)
    BY <1>2, <1>3, <1>4, SettledGood
  <1> QED
    BY <1>2, <1>3, <1>4, <1>5

\* A step of a handler that keeps what a socket knows.
LEMMA KeepsInforms ==
    ASSUME IInv, DataInv, NEW x \in Sockets, NEW t, Keeps(sock[x], t, sock[Peer(x)]),
           Step(x, t)
    PROVE  DataInv'
  <1>1. Known(sock[x], t, sock[Peer(x)])
    BY Before, KeepsKnown
  <1> QED
    BY <1>1, OwnStepInforms

-----------------------------------------------------------------------------
(* One lemma per action *)

LEMMA ConnectInforms ==
    ASSUME IInv, DataInv, NEW x \in Sockets, Connect(x)
    PROVE  DataInv'
  <1> DEFINE s == sock[x]
             p == sock[Peer(x)]
             u == [s EXCEPT !.endPoint = TRUE, !.synCount = SynRetries,
                            !.dataRetrCount = DataRetries]
             a == SendEmptyPacket(u, "SYN")
             t == [a EXCEPT !.state = "SYN_SENT"]
  <1>1. s = NewSocket /\ Step(x, t)
    BY DEF Connect
  <1>2. s \in SocketType /\ Good(s, p)
    BY Before
  <1>3. u \in SocketType
    <2>1. SynRetries \in 0..SynRetries /\ DataRetries \in 0..DataRetries
      BY TcpAssumption
    <2> QED
      BY <1>2, <2>1, Update
  <1>4. /\ Alike(s, u) /\ u.behind = s.behind /\ u.out = s.out /\ u.lost = s.lost
        /\ u.closed = s.closed /\ u.closeOnEmpty = s.closeOnEmpty
        /\ u.shutdownSend = s.shutdownSend
        /\ u.state = s.state /\ u.retx = s.retx /\ u.endPoint
    BY <1>2 DEF SocketType, Alike
  <1> HIDE DEF u
  <1>5. u.state = "CLOSED" /\ u.retx = "off" /\ u.nextTx = 0
    BY <1>1, <1>4, NewSocketFresh DEF Alike, Blank
  <1>6. Quiet(u) /\ Buffers(u)
    BY <1>2, <1>4 DEF Good, Quiet, Buffers, Alike
  <1>7. Keeps(s, u, p)
    <2>1. (Over(s) => Over(u)) /\ (u.closeOnEmpty => s.closeOnEmpty \/ Over(u))
      BY <1>4 DEF Over
    <2>2. /\ u.state = "FIN_WAIT_2" =>
                s.state = "FIN_WAIT_2" \/ (s.head = s.tail /\ s.highTx < p.nextRx)
          /\ u.endPoint /\ (u.retx = "FIN+ACK" \/ u.state \in Ending) => Over(u)
      BY <1>5 DEF Ending
    <2> HIDE DEF s, p
    <2> QED
      BY <1>2, <1>3, <1>4, <1>6, <2>1, <2>2, AlikeKeeps
  <1>8. Good(u, p) /\ "SYN" \in Flags /\ u.state \notin Ending
    BY <1>5, <1>7 DEF Keeps, Flags, Ending
  <1>9. Keeps(u, a, p)
    BY <1>5, <1>8, SendEmptyGood
  <1> HIDE DEF a
  <1>10. Good(a, p)
    BY <1>9 DEF Keeps
  <1>11. Keeps(a, t, p)
    <2>1. "SYN_SENT" \in State /\ "SYN_SENT" \notin Ending
      BY DEF State, Ending
    <2> QED
      BY <1>10, <2>1, StateGood
  <1> HIDE DEF t
  <1>12. Keeps(s, a, p)
    BY <1>2, <1>7, <1>9, KeepsOn
  <1>13. Keeps(s, t, p)
    BY <1>2, <1>11, <1>12, KeepsOn
  <1> QED
    BY <1>1, <1>13, KeepsInforms

\* CompleteFork.
LEMMA ForkGood ==
    ASSUME NEW p, Good(NewSocket, p), NEW m \in Segments, m.flags = "SYN",
           Said(p, NewSocket, m)
    PROVE  Keeps(NewSocket, CompleteFork(m), p)
  <1> DEFINE s == NewSocket
             n == m.seq + 1
             u == [NewSocket EXCEPT !.endPoint = TRUE, !.state = "SYN_RCVD",
                                    !.synCount = SynRetries, !.dataRetrCount = DataRetries,
                                    !.nextRx = n]
             t == SendEmptyPacket(u, "SYN+ACK")
  <1>1. n = 1
    BY DEF Said
  <1> HIDE DEF n
  <1>2. s \in SocketType /\ p \in SocketType /\ Sends(s, p) /\ Takes(s, p)
    BY DEF Good
  <1>3. u \in SocketType
    <2>1. SynRetries \in 0..SynRetries /\ DataRetries \in 0..DataRetries /\ "SYN_RCVD" \in State
      BY TcpAssumption DEF State
    <2> QED
      BY <1>1, <2>1, NewSocketFresh, Update
  <1>4. /\ s.nextRx = 0 /\ s.highTx = 0 /\ s.taken = {} /\ ~ s.behind /\ ~ s.connected
        /\ s.written = 0 /\ ~ s.closed /\ ~ s.shutdownSend /\ s.out = <<>>
    BY DEF NewSocket
  <1>5. /\ u.nextRx = 1 /\ u.head = 0 /\ u.tail = 0 /\ u.nextTx = 0 /\ u.highTx = 0
        /\ u.lost = {} /\ u.held = {} /\ u.fin = None /\ u.taken = {} /\ ~ u.behind
        /\ ~ u.connected /\ u.written = 0 /\ ~ u.closed /\ ~ u.shutdownSend
        /\ ~ u.closeOnEmpty /\ u.out = <<>> /\ u.endPoint /\ u.retx = "off"
        /\ u.state = "SYN_RCVD"
    BY <1>1 DEF NewSocket
  <1> HIDE DEF u
  <1>6. p.nextRx \in Nat /\ p.written \in Nat
    BY <1>2, Fields
  <1>7. Sends(u, p)
    <2>1. Beyond(p, u)
      BY <1>2, <1>4, <1>5 DEF Sends, Beyond, Over
    <2>2. Counted(u)
      BY <1>5 DEF Counted
    <2> QED
      BY <1>5, <1>6, <2>1, <2>2 DEF Sends, Ending
  <1>8. Takes(u, p)
    <2>1. Beyond(u, p)
      BY <1>5, <1>6 DEF Beyond
    <2>2. \A q \in 1..p.written : ~ q < 1
      OBVIOUS
    <2> QED
      BY <1>5, <2>1, <2>2 DEF Takes
  <1>9. Good(u, p)
    <2>1. Quiet(u) /\ Buffers(u)
      BY <1>5, FS_EmptySet DEF Quiet, Buffers
    <2>2. Len(u.out) = 0
      BY <1>5
    <2> QED
      BY <1>2, <1>3, <1>7, <1>8, <2>1, <2>2 DEF Good
  <1>10. Keeps(s, u, p)
    BY <1>4, <1>5, <1>9 DEF Keeps, Grows, Over
  <1>11. Keeps(u, t, p)
    <2>1. u.nextTx = 0 /\ u.state \notin Ending /\ "SYN+ACK" \in Flags
      BY <1>5 DEF Ending, Flags
    <2> QED
      BY <1>9, <2>1, SendEmptyGood
  <1> HIDE DEF t
  <1>12. CompleteFork(m) = t
    BY DEF CompleteFork, t, u, n
  <1> HIDE DEF s
  <1>13. Keeps(s, t, p)
    BY <1>2, <1>10, <1>11, KeepsOn
  <1> QED
    BY <1>12, <1>13 DEF s

\* The answer of TcpL4Protocol.
LEMMA ResetGood ==
    ASSUME NEW s, NEW p, Good(s, p), s.out = <<>>
    PROVE  Keeps(s, Transmit(s, "RST", 0, 0), p)
  <1> DEFINE m == [flags |-> "RST", seq |-> 0, ack |-> 0, len |-> 0]
             t == [s EXCEPT !.out = <<m>>]
  <1>1. s \in SocketType /\ p \in SocketType /\ Quiet(s) /\ Sends(s, p)
    BY DEF Good
  <1>2. m \in Segments /\ m.flags = "RST" /\ m.ack = 0 /\ m.len = 0
    BY DEF Segments, Flags
  <1>3. Transmit(s, "RST", 0, 0) = t
    BY <1>1 DEF Transmit
  <1> HIDE DEF m
  <1>4. t \in SocketType
    <2>1. <<m>> \in Seq(Segments)
      BY <1>2
    <2> QED
      BY <1>1, <2>1, Update
  <1>5. /\ Same(s, t) /\ t.state = s.state /\ t.behind = s.behind /\ t.out = <<m>>
        /\ t.endPoint = s.endPoint /\ t.retx = s.retx /\ t.lastAck = s.lastAck
        /\ t.delAck = s.delAck /\ t.sendPending = s.sendPending
    BY <1>1 DEF SocketType, Same
  <1> HIDE DEF t
  <1>6. t.out = Append(s.out, m)
    BY <1>5
  <1>7. Quiet(t)
    BY <1>1, <1>5 DEF Quiet
  <1>8. Said(t, p, m)
    <2>1. t.nextRx \in Nat
      BY <1>4, Fields
    <2> QED
      BY <1>2, <2>1 DEF Said
  <1>9. t.endPoint /\ (t.retx = "FIN+ACK" \/ t.state \in Ending) => Over(t)
    BY <1>1, <1>5 DEF Sends, Same, Over
  <1> QED
    BY <1>2, <1>3, <1>4, <1>5, <1>6, <1>7, <1>8, <1>9, EmitKeeps

LEMMA SendInforms ==
    ASSUME IInv, DataInv, NEW x \in Sockets, Send(x)
    PROVE  DataInv'
  <1> DEFINE s == sock[x]
             p == sock[Peer(x)]
             u == [s EXCEPT !.tail = @ + 1, !.written = @ + 1,
                            !.behind = @ \/ s.shutdownSend]
             Pending(cwnd) ==
                \/ u.sendPending
                \/ ~ u.shutdownSend /\ u.state # "SYN_SENT" /\ cwnd > InFlight(u)
  <1>1. PICK cwnd \in CWnd : Step(x, [u EXCEPT !.sendPending = Pending(cwnd)])
    BY DEF Send
  <1> DEFINE pending == Pending(cwnd)
             t == [s EXCEPT !.tail = @ + 1, !.written = @ + 1,
                            !.behind = s.behind \/ s.shutdownSend, !.sendPending = pending]
  <1>2. s \in SocketType /\ Good(s, p) /\ Sends(p, s) /\ Takes(p, s) /\ s.out = <<>>
    BY Before DEF Settled
  <1>3. ~ s.closed /\ s.state # "FIN_WAIT_2"
    BY DEF Send
  <1>4. [u EXCEPT !.sendPending = pending] = t
    <2> HIDE DEF pending
    <2> QED
      BY <1>2 DEF SocketType
  <1>5. u.sendPending = s.sendPending
    BY <1>2 DEF SocketType
  <1> HIDE DEF u
  <1>6. pending \in BOOLEAN
    BY <1>2, <1>5, Fields
  <1> HIDE DEF pending, s, p
  <1>7. Known(s, t, p)
    BY <1>2, <1>3, <1>6, SendKnown
  <1> HIDE DEF t
  <1>8. Step(x, t)
    BY <1>1, <1>4 DEF pending
  <1> QED
    BY <1>7, <1>8, OwnStepInforms DEF s, p

\* Who still holds its socket is connected or has sent its SYN.
LEMMA HoldsOpen ==
    ASSUME IInv, NEW x \in Sockets, Holds(x)
    PROVE  sock[x].connected \/ sock[x].state = "SYN_SENT"
  BY HoldsFacts, TcpAssumption DEF Settled, Fresh

LEMMA CallsInform ==
    ASSUME IInv, DataInv, NEW x \in Sockets, AppClose(x) \/ AppShutdownSend(x)
    PROVE  DataInv'
  <1> DEFINE s == sock[x]
             p == sock[Peer(x)]
  <1>1. Good(s, p) /\ (s.connected \/ s.state = "SYN_SENT")
    BY Before, HoldsOpen DEF AppClose, AppShutdownSend
  <1>2. CASE AppClose(x)
    <2> DEFINE t == Close([s EXCEPT !.closed = TRUE])
    <2>1. Step(x, t)
      BY <1>2 DEF AppClose
    <2>2. Keeps(s, t, p)
      BY <1>1, AppCloseGood
    <2> HIDE DEF t
    <2> QED
      BY <2>1, <2>2, KeepsInforms
  <1>3. CASE AppShutdownSend(x)
    <2>1. Step(x, ShutdownSend(s))
      BY <1>3 DEF AppShutdownSend
    <2>2. Keeps(s, ShutdownSend(s), p)
      BY <1>1, ShutdownSendGood
    <2> QED
      BY <2>1, <2>2, KeepsInforms
  <1> QED
    BY <1>2, <1>3

LEMMA TimersInform ==
    ASSUME IInv, DataInv, NEW x \in Sockets,
           \/ SendPendingEvent(x)
           \/ RetxTimer(x) \/ DelAckTimer(x) \/ LastAckTimer(x) \/ TimeWaitTimer(x)
    PROVE  DataInv'
  <1> DEFINE s == sock[x]
             p == sock[Peer(x)]
  <1>1. Settled(x, s) /\ Good(s, p)
    BY Before
  <1>2. CASE SendPendingEvent(x)
    <2> DEFINE t(cwnd) == SendPendingData([s EXCEPT !.sendPending = FALSE], cwnd)
    <2>1. PICK cwnd \in CWnd : Step(x, t(cwnd))
      BY <1>2 DEF SendPendingEvent
    <2>2. cwnd \in Nat
      BY TcpAssumption
    <2>3. s.connected
      BY <1>1, <1>2 DEF SendPendingEvent, Settled, Fresh, Blank
    <2>4. Keeps(s, t(cwnd), p)
      BY <1>1, <2>2, <2>3, PendingGood
    <2> HIDE DEF t
    <2> QED
      BY <2>1, <2>4, KeepsInforms
  <1>3. CASE RetxTimer(x)
    <2>1. Step(x, RetxExpired(s)) /\ s.retx # "off"
      BY <1>3 DEF RetxTimer
    <2>2. Keeps(s, RetxExpired(s), p)
      BY <1>1, <2>1, RetxExpiredGood
    <2> QED
      BY <2>1, <2>2, KeepsInforms
  <1>4. CASE DelAckTimer(x)
    <2>1. Step(x, DelAckTimeout(s))
      BY <1>4 DEF DelAckTimer
    <2>2. Keeps(s, DelAckTimeout(s), p)
      BY <1>1, DelAckTimeoutGood
    <2> QED
      BY <2>1, <2>2, KeepsInforms
  <1>5. CASE LastAckTimer(x)
    <2>1. Step(x, LastAckTimeout(s)) /\ s.lastAck
      BY <1>5 DEF LastAckTimer
    <2>2. s.connected
      BY <1>1, <2>1 DEF Settled, Fresh, Blank
    <2>3. Keeps(s, LastAckTimeout(s), p)
      BY <1>1, <2>1, <2>2, LastAckTimeoutGood
    <2> QED
      BY <2>1, <2>3, KeepsInforms
  <1>6. CASE TimeWaitTimer(x)
    <2>1. Step(x, CloseAndNotify(s))
      BY <1>6 DEF TimeWaitTimer
    <2>2. Keeps(s, CloseAndNotify(s), p)
      BY <1>1, CloseAndNotifyGood
    <2> QED
      BY <2>1, <2>2, KeepsInforms
  <1> QED
    BY <1>2, <1>3, <1>4, <1>5, <1>6

LEMMA ForwardUpKeeps ==
    ASSUME IInv, DataInv, NEW x \in Sockets, sock[x].endPoint, NEW m \in net[x],
           NEW cwnd \in Nat
    PROVE  Keeps(sock[x], ForwardUp(sock[x], m, cwnd), sock[Peer(x)])
  <1> DEFINE s == sock[x]
             p == sock[Peer(x)]
             t == ForwardUp(s, m, cwnd)
  <1>1. Settled(x, s) /\ Good(s, p) /\ m \in Segments
    BY Before DEF IInv, NetOK
  <1>2. Said(p, s, m)
    BY Peers DEF DataInv
  <1>3. CASE s.connected
    <2>1. s.state \notin {"SYN_SENT", "SYN_RCVD"}
      BY <1>1, <1>3 DEF Settled
    <2> QED
      BY <1>1, <1>2, <1>3, <2>1, ConnectedGood
  <1>4. CASE ~ s.connected /\ s.state = "SYN_SENT"
    <2>1. Blank(s)
      BY <1>1, <1>4 DEF Settled, Fresh
    <2>2. t = ProcessSynSent(s, m, cwnd)
      BY <1>4 DEF ForwardUp, OutOfRange
    <2> QED
      BY <1>1, <1>2, <2>1, <2>2, ProcessSynSentGood
  <1>5. CASE ~ s.connected /\ s.state # "SYN_SENT"
    <2>1. Fresh(x, s) /\ x = Server /\ s.state = "SYN_RCVD"
      BY <1>1, <1>5 DEF Settled, Fresh
    <2>2. t = ProcessSynRcvd(s, m, cwnd)
      BY <2>1 DEF ForwardUp, OutOfRange
    <2>3. m.flags = "FIN+ACK" => p.nextRx >= 1
      <3>1. p = sock[Client] /\ Settled(Client, p)
        BY <2>1, Peers DEF IInv
      <3>2. m.flags = "FIN+ACK" => p.connected
        BY <2>1, <3>1 DEF IInv, NetOK
      <3> QED
        BY <3>1, <3>2 DEF Settled, Sound, Sane, Live
    <2> QED
      BY <1>1, <1>2, <2>1, <2>2, <2>3, ProcessSynRcvdGood
  <1> QED
    BY <1>3, <1>4, <1>5

LEMMA ReceiveInforms ==
    ASSUME IInv, DataInv, NEW x \in Sockets, Receive(x)
    PROVE  DataInv'
  <1> DEFINE s == sock[x]
             p == sock[Peer(x)]
  <1>1. PICK m \in net[x], cwnd \in CWnd : Deliver(x, m, cwnd)
    BY DEF Receive
  <1> DEFINE t == IF s.endPoint THEN ForwardUp(s, m, cwnd) ELSE NoEndPoint(x, m)
             left == net[x] \ {m}
  <1>2. /\ Becomes(x, t)
        /\ net' = [net EXCEPT ![x] = left, ![Peer(x)] = Queue(@, t.out)]
    BY <1>1 DEF Deliver
  <1>3. left \in SUBSET net[x]
    OBVIOUS
  <1>4. m \in Segments /\ cwnd \in Nat
    BY TcpAssumption DEF IInv, NetOK
  <1>5. s \in SocketType /\ s.out = <<>> /\ Good(s, p) /\ Sends(p, s) /\ Takes(p, s)
    BY Before DEF Settled
  <1>6. Said(p, s, m)
    BY Peers DEF DataInv
  <1>7. Keeps(s, t, p)
    <2>1. CASE s.endPoint
      BY <1>4, <2>1, ForwardUpKeeps
    <2>2. CASE ~ s.endPoint
      <3>1. t = NoEndPoint(x, m)
        BY <2>2
      <3>2. Keeps(s, s, p) /\ Keeps(s, Transmit(s, "RST", 0, 0), p)
        BY <1>5, KeepsNothing, ResetGood
      <3>3. m.flags = "SYN" /\ s = NewSocket => Keeps(s, CompleteFork(m), p)
        BY <1>4, <1>5, <1>6, ForkGood
      <3>4. \/ t = s \/ t = Transmit(s, "RST", 0, 0)
            \/ t = CompleteFork(m) /\ m.flags = "SYN" /\ s = NewSocket
        BY <3>1 DEF NoEndPoint
      <3> HIDE DEF t
      <3> QED
        BY <3>2, <3>3, <3>4
    <2> QED
      BY <2>1, <2>2
  <1> HIDE DEF t, left
  <1>8. Known(s, t, p)
    BY <1>5, <1>7, KeepsKnown
  <1> QED
    BY <1>2, <1>3, <1>8, StepInforms

LEMMA LoseInforms ==
    ASSUME IInv, DataInv, NEW x \in Sockets, Lose(x)
    PROVE  DataInv'
  <1>1. PICK m \in net[x] : net' = [net EXCEPT ![x] = @ \ {m}]
    BY DEF Lose
  <1>2. sock' = sock
    BY DEF Lose
  <1>3. \A y \in Sockets : net'[y] \subseteq net[y]
    BY <1>1 DEF IInv, NetOK
  <1> QED
    BY <1>2, <1>3, Peers DEF DataInv

LEMMA NextInforms ==
    ASSUME IInv, DataInv, [Next]_vars
    PROVE  DataInv'
  <1>1. CASE UNCHANGED vars
    BY <1>1 DEF DataInv, vars
  <1>2. ASSUME NEW x \in Sockets,
               \/ Connect(x) \/ Send(x) \/ SendPendingEvent(x)
               \/ AppClose(x) \/ AppShutdownSend(x)
               \/ RetxTimer(x) \/ DelAckTimer(x) \/ LastAckTimer(x) \/ TimeWaitTimer(x)
               \/ Receive(x) \/ Lose(x)
        PROVE  DataInv'
    BY <1>2, ConnectInforms, SendInforms, CallsInform, TimersInform, ReceiveInforms,
       LoseInforms
  <1> QED
    BY <1>1, <1>2 DEF Next

LEMMA InitInformed ==
    ASSUME Init
    PROVE  DataInv
  <1> DEFINE s == NewSocket
  <1>1. \A x \in Sockets : sock[x] = s /\ net[x] = {}
    BY DEF Init
  <1>2. /\ s.nextRx = 0 /\ s.head = 0 /\ s.tail = 0 /\ s.nextTx = 0 /\ s.highTx = 0
        /\ s.held = {} /\ s.fin = None /\ s.taken = {} /\ ~ s.behind /\ ~ s.connected
        /\ s.written = 0 /\ ~ s.closed /\ ~ s.shutdownSend /\ ~ s.closeOnEmpty
        /\ ~ s.endPoint /\ s.state = "CLOSED"
    BY DEF NewSocket
  <1> HIDE DEF s
  <1>3. Beyond(s, s) /\ Counted(s)
    BY <1>2 DEF Beyond, Counted
  <1>4. Sends(s, s)
    BY <1>2, <1>3 DEF Sends
  <1>5. Takes(s, s)
    BY <1>2, <1>3 DEF Takes
  <1> QED
    BY <1>1, <1>4, <1>5, Peers DEF DataInv

LEMMA DataInvariance == Spec => [](IInv /\ DataInv)
  <1>1. (IInv /\ DataInv) /\ [Next]_vars => (IInv /\ DataInv)'
    BY NextKeeps, NextInforms
  <1>2. Init => IInv /\ DataInv
    BY InitOK, InitInformed
  <1> QED
    BY <1>1, <1>2, PTL DEF Spec

LEMMA DataAcked ==
    ASSUME IInv, DataInv
    PROVE  AckedIsReceived
  <1> SUFFICES ASSUME NEW x \in Sockets, sock[x].connected, ~ sock[x].behind,
                      NEW q \in 1 .. Lesser(sock[x].written, sock[x].head - 1)
               PROVE  q \in sock[Peer(x)].taken
    BY DEF AckedIsReceived
  <1> DEFINE s == sock[x]
             p == sock[Peer(x)]
  <1>1. s \in SocketType /\ p \in SocketType /\ Good(s, p) /\ Takes(p, s)
    BY Before
  <1>2. s.head <= p.nextRx
    BY <1>1 DEF Good, Sends
  <1>3. s.head \in Nat /\ s.written \in Nat /\ p.nextRx \in Nat
    BY <1>1, Fields
  <1>4. q \in 1..s.written /\ q < p.nextRx
    BY <1>2, <1>3 DEF Lesser
  <1> QED
    BY <1>1, <1>4 DEF Takes

LEMMA DataComplete ==
    ASSUME IInv, DataInv
    PROVE  EofAfterAllData
  <1> SUFFICES ASSUME NEW x \in Sockets
               PROVE  LET s == sock[x]
                          p == sock[Peer(x)]
                      IN  /\ ~ p.behind =>
                                /\ Finished(s) => 1 .. p.written \subseteq s.taken
                                /\ \A q \in s.held : q > s.nextRx
                          /\ s.state = "FIN_WAIT_2" => Finished(p)
    BY DEF EofAfterAllData
  <1> DEFINE s == sock[x]
             p == sock[Peer(x)]
  <1>1. /\ Settled(x, s) /\ s \in SocketType /\ p \in SocketType
        /\ Sends(s, p) /\ Takes(s, p) /\ Takes(p, s)
    BY Before DEF Good
  <1> HIDE DEF s, p
  <1>2. /\ s.nextRx \in Nat /\ s.highTx \in Nat /\ p.nextRx \in Nat /\ p.written \in Nat
        /\ s.fin \in Nat \cup {None}
    BY <1>1, Fields
  <1>3. ASSUME ~ p.behind, Finished(s), NEW q \in 1 .. p.written PROVE q \in s.taken
    <2>1. s.fin # None /\ s.fin < s.nextRx
      BY <1>3 DEF Finished
    <2>2. s.fin >= p.written
      BY <1>1, <1>3, <2>1 DEF Takes
    <2>3. q < s.nextRx
      BY <1>2, <2>1, <2>2
    <2> QED
      BY <1>1, <1>3, <2>3 DEF Takes
  <1>4. ASSUME s.state = "FIN_WAIT_2" PROVE Finished(p)
    <2>1. s.highTx < p.nextRx
      BY <1>1, <1>4 DEF Sends
    <2>2. s.highTx >= 1
      BY <1>1, <1>4 DEF Settled, Fresh, Sound, Sane, Live
    <2> QED
      BY <1>1, <1>2, <2>1, <2>2 DEF Takes
  <1> QED
    BY <1>1, <1>3, <1>4 DEF Takes, s, p

-----------------------------------------------------------------------------
(* The theorems *)

LEMMA SettledConsistent ==
    ASSUME NEW x \in Sockets, NEW s, Settled(x, s)
    PROVE  SocketOK(s) /\ (s.endPoint /\ Awaits(s) => s.retx # "off" \/ s.lastAck)
  <1>1. s \in SocketType /\ s.out = <<>>
    BY DEF Settled, Sound, Sane, Fresh, Blank
  <1>2. CASE s.connected
    <2>1. Buffers(s) /\ Timed(s) /\ Repeats(s) /\ s.state \notin {"SYN_SENT", "SYN_RCVD"}
      BY <1>2 DEF Settled, Sound, Sane
    <2>2. SocketOK(s)
      BY <1>1, <2>1, Fields DEF SocketOK, Buffers, Retx
    <2>3. s.endPoint /\ Awaits(s) => s.retx # "off" \/ s.lastAck
      BY <2>1 DEF Awaits, Timed, Repeats
    <2> QED
      BY <2>2, <2>3
  <1>3. CASE ~ s.connected
    <2>1. Fresh(x, s) /\ s.lost = {} /\ s.head = 0 /\ s.highTx = 0
      BY <1>3 DEF Settled, Fresh, Blank
    <2>2. SocketOK(s)
      BY <1>1, <2>1, Fields DEF SocketOK, Retx
    <2>3. s.endPoint => s.retx # "off"
      BY <2>1 DEF Fresh
    <2> QED
      BY <2>2, <2>3
  <1> QED
    BY <1>2, <1>3

LEMMA IInvConsistent ==
    ASSUME IInv
    PROVE  Consistent
  <1>1. \A x \in Sockets : SocketOK(sock[x])
    BY SettledConsistent DEF IInv
  <1>2. \A x \in Sockets, m \in UNION {net[y] : y \in Sockets} :
            m.flags \in Flags /\ m.len \in {0, 1}
    BY DEF IInv, NetOK, Segments
  <1>3. RetransmissionCovered
    BY SettledConsistent DEF IInv, RetransmissionCovered
  <1> QED
    BY <1>1, <1>2, <1>3 DEF Consistent, TypeOK, IInv

LEMMA Invariance == Spec => []IInv
  <1>1. IInv /\ [Next]_vars => IInv'
    BY NextKeeps
  <1> QED
    BY InitOK, <1>1, PTL DEF Spec

\* Every counter of both sockets stays within its attribute, the send buffer
\* holds what was marked lost, and while a SYN, a FIN or data waits for its
\* acknowledgment a timer runs that will send it again: SendEmptyPacket,
\* SendPendingData, ReTxTimeout, LastAckTimeout and the Process functions leave
\* no connection silent, whatever the network does and however many segments
\* are written.
THEOREM ConnectionConsistent == Spec => []Consistent
  BY Invariance, IInvConsistent, PTL

\* A forked socket reaches m_connected (ProcessSynRcvd) only after the client
\* did, and the client (ProcessSynSent) only after the listener took its SYN,
\* whatever was retransmitted, delayed or lost.
THEOREM HandshakeAgreed == Spec => []HandshakeAgrees
  <1>1. IInv => HandshakeAgrees
    BY DEF IInv
  <1> QED
    BY Invariance, <1>1, PTL

\* The Process functions, Close, ShutdownSend and the timers move m_state along
\* the pairs of Moves only, and a closed socket is never used again.
THEOREM NeverMovesBack == Spec => NeverBackwards
  <1>1. IInv /\ [Next]_vars => [Onwards]_vars
    BY NextKeeps
  <1>2. Spec => [][Onwards]_vars
    BY Invariance, <1>1, PTL DEF Spec
  <1> QED
    BY <1>2 DEF Onwards, NeverBackwards

\* DiscardUpTo frees a segment only when Add of the other socket has stored it,
\* in whatever order segments and acknowledgments arrive and however often the
\* timers send them again; only a sender that wrote behind its FIN is exempt.
THEOREM AckedWasReceived == Spec => []AckedIsReceived
  BY DataInvariance, DataAcked, PTL

\* A receive buffer that takes its FIN for received (Finished of
\* tcp-rx-buffer.cc) has stored everything the other application wrote, unless
\* that one numbered a FIN below its data, and FIN_WAIT_2 is reached only when
\* the other socket has taken the FIN.
THEOREM EofHasAllData == Spec => []EofAfterAllData
  BY DataInvariance, DataComplete, PTL
=============================================================================
