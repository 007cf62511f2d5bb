------------------------------ MODULE TcpLive ------------------------------
(***************************************************************************)
(* TcpConnection under the fairness the simulator gives: every event that  *)
(* stays scheduled runs, and a segment that is not lost arrives.           *)
(* Applications are free to do nothing.                                    *)
(*                                                                         *)
(* An event may change nothing (a FIN sent while its twin is in flight),   *)
(* which WF would take for a stuttering step, so ran names the event each  *)
(* step runs and alternates turn, and fairness is stated about ran.        *)
(***************************************************************************)
EXTENDS TcpConnection

VARIABLE
    ran     \* the event that led to this state

liveVars == <<vars, ran>>

Event == {"sendPending", "retx", "delAck", "lastAck", "timeWait", "receive"}

\* An event of the socket is due.
Due(x, e) ==
    CASE e = "sendPending" -> sock[x].sendPending
      [] e = "retx" -> sock[x].retx # "off"
      [] e = "delAck" -> sock[x].delAck
      [] e = "lastAck" -> sock[x].lastAck
      [] e = "timeWait" -> sock[x].state = "TIME_WAIT" /\ sock[x].endPoint
      [] e = "receive" -> net[x] # {}

Run(x, e) ==
    CASE e = "sendPending" -> SendPendingEvent(x)
      [] e = "retx" -> RetxTimer(x)
      [] e = "delAck" -> DelAckTimer(x)
      [] e = "lastAck" -> LastAckTimer(x)
      [] e = "timeWait" -> TimeWaitTimer(x)
      [] e = "receive" -> Receive(x)

Ran(x, e) == ran' = [socket |-> x, event |-> e, turn |-> ~ ran.turn]

Application(x) == Connect(x) \/ Send(x) \/ AppClose(x) \/ AppShutdownSend(x)

LiveInit == Init /\ ran = [socket |-> Client, event |-> "none", turn |-> FALSE]

LiveNext ==
    \E x \in Sockets :
        \/ \E e \in Event : Run(x, e) /\ Ran(x, e)
        \/ Application(x) /\ Ran(x, "none")
        \/ Lose(x) /\ Ran(x, "none")

Fairness ==
    \A x \in Sockets, e \in Event :
        \/ []<>(~ Due(x, e))
        \/ []<><<ran'.socket = x /\ ran'.event = e>>_liveVars

LiveSpec == LiveInit /\ [][LiveNext]_liveVars /\ Fairness

(***************************************************************************)
(* Properties                                                              *)
(***************************************************************************)

\* A handshake ends: it succeeds, fails after SynRetries, or is reset.
HandshakeEnds ==
    \A x \in Sockets :
        sock[x].state \in {"SYN_SENT", "SYN_RCVD"}
            ~> sock[x].state \notin {"SYN_SENT", "SYN_RCVD"}

\* Data an established connection accepts is acknowledged, or the connection
\* ends: DataRetries bounds the attempts even when nobody answers.
AcceptedDataSettles ==
    \A x \in Sockets :
        (sock[x].state = "ESTABLISHED" /\ TxSize(sock[x]) > 0 /\ ~ sock[x].shutdownSend)
            ~> (TxSize(sock[x]) = 0 \/ ~ sock[x].endPoint)
=============================================================================
