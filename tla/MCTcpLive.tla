----------------------------- MODULE MCTcpLive -----------------------------
(***************************************************************************)
(* Instance of TcpLive for TLC: the client writes one segment.             *)
(***************************************************************************)
EXTENDS TcpLive

CONSTANTS client, server

ClientWritesOne == (client :> 1) @@ (server :> 0)
=============================================================================
