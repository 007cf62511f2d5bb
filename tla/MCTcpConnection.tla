-------------------------- MODULE MCTcpConnection --------------------------
(***************************************************************************)
(* Instances of TcpConnection for TLC: who writes how many segments.       *)
(***************************************************************************)
EXTENDS TcpConnection

CONSTANTS client, server

ServerWritesTwo == (client :> 0) @@ (server :> 2)
=============================================================================
