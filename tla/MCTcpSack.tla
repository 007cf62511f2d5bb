----------------------------- MODULE MCTcpSack -----------------------------
(* Bounds for checking TcpSack.                                             *)
EXTENDS TcpSack
=============================================================================
