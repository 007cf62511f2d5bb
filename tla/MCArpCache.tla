----------------------------- MODULE MCArpCache -----------------------------
(* Bounds for checking ArpCache: two destinations, one that answers and one  *)
(* that never does, so that replies, retries and giving up interleave on the *)
(* one shared timer.                                                         *)
EXTENDS ArpCache

CONSTANTS host, ghost

MCAddr == {host, ghost}
MCHosts == {host}
=============================================================================
