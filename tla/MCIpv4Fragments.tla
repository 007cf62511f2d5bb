-------------------------- MODULE MCIpv4Fragments --------------------------
(* Bounds for checking Ipv4Fragments.                                       *)
EXTENDS Ipv4Fragments, TLC

CONSTANTS unicast, multicast

LongAndShort == unicast :> 4 @@ multicast :> 2
=============================================================================
