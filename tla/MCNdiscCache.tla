---------------------------- MODULE MCNdiscCache ----------------------------
(* Bounds for checking NdiscCache: one neighbour that changes its link-layer *)
(* address.  Entries share only the global address of the interface and      *)
(* Flush, so one neighbour with a longer queue shows more than two with a    *)
(* short one.                                                                *)
EXTENDS NdiscCache

CONSTANTS host, m1, m2, nomac

MCAddr == {host}
MCLinkLocal == {}
MCMacs == {m1, m2}
=============================================================================
