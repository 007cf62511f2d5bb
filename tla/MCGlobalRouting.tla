-------------------------- MODULE MCGlobalRouting --------------------------
(* Bounds for checking GlobalRouting: links 1-2, 1-3 and 3-4, a LAN of 2, 3  *)
(* and 4 and a LAN of 4 alone, so that there are paths as short as others,   *)
(* through links and the LAN, and stub nodes when an interface is down.  The *)
(* metrics of some interfaces vary, router 3's enough that what is found at  *)
(* last overtakes what was found first; the metric of all others is 1.       *)
EXTENDS GlobalRouting, TLC

MCMembers == <<{1, 2}, {1, 3}, {3, 4}, {2, 3, 4}, {4}>>

Variations ==
    (<<1, 1>> :> {1, 3}) @@ (<<2, 1>> :> {1, 2, 3}) @@ (<<3, 3>> :> {1, 4})
    @@ (<<3, 4>> :> {1, 2}) @@ (<<4, 2>> :> {1, 2}) @@ (<<4, 3>> :> {1, 2, 5})

MCMetrics ==
    LET varied == DOMAIN Variations
    IN  {[i \in Interfaces |-> IF i \in varied THEN m[i] ELSE 1] :
            m \in {f \in [varied -> 1..5] : \A i \in varied : f[i] \in Variations[i]}}
=============================================================================
