------------------------------- MODULE MCRip -------------------------------
(* Bounds for checking Rip: a triangle of routers, of which r1 is attached   *)
(* to the destination.  The direct link from r3 costs two, so that both its  *)
(* paths are equally good.                                                   *)
EXTENDS Rip

CONSTANTS r1, r2, r3, stub

MCRouter == {r1, r2, r3}
MCCost ==
    [i \in {<<r1, stub>>, <<r1, r2>>, <<r2, r1>>, <<r2, r3>>, <<r3, r2>>,
            <<r1, r3>>, <<r3, r1>>}
        |-> IF i = <<r3, r1>> THEN 2 ELSE 1]

MCBoth == {<<r1, stub>>, <<r3, r1>>}
=============================================================================
