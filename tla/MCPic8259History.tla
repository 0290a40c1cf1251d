-------------------------- MODULE MCPic8259History --------------------------
(***************************************************************************)
(* Instances of Pic8259History with three levels per chip and the slave on *)
(* master pin 1.                                                           *)
(***************************************************************************)
EXTENDS Pic8259History

Boot == [ic4 |-> TRUE, sngl |-> FALSE, ltim |-> FALSE]
Ops(ops, l) == [op : ops, level : {l}]

\* Nesting: rotation, AEOI with rotation, specific EOI of an inner level; no
\* set-priority, special mask or special fully nested mode.
NestingMaster ==
    [icw1 |-> {Boot}, icw2 |-> {8}, icw3 |-> {{1}},
     icw4 |-> {[aeoi |-> a, sfnm |-> FALSE] : a \in BOOLEAN},
     ocw1 |-> {}, ocw2 |-> Ops({"Eoi", "RotateEoi", "SpecificEoi", "SetAutoRotate"}, 2),
     ocw3 |-> {}]
NestingSlave ==
    [icw1 |-> {[Boot EXCEPT !.ic4 = FALSE]}, icw2 |-> {8}, icw3 |-> {1}, icw4 |-> {},
     ocw1 |-> {}, ocw2 |-> Ops({"Eoi", "RotateEoi"}, 0), ocw3 |-> {}]
=============================================================================
