--------------------------- MODULE MCPic8259Pair ---------------------------
(***************************************************************************)
(* Instances of Pic8259Pair with three levels per chip and the slave on    *)
(* master pin 1, between a higher and a lower master line.                 *)
(***************************************************************************)
EXTENDS Pic8259Pair

Edge == [ic4 |-> TRUE, sngl |-> FALSE, ltim |-> FALSE]
Level == [Edge EXCEPT !.ltim = TRUE]
NoIcw4 == [Edge EXCEPT !.ic4 = FALSE]
Ops(ops, l) == [op : ops, level : {l}]
Poll == [rr |-> "keep", poll |-> TRUE, smm |-> "keep"]

\* Cascade: the master may be edge or level triggered, be re-initialised,
\* poll, run AEOI or special fully nested, and rotate; the slave masks a line
\* and moves its priorities.
CascadeMaster ==
    [icw1 |-> {Edge, Level}, icw2 |-> {8}, icw3 |-> {{1}},
     icw4 |-> {[aeoi |-> a, sfnm |-> ~a] : a \in BOOLEAN},
     ocw1 |-> {}, ocw2 |-> Ops({"Eoi", "RotateSpecificEoi", "Nop"}, 2), ocw3 |-> {Poll}]
CascadeSlave ==
    [icw1 |-> {NoIcw4}, icw2 |-> {8}, icw3 |-> {1}, icw4 |-> {},
     ocw1 |-> {{}, {0}}, ocw2 |-> Ops({"Eoi", "SetPriority"}, 0), ocw3 |-> {}]

=============================================================================
