-------------------------------- MODULE Pic --------------------------------
(***************************************************************************)
(* One Intel 8259A interrupt controller, as crates/izarravm-machine/src/   *)
(* pic.rs implements it (struct Pic).  The module has no variables: a chip *)
(* is a record and every method is an operator from the chip before the    *)
(* call to the chip after it.  Pic8259Pair owns two chips.                 *)
(*                                                                         *)
(* The registers irr, asserted, isr and imr are bit masks in the code and  *)
(* sets of levels here.  buffered and is_master are left out: the code     *)
(* stores them and never reads them.  The number of levels, eight in the   *)
(* hardware, is a constant so that TLC can work with fewer.                *)
(***************************************************************************)
EXTENDS Integers

CONSTANTS
    N,          \* interrupt levels of one chip (8 in the code)
    Bases       \* vector bases a guest may write to ICW2

ASSUME NAssumption == N \in Nat \ {0}
ASSUME BasesAssumption == 0 \in Bases

Levels == 0 .. N - 1

InitStages == {"Ready", "ExpectIcw2", "ExpectIcw3", "ExpectIcw4"}

\* A chip whose ICW3 holds a value of Wiring: the set of master pins that
\* carry a slave, or the id of a slave.
Chip(Wiring) ==
    [irr : SUBSET Levels, asserted : SUBSET Levels, isr : SUBSET Levels,
     imr : SUBSET Levels, icw2 : Bases, icw3 : Wiring, init : InitStages,
     expect_icw4 : BOOLEAN, single : BOOLEAN, level_triggered : BOOLEAN,
     auto_eoi : BOOLEAN, read_isr : BOOLEAN, poll_pending : BOOLEAN,
     special_mask : BOOLEAN, sfnm : BOOLEAN, lowest : Levels,
     auto_rotate : BOOLEAN]

\* The derived Default: every register is zero, also lowest, which stays 0
\* until the first ICW1.
PowerOn(wiring) ==
    [irr |-> {}, asserted |-> {}, isr |-> {}, imr |-> {}, icw2 |-> 0,
     icw3 |-> wiring, init |-> "Ready", expect_icw4 |-> FALSE,
     single |-> FALSE, level_triggered |-> FALSE, auto_eoi |-> FALSE,
     read_isr |-> FALSE, poll_pending |-> FALSE, special_mask |-> FALSE,
     sfnm |-> FALSE, lowest |-> 0, auto_rotate |-> FALSE]

-----------------------------------------------------------------------------
(* Priority resolution.                                                    *)

\* Slot of level l in the walk lowest + 1, lowest + 2, ..., lowest (mod N).
Rank(p, l) == IF l > p.lowest THEN l - p.lowest - 1 ELSE l - p.lowest - 1 + N

\* Mutant: the highest level in service by number, deaf to the rotation.
UnrotatedInService(p, l) == l \in p.isr /\ \A m \in p.isr : l <= m

IsHighestInService(p, l) ==
    /\ l \in p.isr
    /\ \A m \in p.isr : Rank(p, l) <= Rank(p, m)

\* A request the walk of highest_pending is not stopped at or before.
\* exempt is the empty set, or holds the master's cascade pin in special
\* fully nested mode.
Unblocked(p, exempt, l) ==
    /\ l \in p.irr \ p.imr
    /\ IF p.special_mask
       THEN l \notin p.isr \ exempt
       ELSE \A b \in p.isr \ exempt : Rank(p, l) < Rank(p, b)

IsHighestPending(p, exempt, l) ==
    /\ Unblocked(p, exempt, l)
    /\ \A m \in Levels : Unblocked(p, exempt, m) => Rank(p, l) <= Rank(p, m)

HasPending(p, exempt) == \E l \in Levels : IsHighestPending(p, exempt, l)

-----------------------------------------------------------------------------
(* Input lines, acknowledge and end of interrupt.                          *)

Request(p, l) == [p EXCEPT !.irr = @ \cup {l}]

RaiseInput(p, l) ==
    [p EXCEPT !.asserted = @ \cup {l},
              !.irr = IF p.level_triggered \/ l \notin p.asserted
                      THEN @ \cup {l} ELSE @]

LowerInput(p, l) ==
    [p EXCEPT !.asserted = @ \ {l},
              !.irr = IF p.level_triggered THEN @ \ {l} ELSE @]

SetInputLevel(p, l, up) == IF up THEN RaiseInput(p, l) ELSE LowerInput(p, l)

\* Mutant: a held level is not latched again when its service ends.
ForgetHeldLevel(p, l) == [p EXCEPT !.isr = @ \ {l}]

ClearInService(p, l) ==
    [p EXCEPT !.isr = @ \ {l},
              !.irr = IF p.level_triggered /\ l \in p.asserted
                      THEN @ \cup {l} ELSE @]

SetInService(p, l) ==
    LET q == [p EXCEPT !.isr = @ \cup {l}, !.irr = @ \ {l}]
    IN  IF p.auto_eoi
        THEN [ClearInService(q, l) EXCEPT
                !.lowest = IF p.auto_rotate THEN l ELSE @]
        ELSE q

-----------------------------------------------------------------------------
(* Port writes.  A command byte is a record: ICW1 [ic4, sngl, ltim], ICW4  *)
(* [aeoi, sfnm], OCW3 [rr, poll, smm] with "keep" for a selector bit that  *)
(* is clear, OCW2 [op, level].                                             *)

Icw1s == [ic4 : BOOLEAN, sngl : BOOLEAN, ltim : BOOLEAN]
Icw4s == [aeoi : BOOLEAN, sfnm : BOOLEAN]
Ocw3s == [rr : {"keep", "irr", "isr"}, poll : BOOLEAN, smm : {"keep", "on", "off"}]
Ocw2Ops == {"ClearAutoRotate", "SetAutoRotate", "Eoi", "SpecificEoi",
            "RotateEoi", "SetPriority", "RotateSpecificEoi", "Nop"}
Ocw2s == [op : Ocw2Ops, level : Levels]

\* ICW1 keeps the input lines, the vector base, the wiring, the ICW4 modes,
\* the special mask and a pending poll, and resets everything else.
WriteIcw1(p, c) ==
    [irr |-> IF c.ltim THEN p.asserted ELSE {}, asserted |-> p.asserted,
     isr |-> {}, imr |-> {}, icw2 |-> p.icw2, icw3 |-> p.icw3,
     init |-> "ExpectIcw2", expect_icw4 |-> c.ic4, single |-> c.sngl,
     level_triggered |-> c.ltim, auto_eoi |-> p.auto_eoi, read_isr |-> FALSE,
     poll_pending |-> p.poll_pending, special_mask |-> p.special_mask,
     sfnm |-> p.sfnm, lowest |-> N - 1, auto_rotate |-> FALSE]

WriteOcw3(p, c) ==
    [p EXCEPT !.read_isr = IF c.rr = "keep" THEN @ ELSE c.rr = "isr",
              !.poll_pending = @ \/ c.poll,
              !.special_mask = IF c.smm = "keep" THEN @ ELSE c.smm = "on"]

\* OCW2 relates the chip before and after: the non-specific forms pick the
\* highest level in service, and do nothing when there is none.
EndOfInterrupt(p, q, c) ==
    \/ /\ c.op \in {"ClearAutoRotate", "SetAutoRotate"}
       /\ q = [p EXCEPT !.auto_rotate = (c.op = "SetAutoRotate")]
    \/ /\ c.op = "Eoi"
       /\ \/ /\ p.isr = {}
             /\ q = p
          \/ \E l \in p.isr : /\ IsHighestInService(p, l)
                              /\ q = ClearInService(p, l)
    \/ /\ c.op = "SpecificEoi"
       /\ q = ClearInService(p, c.level)
    \/ /\ c.op = "RotateEoi"
       /\ \/ /\ p.isr = {}
             /\ q = p
          \/ \E l \in p.isr : /\ IsHighestInService(p, l)
                              /\ q = [ClearInService(p, l) EXCEPT !.lowest = l]
    \/ /\ c.op = "SetPriority"
       /\ q = [p EXCEPT !.lowest = c.level]
    \/ /\ c.op = "RotateSpecificEoi"
       /\ q = [ClearInService(p, c.level) EXCEPT !.lowest = c.level]
    \/ /\ c.op = "Nop"
       /\ q = p

AfterIcw3(p) == IF p.expect_icw4 THEN "ExpectIcw4" ELSE "Ready"

WriteIcw2(p, base) ==
    [p EXCEPT !.icw2 = base,
              !.init = IF p.single THEN AfterIcw3(p) ELSE "ExpectIcw3"]

WriteIcw3(p, wiring) == [p EXCEPT !.icw3 = wiring, !.init = AfterIcw3(p)]

WriteIcw4(p, c) == [p EXCEPT !.auto_eoi = c.aeoi, !.sfnm = c.sfnm, !.init = "Ready"]

WriteOcw1(p, mask) == [p EXCEPT !.imr = mask]

\* Any write to either port.  g is the guest's repertoire: for each kind of
\* byte, the set of values it may write.
WritePort(p, q, g) ==
    \/ \E c \in g.icw1 : q = WriteIcw1(p, c)
    \/ \E c \in g.ocw3 : q = WriteOcw3(p, c)
    \/ \E c \in g.ocw2 : EndOfInterrupt(p, q, c)
    \/ p.init = "ExpectIcw2" /\ \E base \in g.icw2 : q = WriteIcw2(p, base)
    \/ p.init = "ExpectIcw3" /\ \E w \in g.icw3 : q = WriteIcw3(p, w)
    \/ p.init = "ExpectIcw4" /\ \E c \in g.icw4 : q = WriteIcw4(p, c)
    \/ p.init = "Ready" /\ \E mask \in g.ocw1 : q = WriteOcw1(p, mask)

\* A read of either port: a pending poll acknowledges like an INTA pulse,
\* any other read returns a register and changes nothing.
ReadPort(p, q, exempt) ==
    \/ /\ ~p.poll_pending
       /\ q = p
    \/ /\ p.poll_pending
       /\ LET r == [p EXCEPT !.poll_pending = FALSE]
          IN  \/ /\ ~HasPending(r, exempt)
                 /\ q = r
              \/ \E l \in Levels : /\ IsHighestPending(r, exempt, l)
                                   /\ q = SetInService(r, l)
=============================================================================
