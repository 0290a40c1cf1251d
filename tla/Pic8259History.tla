--------------------------- MODULE Pic8259History ---------------------------
(***************************************************************************)
(* Pic8259Pair with a history variable that no register holds: the order   *)
(* in which the levels in service were acknowledged.                       *)
(***************************************************************************)
EXTENDS Pic8259Pair, Sequences

VARIABLES
    nest        \* per chip, the levels in service in order of acknowledge
hvars == <<master, slave, unlinked, nest>>

HInit ==
    /\ Init
    /\ nest = [master |-> <<>>, slave |-> <<>>]

\* Levels that left the ISR drop out, a level that entered it goes on top.
Follow(s, isr, isrNext) ==
    LET kept == SelectSeq(s, LAMBDA l : l \in isrNext)
    IN  IF isrNext \subseteq isr THEN kept
        ELSE Append(kept, CHOOSE l \in isrNext \ isr : TRUE)

HNext ==
    /\ Next
    /\ nest' = [master |-> Follow(nest.master, master.isr, master'.isr),
                slave |-> Follow(nest.slave, slave.isr, slave'.isr)]

HSpec == HInit /\ [][HNext]_hvars

-----------------------------------------------------------------------------

EndsLatest(p, s) == s # <<>> => IsHighestInService(p, s[Len(s)])

\* A non-specific EOI (rotating or not) ends the interrupt that was
\* acknowledged last, so nested handlers that end with it unwind in order.
\* It holds as long as the guest does not set priorities or special mask
\* mode while a handler runs; rotation on EOI and rotation in AEOI mode keep
\* it (end_of_interrupt 001 and 101, set_in_service).
EoiEndsLatest == EndsLatest(master, nest.master) /\ EndsLatest(slave, nest.slave)
=============================================================================
