---------------------------- MODULE KeyboardIrq -----------------------------
(***************************************************************************)
(* From the host's key press to the guest's handler: Keyboard8042 composed *)
(* with a PIC chip and a guest.  The machine copies the controller's IRQ1  *)
(* line to the PIC after each clock advance (timing.rs, apply_device_      *)
(* advance) and inside each read of port 0x60 (bus.rs, read_io).           *)
(*                                                                         *)
(* The guest is a usual one.  Its IRQ1 handler reads port 0x60 once and    *)
(* ends with an EOI.  Its foreground may query the controller with         *)
(* interrupts off: write a command, wait for the answer, read it.          *)
(***************************************************************************)
EXTENDS Keyboard8042

VARIABLES pic, cpu
kvars == <<vars, pic, cpu>>

P == INSTANCE Pic WITH N <- 2, Bases <- {0}

\* The guest has programmed edge or level-triggered inputs.
Initialised(ltim) ==
    [P!WriteIcw1(P!PowerOn({}), [ic4 |-> FALSE, sngl |-> TRUE, ltim |-> ltim])
        EXCEPT !.init = "Ready"]

KInit ==
    /\ Init
    /\ pic \in {Initialised(ltim) : ltim \in BOOLEAN}
    /\ cpu = "run"

SetIrq1 == pic' = P!SetInputLevel(pic, 1, Irq1Level(kbc'))

Press == \E n \in 1 .. 2 : PushScancodes(n) /\ UNCHANGED <<pic, cpu>>

\* Mutant: the line is only copied when a deadline has passed.
AdvanceUnsynced ==
    /\ EndAdvance \/ ReachDeadline \/ \E n \in Advances : BeginAdvance(n)
    /\ UNCHANGED <<pic, cpu>>

Advance ==
    /\ EndAdvance \/ ReachDeadline \/ \E n \in Advances : BeginAdvance(n)
    /\ IF remaining > 0 /\ remaining' = 0 THEN SetIrq1 ELSE UNCHANGED pic
    /\ UNCHANGED cpu

Interrupt ==
    /\ remaining = 0
    /\ cpu = "run"
    /\ P!IsHighestPending(pic, {}, 1)
    /\ pic' = P!SetInService(pic, 1)
    /\ cpu' = "handler_read"
    /\ UNCHANGED vars

\* Mutant: the read leaves the PIC's input for the next advance to update.
ReadIoUnsynced(p) == ReadData(p) /\ UNCHANGED pic

ReadIo(p) == ReadData(p) /\ SetIrq1

HandlerRead ==
    /\ cpu = "handler_read"
    /\ \E p \in PrefixTicks : ReadIo(p)
    /\ cpu' = "handler_eoi"

HandlerEoi ==
    /\ remaining = 0
    /\ cpu = "handler_eoi"
    /\ P!EndOfInterrupt(pic, pic', [op |-> "Eoi", level |-> 0])
    /\ cpu' = "run"
    /\ UNCHANGED vars

Query ==
    /\ cpu = "run"
    /\ \E p \in PrefixTicks, v \in session.commands : WritePort(100, v, p)
    /\ cpu' = "query_read"
    /\ UNCHANGED pic

QueryRead ==
    /\ cpu = "query_read"
    /\ "IBF" \notin kbc.status /\ Full(kbc)
    /\ \E p \in PrefixTicks : ReadIo(p)
    /\ cpu' = "run"

KNext == Press \/ Advance \/ Interrupt \/ HandlerRead \/ HandlerEoi \/ Query \/ QueryRead

\* Master time passes, the CPU executes its instructions, and it takes an
\* interrupt that is deliverable at instruction boundaries again and again.
Fairness ==
    /\ WF_kvars(Advance)
    /\ SF_kvars(Interrupt)
    /\ WF_kvars(HandlerRead) /\ WF_kvars(HandlerEoi) /\ WF_kvars(QueryRead)

KSpec == KInit /\ [][KNext]_kvars /\ Fairness

-----------------------------------------------------------------------------
\* Every key the host pressed reaches the guest's handler: no byte waits
\* behind an interrupt line that stays high without a new edge, also when a
\* controller answer displaced it from the output register.
KeysDelivered ==
    \A n \in UNION {1 .. s.keys : s \in Sessions} : pushed >= n ~> Len(keys_read) >= n

\* "Keep the PIC's electrical input in step here so LTIM cannot reassert a
\* byte the guest consumed": with level-triggered inputs every interrupt
\* the handler takes finds a fresh byte.
NoPhantom == pic.level_triggered /\ cpu = "handler_read" => Full(kbc)

=============================================================================
