------------------------------ MODULE Fdc8272 -------------------------------
(***************************************************************************)
(* The floppy controller as operators on its state                         *)
(* (crates/izarravm-machine/src/fdc.rs): motors, command, execution and    *)
(* result phases, and the one timed operation.                             *)
(*                                                                         *)
(* Times are relative to the machine's clock: a deadline is the ticks left *)
(* (zero or less when overdue), lead is how far the controller's own clock *)
(* is ahead, and rot is the part of a turn since a motor's rotation_epoch. *)
(* Shift lets time pass.  Status bytes are reduced to "ended normally", a  *)
(* command to its opcode and the parameters that matter; the parameter     *)
(* bytes are one write.                                                    *)
(***************************************************************************)
EXTENDS Integers, FiniteSets, FiniteSetsExt

CONSTANTS
    Drives, Cylinders, Sectors, SectorBytes,   \* sectors are 1 .. Sectors
    None,
    SpinUp, SpinDown, Revolution, NoReadyTimeout, StepRate, HeadLoad, ByteTicks,
    DataResult      \* length of the result of a data command (7)
ASSUME FdcAssumption ==
    /\ {Sectors, SectorBytes, SpinUp, SpinDown, Revolution, NoReadyTimeout, StepRate,
        ByteTicks, DataResult} \subseteq Nat \ {0}
    /\ HeadLoad \in Nat /\ Cylinders \subseteq Nat /\ None \notin Int

NoResult == [left |-> 0, normal |-> FALSE]
NoOperation == [kind |-> "none", at |-> None]

FdcInit ==
    [run |-> FALSE, gate |-> FALSE, on |-> {},
     phase |-> "command", command |-> None, result |-> NoResult,
     present_cyl |-> [d \in Drives |-> 0], seek_busy |-> {},
     irq_edge_pending |-> FALSE, seek_interrupt |-> FALSE,
     media |-> FALSE,
     motors |-> [d \in Drives |-> [phase |-> "stopped", at |-> None, rot |-> 0]],
     operation |-> NoOperation, lead |-> 0]

-----------------------------------------------------------------------------
(* Time.                                                                   *)

Later(t, k) == IF t = None THEN None ELSE t - k

\* A motor after k more ticks.
Turned(m, k) ==
    [m EXCEPT !.at = Later(@, k), !.rot = (@ + k) % Revolution]

\* k ticks of the machine's clock pass.
Shift(f, k) ==
    [f EXCEPT !.lead = @ - k,
              !.motors = [d \in Drives |-> Turned(@[d], k)],
              !.operation.at = Later(@, k)]

\* The deadlines of the operation and of the motors.
Deadlines(f) ==
    ({f.motors[d].at : d \in Drives} \cup {f.operation.at}) \ {None}

\* ticks_until_event.
TicksUntilEvent(f) ==
    IF Deadlines(f) = {} THEN None ELSE Max({1, Min(Deadlines(f))})

DeadlineAfter(f, k) == f.lead + Max({k, 1})

-----------------------------------------------------------------------------
(* Motors and the digital output register.                                 *)

StartMotor(f, m) ==
    CASE m.phase = "stopped" -> [m EXCEPT !.phase = "starting", !.at = f.lead + SpinUp]
      [] m.phase = "stopping" -> [m EXCEPT !.phase = "running", !.at = None]
      [] OTHER -> m

StopMotor(f, m) ==
    IF m.phase = "stopped" THEN m
    ELSE [m EXCEPT !.phase = "stopping", !.at = f.lead + SpinDown]

\* Mutant: the drives stay busy.
EnterResetBusy(f) ==
    [f EXCEPT !.phase = "command", !.command = None, !.result = NoResult,
              !.operation = NoOperation,
              !.irq_edge_pending = FALSE, !.seek_interrupt = FALSE]

EnterReset(f) ==
    [f EXCEPT !.phase = "command", !.command = None, !.result = NoResult,
              !.operation = NoOperation,
              !.seek_busy = {}, !.irq_edge_pending = FALSE, !.seek_interrupt = FALSE]

WriteDor(f, dor) ==
    LET motors == [d \in Drives |->
            IF d \in dor.on \ f.on THEN StartMotor(f, f.motors[d])
            ELSE IF d \in f.on \ dor.on THEN StopMotor(f, f.motors[d])
            ELSE f.motors[d]]
        set == [f EXCEPT !.run = dor.run, !.gate = dor.gate, !.on = dor.on, !.motors = motors]
    IN  IF f.run /\ ~dor.run THEN EnterReset(set)
        ELSE IF ~f.run /\ dor.run
        THEN [set EXCEPT !.irq_edge_pending = TRUE, !.seek_interrupt = TRUE]
        ELSE set

DriveReady(f, d) == f.media /\ d \in f.on /\ f.motors[d].phase = "running"

\* The disk is inserted or taken out (set_media_geometry).
SetMedia(f, present) ==
    [f EXCEPT !.media = present]

\* Where the disk in drive d stands at time t: a motor still starting counts
\* from the moment it will be up.
RotationPhaseAt(f, d, t) ==
    IF f.motors[d].phase = "starting"
    THEN Max({0, t - f.motors[d].at}) % Revolution
    ELSE (f.motors[d].rot + t) % Revolution

SectorPhase(s) == ((s - 1) * Revolution) \div Sectors

RotationWait(f, d, s, t) == (SectorPhase(s) - RotationPhaseAt(f, d, t)) % Revolution

-----------------------------------------------------------------------------
(* Commands.                                                               *)

FinishWithResult(f, left, normal) ==
    [f EXCEPT !.command = None, !.result = [left |-> left, normal |-> normal],
              !.phase = IF left = 0 THEN "command" ELSE "result"]

\* Mutant: reading a result leaves its interrupt request.
ReadDataKeepsIrq(f) ==
    [f EXCEPT !.result = IF @.left = 1 THEN NoResult ELSE [@ EXCEPT !.left = @ - 1],
              !.phase = IF f.result.left = 1 THEN "command" ELSE "result"]

\* read_data, in the result phase.
ReadData(f) ==
    [f EXCEPT !.irq_edge_pending = @ /\ f.seek_interrupt,
              !.result = IF @.left = 1 THEN NoResult ELSE [@ EXCEPT !.left = @ - 1],
              !.phase = IF f.result.left = 1 THEN "command" ELSE "result"]

\* schedule_seek: the command phase reopens at once, and an operation that is
\* still pending is replaced.
ScheduleSeek(f, d, cylinder) ==
    LET from == f.present_cyl[d]
        tracks == Max({1, IF from > cylinder THEN from - cylinder ELSE cylinder - from})
    IN  FinishWithResult(
            [f EXCEPT !.seek_busy = @ \cup {d},
                      !.operation = [kind |-> "seek", drive |-> d, cylinder |-> cylinder,
                                     at |-> DeadlineAfter(f, tracks * StepRate)]],
            0, FALSE)

SenseInterrupt(f) ==
    IF f.seek_interrupt
    THEN FinishWithResult([f EXCEPT !.seek_interrupt = FALSE, !.irq_edge_pending = FALSE],
                          2, TRUE)
    ELSE FinishWithResult(f, 1, FALSE)

\* motor_ready_tick.
MotorReady(f, d) ==
    CASE f.motors[d].phase = "running" -> f.lead
      [] f.motors[d].phase = "starting" -> f.motors[d].at
      [] OTHER -> None

Execute(f, op) == [f EXCEPT !.operation = op, !.phase = "execution", !.command = None]

\* cmd_read_id: the next sector to pass under the head, or a timeout.
ReadId(f, d) ==
    LET ready == Max({MotorReady(f, d), f.lead + HeadLoad})
        wait == Min({RotationWait(f, d, s, ready) : s \in 1 .. Sectors})
        valid == f.media /\ d \in f.on /\ MotorReady(f, d) # None
    IN  Execute(f, [kind |-> "id", drive |-> d, valid |-> valid,
                    at |-> IF valid THEN ready + Max({1, wait})
                           ELSE DeadlineAfter(f, NoReadyTimeout)])

\* The address of a data command is on the disk.
OnDisk(req, sector) ==
    req.sized /\ req.cylinder \in Cylinders /\ sector \in 1 .. Sectors

\* cmd_read_write with first_data_deadline.
ReadWrite(f, req) ==
    LET d == req.drive
        from == f.present_cyl[d]
        tracks == IF from > req.cylinder THEN from - req.cylinder ELSE req.cylinder - from
        ready == Max({MotorReady(f, d), f.lead + tracks * StepRate + HeadLoad})
        reachable == /\ f.media /\ OnDisk(req, req.sector)
                     /\ d \in f.on /\ MotorReady(f, d) # None
    IN  Execute(f, [kind |-> "transfer", req |-> req, media |-> f.media,
                    sector |-> req.sector, offset |-> 0, moved_any |-> FALSE,
                    at |-> IF reachable
                           THEN ready + Max({1, RotationWait(f, d, req.sector, ready)})
                           ELSE DeadlineAfter(f, NoReadyTimeout)])

\* execute_command.  "status" stands for an opcode that is answered by one
\* byte at once, "mode" for SPECIFY and CONFIGURE (whose timing is fixed here)
\* and "drive" for SENSE DRIVE STATUS.
ExecuteCommand(f, c) ==
    CASE c.op = "seek" -> ScheduleSeek(f, c.drive, c.cylinder)
      [] c.op = "sense" -> SenseInterrupt(f)
      [] c.op = "id" -> ReadId(f, c.drive)
      [] c.op \in {"read", "write"} -> ReadWrite(f, c)
      [] c.op \in {"status", "drive"} -> FinishWithResult(f, 1, TRUE)
      [] c.op = "mode" -> FinishWithResult(f, 0, FALSE)

\* write_data: the first byte of a command, and then its parameters.
WriteOpcode(f, c) ==
    IF c.op \in {"sense", "status"} THEN ExecuteCommand(f, c)
    ELSE [f EXCEPT !.command = c, !.phase = "parameters", !.result = NoResult]

WriteParameters(f) == ExecuteCommand(f, f.command)

\* A port write moves the controller's clock up to the guest's (write_port_at).
At(f, t) == [f EXCEPT !.lead = Max({@, t})]

-----------------------------------------------------------------------------
(* Events: one round of the loop in advance_to.                            *)

\* advance_to has something to do at the machine's present tick.
Due(f) == f.lead <= 0 /\ \E t \in Deadlines(f) : t <= 0

\* The clock goes to the earliest deadline and the motors due then change.
MotorsAtDeadline(f) ==
    LET t == Min(Deadlines(f))
    IN  [f EXCEPT !.lead = t,
                  !.motors = [d \in Drives |->
                      IF @[d].at # t THEN @[d]
                      ELSE [phase |-> IF @[d].phase = "starting" THEN "running" ELSE "stopped",
                            at |-> None,
                            rot |-> (-t) % Revolution]]]

OperationDue(f) == f.operation.kind # "none" /\ f.operation.at = Min(Deadlines(f))

CompleteSeek(f) ==
    LET op == f.operation
    IN  [f EXCEPT !.present_cyl[op.drive] = op.cylinder,
                  !.seek_busy = @ \ {op.drive}, !.operation = NoOperation,
                  !.seek_interrupt = TRUE, !.irq_edge_pending = TRUE]

\* The end of a data command, with its result and its interrupt.
Complete(f, normal) ==
    FinishWithResult([f EXCEPT !.operation = NoOperation, !.seek_interrupt = FALSE,
                               !.irq_edge_pending = TRUE], DataResult, normal)

CompleteReadId(f) ==
    Complete(f, f.operation.valid /\ DriveReady(f, f.operation.drive))

FinishTransfer(f, success) == Complete(f, success /\ f.operation.moved_any)

\* At its deadline the transfer can still go on.
TransferValid(f) ==
    LET op == f.operation
    IN  /\ op.media /\ DriveReady(f, op.req.drive) /\ f.gate
        /\ OnDisk(op.req, op.sector)

\* The head is over the byte: it is asked of the DMA channel.
AskForByte(f) ==
    [f EXCEPT !.present_cyl[f.operation.req.drive] = f.operation.req.cylinder,
              !.operation.at = None]

\* Mutant: the wait for the next sector is not scheduled.
CompleteDmaByteUntimed(f, moved, tc) ==
    LET op == [f.operation EXCEPT !.moved_any = TRUE, !.offset = @ + 1]
        g == [f EXCEPT !.operation = op]
    IN  IF ~moved THEN FinishTransfer(f, FALSE)
        ELSE IF tc THEN FinishTransfer(g, TRUE)
        ELSE IF op.offset < SectorBytes
        THEN [f EXCEPT !.operation = [op EXCEPT !.at = DeadlineAfter(f, ByteTicks)]]
        ELSE IF op.sector >= op.req.end THEN FinishTransfer(g, TRUE)
        ELSE IF op.sector + 1 > Sectors THEN FinishTransfer(g, FALSE)
        ELSE [f EXCEPT !.operation = [op EXCEPT !.sector = @ + 1, !.offset = 0]]

\* Mutant: the end sector is passed before the transfer stops.
CompleteDmaByteOneMore(f, moved, tc) ==
    LET op == [f.operation EXCEPT !.moved_any = TRUE, !.offset = @ + 1]
        g == [f EXCEPT !.operation = op]
    IN  IF ~moved THEN FinishTransfer(f, FALSE)
        ELSE IF tc THEN FinishTransfer(g, TRUE)
        ELSE IF op.offset < SectorBytes
        THEN [f EXCEPT !.operation = [op EXCEPT !.at = DeadlineAfter(f, ByteTicks)]]
        ELSE IF op.sector > op.req.end THEN FinishTransfer(g, TRUE)
        ELSE IF op.sector + 1 > Sectors THEN FinishTransfer(g, FALSE)
        ELSE [f EXCEPT !.operation =
                 [op EXCEPT !.sector = @ + 1, !.offset = 0,
                            !.at = DeadlineAfter(f,
                                RotationWait(f, op.req.drive, op.sector + 1, f.lead))]]

\* complete_dma_byte.
CompleteDmaByte(f, moved, tc) ==
    LET op == [f.operation EXCEPT !.moved_any = TRUE, !.offset = @ + 1]
        g == [f EXCEPT !.operation = op]
    IN  IF ~moved THEN FinishTransfer(f, FALSE)
        ELSE IF tc THEN FinishTransfer(g, TRUE)
        ELSE IF op.offset < SectorBytes
        THEN [f EXCEPT !.operation = [op EXCEPT !.at = DeadlineAfter(f, ByteTicks)]]
        ELSE IF op.sector >= op.req.end THEN FinishTransfer(g, TRUE)
        ELSE IF op.sector + 1 > Sectors THEN FinishTransfer(g, FALSE)
        ELSE [f EXCEPT !.operation =
                 [op EXCEPT !.sector = @ + 1, !.offset = 0,
                            !.at = DeadlineAfter(f,
                                RotationWait(f, op.req.drive, op.sector + 1, f.lead))]]

\* The loop is through: the clock stands at the machine's tick.
CaughtUp(f) == [f EXCEPT !.lead = Max({@, 0})]

\* take_irq: an open gate lets the request through to the PIC.
TakeIrq(f) == [f EXCEPT !.irq_edge_pending = @ /\ ~f.gate]
=============================================================================
