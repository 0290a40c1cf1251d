----------------------------- MODULE FloppyPath -----------------------------
(***************************************************************************)
(* The floppy controller, channel 2 of the DMA chip, the disk and the      *)
(* batches in which the machine advances them (advance_master_time and     *)
(* advance_fdc_to in crates/izarravm-machine/src/timing.rs, the port       *)
(* dispatch in bus.rs).                                                    *)
(*                                                                         *)
(* The guest runs for pending ticks, with port accesses at any of them.    *)
(* The batch then ends and the devices catch up, in steps that stop at     *)
(* each deadline of the controller; every byte that is due moves through   *)
(* the DMA channel; IRQ6 is forwarded at the end of each step.  A byte is  *)
(* the pair of its place on the disk and its address in memory.            *)
(***************************************************************************)
EXTENDS Dma8237, Fdc8272, Sequences

CONSTANTS
    Commands,   \* the commands the guest issues
    DmaPrograms,    \* [mode, addr, count] the guest programs
    DorValues,
    MaxBatch    \* longest batch, in ticks
ASSUME PathAssumption ==
    \A c \in Commands :
        c.op \in {"seek", "sense", "id", "read", "write", "status", "drive", "mode"}

Channel == 2

VARIABLES
    fdc, dma,
    pc,         \* "guest", "step" or "due"
    pending,    \* ticks the guest has run in this batch
    left,       \* ticks the devices still have to advance
    xfer,       \* history: the data command since its execution began
    abandoned   \* history: drives whose seek was replaced by another command
vars == <<fdc, dma, pc, pending, left, xfer, abandoned>>

NoXfer == [req |-> None, channel |-> None, moves |-> <<>>, clean |-> FALSE]

Init ==
    /\ fdc = [FdcInit EXCEPT !.media = TRUE] /\ dma = DmaInit
    /\ pc = "guest" /\ pending = 0 /\ left = 0
    /\ xfer = NoXfer /\ abandoned = {}

-----------------------------------------------------------------------------
(* The guest.                                                              *)

\* The controller after a port write at the guest's time.
Now(f) == At(f, pending)

\* A command that starts an operation replaces a seek still under way.
Replaced(f, g) ==
    IF f.operation.kind = "seek" /\ g.operation \notin {f.operation, NoOperation}
    THEN abandoned \cup {f.operation.drive} ELSE abandoned

PortWrite(g) ==
    /\ fdc' = g
    /\ abandoned' = IF g.seek_busy = {} THEN {} ELSE Replaced(fdc, g)
    /\ xfer' = IF g.phase = "execution" /\ fdc.phase # "execution" /\ g.operation.kind = "transfer"
               THEN [req |-> g.operation.req, channel |-> dma.channels[Channel],
                     moves |-> <<>>, clean |-> TRUE]
               ELSE IF g.phase = "command" THEN NoXfer ELSE xfer
    /\ UNCHANGED <<dma, pc, pending, left>>

GuestWritesDor == \E dor \in DorValues : PortWrite(WriteDor(Now(fdc), dor))

GuestCommands ==
    \/ /\ fdc.phase = "command"
       /\ \E c \in Commands : PortWrite(WriteOpcode(Now(fdc), c))
    \/ /\ fdc.phase = "parameters"
       /\ PortWrite(WriteParameters(Now(fdc)))

GuestReadsResult ==
    /\ fdc.phase = "result"
    /\ PortWrite(ReadData(fdc))

GuestProgramsDma ==
    /\ \/ \E p \in DmaPrograms : dma' = Program(dma, Channel, p.mode, p.addr, p.count)
       \/ fdc.phase = "execution" /\ dma' = MasterClear(dma)
    /\ dma' # dma
    /\ xfer' = NoXfer
    /\ UNCHANGED <<fdc, pc, pending, left, abandoned>>

\* One more tick of guest code; a batch is capped at the next deadline, which
\* the last instruction may overrun.
GuestRuns ==
    /\ pending < MaxBatch
    /\ \A t \in {TicksUntilEvent(fdc)} \ {None} : pending <= t
    /\ pending' = pending + 1
    /\ UNCHANGED <<fdc, dma, pc, left, xfer, abandoned>>

BatchEnds ==
    /\ pending > 0
    /\ left' = pending /\ pending' = 0 /\ pc' = "step"
    /\ UNCHANGED <<fdc, dma, xfer, abandoned>>

\* The host swaps the disk between batches (mount_floppy, eject_floppy).
HostSwapsDisk ==
    /\ pending = 0
    /\ fdc' = SetMedia(fdc, ~fdc.media)
    /\ xfer' = NoXfer
    /\ UNCHANGED <<dma, pc, pending, left, abandoned>>

Guest ==
    /\ pc = "guest"
    /\ \/ GuestWritesDor \/ GuestCommands \/ GuestReadsResult \/ GuestProgramsDma
       \/ GuestRuns \/ BatchEnds \/ HostSwapsDisk

-----------------------------------------------------------------------------
(* The devices.                                                            *)

\* advance_master_time: up to the next deadline of the controller or of the
\* CD drive (which may come at any tick), or to the end of the batch.
DevicesStep ==
    /\ pc = "step"
    /\ \E k \in 1 .. Min({left} \cup ({TicksUntilEvent(fdc)} \ {None})) :
          fdc' = Shift(fdc, k) /\ left' = left - k
    /\ pc' = "due"
    /\ UNCHANGED <<dma, pending, xfer, abandoned>>

\* The byte the controller asks for goes through the channel: from the disk
\* to memory or from memory to the disk.
Serve(f) ==
    LET op == f.operation
        cycle == DmaCycle(dma, Channel, IF op.req.op = "read" THEN 1 ELSE 2)
        cell == <<op.req.cylinder, op.sector, op.offset>>
    IN  /\ fdc' = CompleteDmaByte(f, cycle.moved,
                        cycle.moved /\ cycle.chip.channels[Channel].reached_tc)
        /\ dma' = cycle.chip
        /\ xfer' = IF cycle.moved /\ xfer.clean
                   THEN [xfer EXCEPT !.moves = Append(@, <<cell, cycle.addr>>)] ELSE xfer

\* One round of advance_to, with advance_fdc_to around it.
DevicesServe ==
    /\ pc = "due" /\ Due(fdc)
    /\ LET f == MotorsAtDeadline(fdc)
           kind == IF OperationDue(fdc) THEN fdc.operation.kind ELSE "motor"
       IN  IF kind = "transfer" /\ TransferValid(f)
           THEN Serve(AskForByte(f))
           ELSE /\ fdc' = CASE kind = "motor" -> f
                            [] kind = "seek" -> CompleteSeek(f)
                            [] kind = "id" -> CompleteReadId(f)
                            [] kind = "transfer" -> FinishTransfer(f, FALSE)
                /\ UNCHANGED <<dma, xfer>>
    /\ abandoned' = abandoned \cap fdc'.seek_busy
    /\ UNCHANGED <<pc, pending, left>>

DevicesDone ==
    /\ pc = "due" /\ ~Due(fdc)
    /\ fdc' = TakeIrq(CaughtUp(fdc))
    /\ pc' = IF left > 0 THEN "step" ELSE "guest"
    /\ UNCHANGED <<dma, pending, left, xfer, abandoned>>

Devices == DevicesStep \/ DevicesServe \/ DevicesDone
Next == Guest \/ Devices

Spec == Init /\ [][Next]_vars

-----------------------------------------------------------------------------
\* The longest wait of an operation: the motor or the head, and one turn of
\* the disk, from a port access late in its batch.
LongestWait ==
    MaxBatch + Max({NoReadyTimeout, ByteTicks,
                    Max({SpinUp, Max(Cylinders) * StepRate + HeadLoad}) + Revolution})

\* A command cannot hang in its execution phase, nor outlive it: the phase has
\* a data operation with a deadline, never further away than the longest wait
\* of the drive, whatever happens to the motor, the disk, the gate and the DMA
\* channel meanwhile; and no data operation is left over in another phase.
ExecutionIsTimed ==
    IF fdc.phase = "execution"
    THEN /\ fdc.operation.kind \in {"id", "transfer"}
         /\ fdc.operation.at # None /\ fdc.operation.at <= LongestWait
    ELSE fdc.operation.kind \in {"none", "seek"}

\* IRQ6 is asked for only with a reason the guest can find: a result to read
\* or a seek to sense.  No port access, reset or gate change in between
\* leaves a request behind that the handler could not explain.
IrqHasCause == fdc.irq_edge_pending => fdc.seek_interrupt \/ fdc.phase = "result"

\* A drive's busy bit has its seek pending, unless the guest replaced that
\* seek with another command before it ended.
BusyHasSeek ==
    \A d \in fdc.seek_busy \ abandoned :
        fdc.operation.kind = "seek" /\ fdc.operation.drive = d

\* The i-th byte of data command r through channel ch.
ByteOf(r, ch, i) ==
    <<<<r.cylinder, r.sector + (i \div SectorBytes), i % SectorBytes>>,
      (IF ch.addr_decrement THEN ch.cur_addr - i ELSE ch.cur_addr + i) % WordBase>>

\* While neither the channel nor the disk is touched, the bytes moved are the
\* command's bytes in order at the channel's addresses in order, and a command
\* that ends normally has moved what the channel was programmed for or what
\* the command asked for, whichever is less.
TransferFaithful ==
    xfer.clean =>
        /\ \A i \in DOMAIN xfer.moves : xfer.moves[i] = ByteOf(xfer.req, xfer.channel, i - 1)
        /\ fdc.phase = "result" /\ fdc.result.normal =>
              Len(xfer.moves) =
                  Min({xfer.channel.cur_count + 1,
                       SectorBytes * Max({1, xfer.req.end + 1 - xfer.req.sector})})
=============================================================================
