---------------------------- MODULE FloppyProofs ----------------------------
(***************************************************************************)
(* IRQ6 always has a cause and a busy bit its seek, for any disk geometry, *)
(* any timing of the drive, any commands and any length of the batches.    *)
(***************************************************************************)
EXTENDS FloppyPath, TLAPS

\* f has the fields of a controller, and its operation those of its kind.
Shape(f) ==
    f = [run |-> f.run, gate |-> f.gate, on |-> f.on, phase |-> f.phase,
         command |-> f.command, result |-> f.result, present_cyl |-> f.present_cyl,
         seek_busy |-> f.seek_busy, irq_edge_pending |-> f.irq_edge_pending,
         seek_interrupt |-> f.seek_interrupt, media |-> f.media, motors |-> f.motors,
         operation |-> f.operation, lead |-> f.lead]

OpShape(op) ==
    \/ op = [kind |-> "none", at |-> op.at]
    \/ op = [kind |-> "seek", drive |-> op.drive, cylinder |-> op.cylinder, at |-> op.at]
    \/ op = [kind |-> "id", drive |-> op.drive, valid |-> op.valid, at |-> op.at]
    \/ op = [kind |-> "transfer", req |-> op.req, media |-> op.media, sector |-> op.sector,
             offset |-> op.offset, moved_any |-> op.moved_any, at |-> op.at]

\* The phases: data operations in the execution phase only, and a request for
\* IRQ6 only with a seek to sense or a result to read.
Phased(f) ==
    /\ f.phase \in {"command", "parameters", "execution", "result"}
    /\ f.phase = "parameters" => f.command \in Commands
    /\ IF f.phase = "execution" THEN f.operation.kind \in {"id", "transfer"}
       ELSE f.operation.kind \in {"none", "seek"}
    /\ f.irq_edge_pending => f.seek_interrupt \/ f.phase = "result"

\* Drives that are busy without a pending seek are in gone.
Busy(f, gone) ==
    \A d \in f.seek_busy \ gone : f.operation.kind = "seek" /\ f.operation.drive = d

Good(f) == Shape(f) /\ OpShape(f.operation) /\ Phased(f)

FInv == Good(fdc) /\ Busy(fdc, abandoned)

\* What a step that keeps phase, operation and interrupt keeps.
LEMMA KeepsGood ==
  ASSUME NEW f, NEW g, Good(f), Shape(g), g.phase = f.phase, g.command = f.command,
         OpShape(g.operation), g.operation.kind = f.operation.kind,
         g.irq_edge_pending => f.irq_edge_pending, g.seek_interrupt = f.seek_interrupt
  PROVE  Good(g)
  BY DEF Good, Phased

\* The controller's clock moves to the time of a port write.
LEMMA AtGood ==
  ASSUME NEW f, NEW t, Good(f)
  PROVE  /\ Good(At(f, t)) /\ At(f, t).operation = f.operation
         /\ At(f, t).phase = f.phase /\ At(f, t).command = f.command
         /\ At(f, t).seek_busy = f.seek_busy
<1>1. Shape(At(f, t)) /\ At(f, t).operation = f.operation
      /\ At(f, t).phase = f.phase /\ At(f, t).command = f.command
      /\ At(f, t).seek_busy = f.seek_busy
      /\ At(f, t).irq_edge_pending = f.irq_edge_pending
      /\ At(f, t).seek_interrupt = f.seek_interrupt
  BY DEF Good, Shape, At
<1> QED
  BY <1>1, KeepsGood DEF Good

\* How a port write may change the pending operation and the busy drives.
Moves(f, g) ==
    \/ g.operation = f.operation /\ g.seek_busy = f.seek_busy
    \/ g.operation.kind = "seek" /\ g.seek_busy = f.seek_busy \cup {g.operation.drive}
    \/ g.operation.kind \in {"id", "transfer"} /\ g.seek_busy = f.seek_busy
    \/ g.seek_busy = {}

\* A data command enters the execution phase.
LEMMA ExecuteLemma ==
  ASSUME NEW f, NEW op, NEW g, g = Execute(f, op), Good(f), f.phase # "result",
         OpShape(op), op.kind \in {"id", "transfer"}
  PROVE  Good(g) /\ Moves(f, g)
<1>1. /\ Shape(g) /\ g.operation = op /\ g.seek_busy = f.seek_busy /\ g.phase = "execution"
      /\ g.irq_edge_pending = f.irq_edge_pending /\ g.seek_interrupt = f.seek_interrupt
  BY Zenon DEF Good, Shape, Execute
<1> QED
  BY <1>1 DEF Good, Phased, Moves

\* schedule_seek opens the command phase again with the seek pending.
LEMMA SeekLemma ==
  ASSUME NEW f, NEW d, NEW cyl, NEW g, g = ScheduleSeek(f, d, cyl), Good(f), f.phase # "result"
  PROVE  Good(g) /\ Moves(f, g)
<1>1. PICK op : /\ \E at : op = [kind |-> "seek", drive |-> d, cylinder |-> cyl, at |-> at]
                /\ g = FinishWithResult([f EXCEPT !.seek_busy = @ \cup {d}, !.operation = op],
                                        0, FALSE)
  BY Zenon DEF ScheduleSeek
<1>2. OpShape(op) /\ op.kind = "seek" /\ op.drive = d
  BY <1>1 DEF OpShape
<1>3. PICK h : h = [f EXCEPT !.seek_busy = @ \cup {d}, !.operation = op]
  OBVIOUS
<1>4. /\ Shape(h) /\ h.operation = op /\ h.seek_busy = f.seek_busy \cup {d}
      /\ h.irq_edge_pending = f.irq_edge_pending /\ h.seek_interrupt = f.seek_interrupt
  BY <1>3, Zenon DEF Good, Shape
<1>5. PICK r : g = [h EXCEPT !.command = None, !.result = r, !.phase = "command"]
  BY <1>1, <1>3, Zenon DEF FinishWithResult
<1>6. /\ Shape(g) /\ g.operation = op /\ g.seek_busy = f.seek_busy \cup {d}
      /\ g.irq_edge_pending = f.irq_edge_pending /\ g.seek_interrupt = f.seek_interrupt
      /\ g.phase = "command"
  BY <1>4, <1>5, Zenon DEF Shape
<1> QED
  BY <1>2, <1>6 DEF Good, Phased, Moves

\* SENSE INTERRUPT STATUS takes the cause away together with the request.
LEMMA SenseLemma ==
  ASSUME NEW f, NEW g, g = SenseInterrupt(f), Good(f), f.phase \in {"command", "parameters"}
  PROVE  Good(g) /\ Moves(f, g)
<1>1. CASE f.seek_interrupt
  <2>1. PICK h : h = [f EXCEPT !.seek_interrupt = FALSE, !.irq_edge_pending = FALSE]
    OBVIOUS
  <2>2. g = [h EXCEPT !.command = None, !.result = [left |-> 2, normal |-> TRUE],
                      !.phase = "result"]
    BY <1>1, <2>1 DEF SenseInterrupt, FinishWithResult
  <2>3. /\ Shape(h) /\ h.operation = f.operation /\ h.seek_busy = f.seek_busy
        /\ ~h.irq_edge_pending
    BY <2>1, Zenon DEF Good, Shape
  <2>4. /\ Shape(g) /\ g.operation = f.operation /\ g.seek_busy = f.seek_busy
        /\ ~g.irq_edge_pending /\ g.phase = "result"
    BY <2>2, <2>3, Zenon DEF Shape
  <2> QED
    BY <2>4 DEF Good, Phased, Moves
<1>2. CASE ~f.seek_interrupt
  <2>1. g = [f EXCEPT !.command = None, !.result = [left |-> 1, normal |-> FALSE],
                      !.phase = "result"]
    BY <1>2 DEF SenseInterrupt, FinishWithResult
  <2>2. /\ Shape(g) /\ g.operation = f.operation /\ g.seek_busy = f.seek_busy
        /\ g.phase = "result"
    BY <2>1, Zenon DEF Good, Shape
  <2> QED
    BY <2>2 DEF Good, Phased, Moves
<1> QED
  BY <1>1, <1>2

\* A command that is answered at once.
LEMMA AnswerLemma ==
  ASSUME NEW f, NEW g, NEW r, Good(f), f.phase \in {"command", "parameters"},
         \/ g = [f EXCEPT !.command = None, !.result = r, !.phase = "result"]
         \/ g = [f EXCEPT !.command = None, !.result = r, !.phase = "command"]
  PROVE  Good(g) /\ Moves(f, g)
<1>1. /\ Shape(g) /\ g.operation = f.operation /\ g.seek_busy = f.seek_busy
      /\ g.phase \in {"result", "command"}
      /\ g.irq_edge_pending = f.irq_edge_pending /\ g.seek_interrupt = f.seek_interrupt
  BY Zenon DEF Good, Shape
<1> QED
  BY <1>1 DEF Good, Phased, Moves

\* execute_command, for every command.
LEMMA CommandLemma ==
  ASSUME NEW f, NEW c \in Commands, NEW g, g = ExecuteCommand(f, c), Good(f),
         f.phase \in {"command", "parameters"}
  PROVE  Good(g) /\ Moves(f, g)
<1>0. c.op \in {"seek", "sense", "id", "read", "write", "status", "drive", "mode"}
  BY PathAssumption
<1>1. CASE c.op = "seek"
  BY <1>1, SeekLemma DEF ExecuteCommand
<1>2. CASE c.op = "sense"
  BY <1>2, SenseLemma DEF ExecuteCommand
<1>3. CASE c.op = "id"
  <2>1. g = ReadId(f, c.drive)
    BY <1>3 DEF ExecuteCommand
  <2>2. PICK op : /\ \E valid, at : op = [kind |-> "id", drive |-> c.drive, valid |-> valid, at |-> at]
                  /\ g = Execute(f, op)
    BY <2>1, Zenon DEF ReadId
  <2>3. OpShape(op) /\ op.kind = "id"
    BY <2>2 DEF OpShape
  <2> QED
    BY <2>2, <2>3, ExecuteLemma
<1>4. CASE c.op \in {"read", "write"}
  <2>1. g = ReadWrite(f, c)
    BY <1>4, Zenon DEF ExecuteCommand
  <2>2. PICK op : /\ \E media, moved, at :
                        op = [kind |-> "transfer", req |-> c, media |-> media, sector |-> c.sector,
                              offset |-> 0, moved_any |-> moved, at |-> at]
                  /\ g = Execute(f, op)
    BY <2>1 DEF ReadWrite
  <2>3. OpShape(op) /\ op.kind = "transfer"
    <3>1. PICK media, moved, at :
              op = [kind |-> "transfer", req |-> c, media |-> media, sector |-> c.sector,
                    offset |-> 0, moved_any |-> moved, at |-> at]
      BY <2>2, Zenon
    <3>2. /\ op.kind = "transfer" /\ op.req = c /\ op.media = media /\ op.sector = c.sector
          /\ op.offset = 0 /\ op.moved_any = moved /\ op.at = at
      BY <3>1
    <3> QED
      BY <3>1, <3>2, Zenon DEF OpShape
  <2> QED
    BY <2>2, <2>3, ExecuteLemma
<1>5. CASE c.op \in {"status", "drive"}
  <2>1. g = [f EXCEPT !.command = None, !.result = [left |-> 1, normal |-> TRUE],
                      !.phase = "result"]
    <3>1. g = FinishWithResult(f, 1, TRUE)
      BY <1>5, Zenon DEF ExecuteCommand
    <3> QED
      BY <3>1 DEF FinishWithResult
  <2> QED
    BY <2>1, AnswerLemma, Zenon
<1>6. CASE c.op = "mode"
  <2>1. g = [f EXCEPT !.command = None, !.result = [left |-> 0, normal |-> FALSE],
                      !.phase = "command"]
    BY <1>6 DEF ExecuteCommand, FinishWithResult
  <2> QED
    BY <2>1, AnswerLemma, Zenon
<1> QED
  BY <1>0, <1>1, <1>2, <1>3, <1>4, <1>5, <1>6

\* The first byte of a command, in the command phase.
LEMMA OpcodeLemma ==
  ASSUME NEW f, NEW c \in Commands, NEW g, g = WriteOpcode(f, c), Good(f), f.phase = "command"
  PROVE  Good(g) /\ Moves(f, g)
<1>1. CASE c.op \in {"sense", "status"}
  BY <1>1, CommandLemma DEF WriteOpcode
<1>2. CASE c.op \notin {"sense", "status"}
  <2>1. g = [f EXCEPT !.command = c, !.phase = "parameters", !.result = NoResult]
    BY <1>2 DEF WriteOpcode
  <2>2. /\ Shape(g) /\ g.operation = f.operation /\ g.seek_busy = f.seek_busy
        /\ g.phase = "parameters" /\ g.command = c
        /\ g.irq_edge_pending = f.irq_edge_pending /\ g.seek_interrupt = f.seek_interrupt
    BY <2>1, Zenon DEF Good, Shape
  <2> QED
    BY <2>2 DEF Good, Phased, Moves
<1> QED
  BY <1>1, <1>2

\* write_dor: a reset takes away the operation, the busy bits and the request;
\* leaving it asks for IRQ6 with the drives to be sensed.
LEMMA DorLemma ==
  ASSUME NEW f, NEW dor, NEW g, g = WriteDor(f, dor), Good(f)
  PROVE  Good(g) /\ Moves(f, g)
<1>1. PICK motors : g = LET set == [f EXCEPT !.run = dor.run, !.gate = dor.gate, !.on = dor.on,
                                              !.motors = motors]
                        IN  IF f.run /\ ~dor.run THEN EnterReset(set)
                            ELSE IF ~f.run /\ dor.run
                            THEN [set EXCEPT !.irq_edge_pending = TRUE, !.seek_interrupt = TRUE]
                            ELSE set
  BY Zenon DEF WriteDor
<1>2. PICK h : h = [f EXCEPT !.run = dor.run, !.gate = dor.gate, !.on = dor.on,
                             !.motors = motors]
  OBVIOUS
<1>3. /\ Shape(h) /\ h.operation = f.operation /\ h.seek_busy = f.seek_busy
      /\ h.phase = f.phase /\ h.command = f.command
      /\ h.irq_edge_pending = f.irq_edge_pending /\ h.seek_interrupt = f.seek_interrupt
  BY <1>2, Zenon DEF Good, Shape
<1>4. CASE g = EnterReset(h)
  <2>1. /\ Shape(g) /\ g.operation = NoOperation /\ g.seek_busy = {}
        /\ g.phase = "command" /\ ~g.irq_edge_pending
    <3>1. PICK k : k = [h EXCEPT !.phase = "command", !.command = None, !.result = NoResult,
                                 !.operation = NoOperation]
      OBVIOUS
    <3>2. g = [k EXCEPT !.seek_busy = {}, !.irq_edge_pending = FALSE, !.seek_interrupt = FALSE]
      BY <1>4, <3>1, Zenon DEF EnterReset
    <3>3. Shape(k) /\ k.operation = NoOperation /\ k.phase = "command"
      BY <1>3, <3>1, Zenon DEF Shape
    <3> QED
      BY <3>2, <3>3, Zenon DEF Shape
  <2>2. OpShape(NoOperation) /\ NoOperation.kind = "none"
    BY DEF OpShape, NoOperation
  <2> QED
    BY <2>1, <2>2 DEF Good, Phased, Moves
<1>5. CASE g = [h EXCEPT !.irq_edge_pending = TRUE, !.seek_interrupt = TRUE]
  <2>1. /\ Shape(g) /\ g.operation = f.operation /\ g.seek_busy = f.seek_busy
        /\ g.phase = f.phase /\ g.command = f.command /\ g.seek_interrupt
    BY <1>3, <1>5, Zenon DEF Shape
  <2> QED
    BY <2>1 DEF Good, Phased, Moves
<1>6. CASE g = h
  BY <1>3, <1>6 DEF Good, Phased, Moves
<1> QED
  BY <1>1, <1>2, <1>4, <1>5, <1>6

\* read_data: reading a result withdraws its request.
LEMMA ReadLemma ==
  ASSUME NEW f, NEW g, g = ReadData(f), Good(f), f.phase = "result"
  PROVE  Good(g) /\ Moves(f, g)
<1>1. /\ Shape(g) /\ g.operation = f.operation /\ g.seek_busy = f.seek_busy
      /\ g.seek_interrupt = f.seek_interrupt
  BY Zenon DEF ReadData, Good, Shape
<1>2. g.phase \in {"command", "result"} /\ (g.irq_edge_pending => g.seek_interrupt)
  BY Zenon DEF ReadData, Good, Shape
<1> QED
  BY <1>1, <1>2 DEF Good, Phased, Moves

\* Whatever a port write does, the busy drives without a seek are known.
LEMMA PortLemma ==
  ASSUME FInv, NEW g, Good(g), Moves(fdc, g), PortWrite(g)
  PROVE  FInv'
<1>1. fdc' = g /\ abandoned' = IF g.seek_busy = {} THEN {} ELSE Replaced(fdc, g)
  BY DEF PortWrite
<1>2. NoOperation.kind = "none"
  BY DEF NoOperation
<1>3. Busy(g, abandoned')
  <2>1. CASE g.seek_busy = {}
    BY <2>1 DEF Busy
  <2>2. CASE g.operation = fdc.operation /\ g.seek_busy = fdc.seek_busy
    BY <1>1, <2>2 DEF Busy, FInv, Replaced
  <2>3. CASE g.operation.kind = "seek" /\ g.seek_busy = fdc.seek_busy \cup {g.operation.drive}
    BY <1>1, <1>2, <2>3 DEF Busy, FInv, Replaced
  <2>4. CASE g.operation.kind \in {"id", "transfer"} /\ g.seek_busy = fdc.seek_busy
    BY <1>1, <1>2, <2>4 DEF Busy, FInv, Replaced
  <2> QED
    BY <2>1, <2>2, <2>3, <2>4 DEF Moves
<1> QED
  BY <1>1, <1>3 DEF FInv

\* A step that touches neither the phase nor the pending operation's kind and
\* drive, nor the interrupt's cause.
Calm(f, g) ==
    /\ Shape(g) /\ g.phase = f.phase /\ g.command = f.command
    /\ OpShape(g.operation) /\ g.operation.kind = f.operation.kind
    /\ g.operation.kind = "seek" => g.operation.drive = f.operation.drive
    /\ g.seek_busy = f.seek_busy /\ g.seek_interrupt = f.seek_interrupt
    /\ g.irq_edge_pending => f.irq_edge_pending

\* A calm step keeps what is good.
LEMMA CalmLemma ==
  ASSUME NEW f, NEW g, NEW gone, Good(f), Busy(f, gone), Calm(f, g)
  PROVE  Good(g) /\ Busy(g, gone)
<1>1. Good(g)
  BY KeepsGood DEF Calm
<1> QED
  BY <1>1 DEF Calm, Busy

\* Time passes, the disk is swapped, motors change, the controller's clock
\* catches up, the request goes to the PIC: all calm.
LEMMA CalmSteps ==
  ASSUME NEW f, Good(f), NEW k
  PROVE  /\ Calm(f, Shift(f, k)) /\ Calm(f, SetMedia(f, k)) /\ Calm(f, MotorsAtDeadline(f))
         /\ Calm(f, CaughtUp(f))
<1>1. ASSUME NEW g, g = SetMedia(f, k) \/ g = CaughtUp(f) PROVE Calm(f, g)
  BY <1>1 DEF Calm, Good, Shape, SetMedia, CaughtUp
<1>2. ASSUME NEW g, g = MotorsAtDeadline(f) PROVE Calm(f, g)
  <2>1. PICK t, motors : g = [f EXCEPT !.lead = t, !.motors = motors]
    BY <1>2, Zenon DEF MotorsAtDeadline
  <2> QED
    BY <2>1, Zenon DEF Calm, Good, Shape
<1>3. ASSUME NEW g, g = Shift(f, k) PROVE Calm(f, g)
  <2>1. /\ Shape(g) /\ g.phase = f.phase /\ g.command = f.command
        /\ g.operation = [f.operation EXCEPT !.at = Later(f.operation.at, k)]
        /\ g.seek_busy = f.seek_busy /\ g.seek_interrupt = f.seek_interrupt
        /\ g.irq_edge_pending = f.irq_edge_pending
    BY <1>3, Zenon DEF Shift, Good, Shape
  <2>2. /\ OpShape(g.operation) /\ g.operation.kind = f.operation.kind
        /\ g.operation.kind = "seek" => g.operation.drive = f.operation.drive
    BY <2>1 DEF Good, OpShape
  <2> QED
    BY <2>1, <2>2 DEF Calm
<1> QED
  BY <1>1, <1>2, <1>3

\* take_irq can only withdraw the request.
LEMMA TakeLemma == ASSUME NEW f, Good(f), NEW g, g = TakeIrq(f) PROVE Calm(f, g)
<1>1. /\ Shape(g) /\ g.phase = f.phase /\ g.command = f.command /\ g.operation = f.operation
      /\ g.seek_busy = f.seek_busy /\ g.seek_interrupt = f.seek_interrupt
  BY DEF TakeIrq, Good, Shape
<1>2. g.irq_edge_pending => f.irq_edge_pending
  BY Zenon DEF TakeIrq, Good, Shape
<1> QED
  BY <1>1, <1>2 DEF Calm, Good

\* complete_seek: the seek becomes the cause of a request.
LEMMA SeekEnds ==
  ASSUME NEW f, NEW g, NEW gone, g = CompleteSeek(f), Good(f), Busy(f, gone),
         f.operation.kind = "seek"
  PROVE  Good(g) /\ Busy(g, gone)
<1>1. /\ Shape(g) /\ g.operation = NoOperation /\ g.phase = f.phase /\ g.command = f.command
      /\ g.seek_interrupt /\ g.seek_busy = f.seek_busy \ {f.operation.drive}
  BY Zenon DEF Good, Shape, CompleteSeek
<1>2. OpShape(NoOperation) /\ NoOperation.kind = "none"
  BY DEF OpShape, NoOperation
<1> QED
  BY <1>1, <1>2 DEF Good, Phased, Busy

\* The end of a data command: its result is the request's cause.
LEMMA CompleteLemma ==
  ASSUME NEW f, NEW g, NEW normal, NEW gone, g = Complete(f, normal), Shape(f),
         Busy(f, gone), f.operation.kind # "seek"
  PROVE  Good(g) /\ Busy(g, gone)
<1>1. PICK h : h = [f EXCEPT !.operation = NoOperation, !.seek_interrupt = FALSE,
                             !.irq_edge_pending = TRUE]
  OBVIOUS
<1>2. PICK r : g = [h EXCEPT !.command = None, !.result = r, !.phase = "result"]
  BY <1>1, FdcAssumption, Zenon DEF Complete, FinishWithResult
<1>3. Shape(h) /\ h.operation = NoOperation /\ h.seek_busy = f.seek_busy
  BY <1>1, Zenon DEF Shape
<1>4. Shape(g) /\ g.operation = NoOperation /\ g.seek_busy = f.seek_busy /\ g.phase = "result"
  BY <1>2, <1>3, Zenon DEF Shape
<1>5. OpShape(NoOperation) /\ NoOperation.kind = "none"
  BY DEF OpShape, NoOperation
<1> QED
  BY <1>4, <1>5 DEF Good, Phased, Busy

\* A transfer at the first byte of its next sector is a transfer.
NextSector(op, sector, offset, at) ==
    [op EXCEPT !.sector = sector, !.offset = offset, !.at = at]

\* See NextSector.
LEMMA TransferLemma ==
  ASSUME NEW op, OpShape(op), op.kind = "transfer", NEW sector, NEW offset, NEW at
  PROVE  /\ OpShape(NextSector(op, sector, offset, at))
         /\ NextSector(op, sector, offset, at).kind = "transfer"
<1>0. PICK a, b, c : /\ a = [op EXCEPT !.sector = sector] /\ b = [a EXCEPT !.offset = offset]
                     /\ c = [b EXCEPT !.at = at]
  BY Zenon
<1>1. op = [kind |-> "transfer", req |-> op.req, media |-> op.media, sector |-> op.sector,
            offset |-> op.offset, moved_any |-> op.moved_any, at |-> op.at]
  BY DEF OpShape
<1>2. a = [kind |-> "transfer", req |-> op.req, media |-> op.media, sector |-> sector,
            offset |-> op.offset, moved_any |-> op.moved_any, at |-> op.at]
  BY <1>0, <1>1
<1>3. b = [kind |-> "transfer", req |-> op.req, media |-> op.media, sector |-> sector,
            offset |-> offset, moved_any |-> op.moved_any, at |-> op.at]
  BY <1>0, <1>2, Zenon
<1>4. c = [kind |-> "transfer", req |-> op.req, media |-> op.media, sector |-> sector,
            offset |-> offset, moved_any |-> op.moved_any, at |-> at]
  BY <1>0, <1>3, Zenon
<1>5. OpShape(c) /\ c.kind = "transfer"
  BY <1>4 DEF OpShape
<1>6. c = NextSector(op, sector, offset, at)
  BY <1>0 DEF NextSector
<1> QED
  BY <1>5, <1>6

\* complete_dma_byte: the transfer goes on, or ends with a result.
LEMMA ByteLemma ==
  ASSUME NEW f, NEW g, NEW moved, NEW tc, NEW gone, g = CompleteDmaByte(f, moved, tc), Good(f),
         Busy(f, gone), f.operation.kind = "transfer"
  PROVE  Good(g) /\ Busy(g, gone)
<1>1. PICK op : op = [f.operation EXCEPT !.moved_any = TRUE, !.offset = @ + 1]
  OBVIOUS
<1>2. PICK h : h = [f EXCEPT !.operation = op]
  BY Zenon
<1>3. OpShape(op) /\ op.kind = "transfer"
  BY <1>1, Zenon DEF Good, OpShape
<1>4. Shape(h) /\ h.operation = op /\ h.seek_busy = f.seek_busy /\ h.phase = f.phase
      /\ h.command = f.command /\ h.seek_interrupt = f.seek_interrupt
      /\ h.irq_edge_pending = f.irq_edge_pending
  BY <1>2 DEF Good, Shape
<1>5. Good(h) /\ Busy(h, gone)
  BY <1>3, <1>4, CalmLemma DEF Calm
<1>6. CASE \E b : g = FinishTransfer(f, b)
  BY <1>6, CompleteLemma DEF FinishTransfer, Good
<1>7. CASE \E b : g = FinishTransfer(h, b)
  BY <1>3, <1>4, <1>5, <1>7, CompleteLemma DEF FinishTransfer
<1>8. ASSUME NEW next, OpShape(next), next.kind = "transfer", g = [f EXCEPT !.operation = next]
      PROVE  Good(g) /\ Busy(g, gone)
  <2>1. Calm(f, g)
    BY <1>8 DEF Calm, Good, Shape
  <2> QED
    BY <2>1, CalmLemma
<1>9. op = [kind |-> "transfer", req |-> op.req, media |-> op.media, sector |-> op.sector,
            offset |-> op.offset, moved_any |-> op.moved_any, at |-> op.at]
  BY <1>3 DEF OpShape
<1>10. CASE moved /\ ~tc /\ op.offset < SectorBytes
  <2>1. PICK next : next = [op EXCEPT !.at = DeadlineAfter(f, ByteTicks)]
    BY Zenon
  <2>2. g = [f EXCEPT !.operation = next]
    BY <1>1, <1>10, <2>1 DEF CompleteDmaByte
  <2>3. OpShape(next) /\ next.kind = "transfer"
    BY <1>9, <2>1 DEF OpShape
  <2> QED
    BY <1>8, <2>2, <2>3
<1>11. CASE moved /\ ~tc /\ ~(op.offset < SectorBytes) /\ ~(op.sector >= op.req.end)
            /\ ~(op.sector + 1 > Sectors)
  <2>1. PICK at, sector, offset :
            /\ at = DeadlineAfter(f, RotationWait(f, op.req.drive, op.sector + 1, f.lead))
            /\ sector = op.sector + 1 /\ offset = 0
    OBVIOUS
  <2>2. PICK next : next = NextSector(op, sector, offset, at)
    OBVIOUS
  <2>3. OpShape(next) /\ next.kind = "transfer"
    BY <1>3, <2>2, TransferLemma
  <2>4. g = [f EXCEPT !.operation = next]
    BY <1>1, <1>11, <2>1, <2>2, Zenon DEF CompleteDmaByte, NextSector
  <2> QED
    BY <1>8, <2>3, <2>4
<1> QED
  BY <1>1, <1>2, <1>6, <1>7, <1>10, <1>11, Zenon DEF CompleteDmaByte

\* At power-on nothing is pending.
LEMMA InitFInv == Init => FInv
<1> SUFFICES ASSUME Init PROVE FInv
  OBVIOUS
<1>1. PICK f : f = FdcInit
  OBVIOUS
<1>2. /\ Shape(f) /\ f.operation = NoOperation /\ f.phase = "command" /\ f.seek_busy = {}
      /\ ~f.irq_edge_pending
  BY <1>1 DEF FdcInit, Shape
<1>3. fdc = [f EXCEPT !.media = TRUE]
  BY <1>1 DEF Init
<1>4. /\ Shape(fdc) /\ fdc.operation = NoOperation /\ fdc.phase = "command"
      /\ fdc.seek_busy = {} /\ ~fdc.irq_edge_pending
  BY <1>2, <1>3, Zenon DEF Shape
<1>5. OpShape(NoOperation) /\ NoOperation.kind = "none"
  BY DEF OpShape, NoOperation
<1> QED
  BY <1>4, <1>5 DEF FInv, Good, Phased, Busy

\* No port access breaks the invariant.
LEMMA GuestFInv == ASSUME FInv, Guest PROVE FInv'
<1> DEFINE now == Now(fdc)
<1>1. /\ Good(now) /\ now.operation = fdc.operation /\ now.phase = fdc.phase
      /\ now.command = fdc.command /\ now.seek_busy = fdc.seek_busy
  BY AtGood DEF FInv, Now
<1>2. ASSUME NEW g, Moves(now, g) PROVE Moves(fdc, g)
  BY <1>1, <1>2 DEF Moves
<1> HIDE DEF now
<1>3. CASE GuestWritesDor
  <2>1. PICK dor \in DorValues : PortWrite(WriteDor(now, dor))
    BY <1>3 DEF GuestWritesDor, now
  <2> QED
    BY <1>1, <1>2, <2>1, DorLemma, PortLemma
<1>4. CASE GuestCommands
  <2>1. CASE fdc.phase = "command" /\ \E c \in Commands : PortWrite(WriteOpcode(now, c))
    BY <1>1, <1>2, <2>1, OpcodeLemma, PortLemma
  <2>2. CASE fdc.phase = "parameters" /\ PortWrite(WriteParameters(now))
    <3>1. now.command \in Commands
      BY <1>1, <2>2 DEF Good, Phased
    <3> QED
      BY <1>1, <1>2, <2>2, <3>1, CommandLemma, PortLemma DEF WriteParameters
  <2> QED
    BY <1>4, <2>1, <2>2 DEF GuestCommands, now
<1>5. CASE GuestReadsResult
  BY <1>5, ReadLemma, PortLemma DEF GuestReadsResult, FInv
<1>6. CASE HostSwapsDisk
  BY <1>6, CalmSteps, CalmLemma DEF HostSwapsDisk, FInv
<1>7. CASE UNCHANGED <<fdc, abandoned>>
  BY <1>7 DEF FInv
<1> QED
  BY <1>3, <1>4, <1>5, <1>6, <1>7
     DEF Guest, GuestProgramsDma, GuestRuns, BatchEnds

\* The byte the head is over is asked of the DMA channel: calm.
LEMMA AskLemma ==
  ASSUME NEW f, Good(f), NEW g, g = AskForByte(f) PROVE Calm(f, g)
<1>1. /\ Shape(g) /\ g.phase = f.phase /\ g.command = f.command
      /\ g.operation = [f.operation EXCEPT !.at = None]
      /\ g.seek_busy = f.seek_busy /\ g.seek_interrupt = f.seek_interrupt
      /\ g.irq_edge_pending = f.irq_edge_pending
  BY Zenon DEF AskForByte, Good, Shape
<1>2. /\ OpShape(g.operation) /\ g.operation.kind = f.operation.kind
      /\ g.operation.kind = "seek" => g.operation.drive = f.operation.drive
  BY <1>1 DEF Good, OpShape
<1> QED
  BY <1>1, <1>2 DEF Calm

\* Forgetting replaced seeks whose busy bit is gone loses nothing.
LEMMA BusyShrinks ==
  ASSUME NEW f, NEW gone, Busy(f, gone) PROVE Busy(f, gone \cap f.seek_busy)
  BY DEF Busy

\* One round of advance_to keeps the invariant.
LEMMA ServeFInv == ASSUME FInv, DevicesServe PROVE FInv'
<1>1. PICK f : f = MotorsAtDeadline(fdc)
  OBVIOUS
<1>2. Calm(fdc, f) /\ Good(f) /\ Busy(f, abandoned)
  BY <1>1, CalmSteps, CalmLemma DEF FInv
<1>3. PICK kind : kind = IF OperationDue(fdc) THEN fdc.operation.kind ELSE "motor"
  OBVIOUS
<1>4. kind = "motor" \/ (kind \in {"seek", "id", "transfer"} /\ f.operation.kind = kind)
  <2>1. fdc.operation.kind = f.operation.kind
    BY <1>2 DEF Calm
  <2>2. fdc.operation.kind # "none" => fdc.operation.kind \in {"seek", "id", "transfer"}
    BY DEF FInv, Good, OpShape
  <2> QED
    BY <1>3, <2>1, <2>2 DEF OperationDue
<1>5. IF kind = "transfer" /\ TransferValid(f)
      THEN Serve(AskForByte(f))
      ELSE /\ fdc' = CASE kind = "motor" -> f
                       [] kind = "seek" -> CompleteSeek(f)
                       [] kind = "id" -> CompleteReadId(f)
                       [] kind = "transfer" -> FinishTransfer(f, FALSE)
           /\ UNCHANGED <<dma, xfer>>
  BY <1>1, <1>3, Zenon DEF DevicesServe
<1>6. Good(fdc') /\ Busy(fdc', abandoned)
  <2>1. CASE kind = "transfer" /\ TransferValid(f)
    <3>1. PICK g : g = AskForByte(f)
      OBVIOUS
    <3>2. Calm(f, g) /\ Good(g) /\ Busy(g, abandoned)
      BY <1>2, <3>1, AskLemma, CalmLemma
    <3>3. g.operation.kind = "transfer"
      BY <1>4, <2>1, <3>2 DEF Calm
    <3>4. PICK moved, tc : fdc' = CompleteDmaByte(g, moved, tc)
      BY <1>5, <2>1, <3>1, Zenon DEF Serve
    <3> QED
      BY <3>2, <3>3, <3>4, ByteLemma
  <2>2. CASE kind = "motor"
    BY <1>2, <1>5, <2>2
  <2>3. CASE kind = "seek"
    BY <1>2, <1>4, <1>5, <2>3, SeekEnds
  <2>4. CASE kind = "id"
    <3>1. PICK normal : fdc' = Complete(f, normal)
      BY <1>5, <2>4 DEF CompleteReadId
    <3> QED
      BY <1>2, <1>4, <2>4, <3>1, CompleteLemma DEF Good
  <2>5. CASE kind = "transfer" /\ ~TransferValid(f)
    <3>1. PICK normal : fdc' = Complete(f, normal)
      BY <1>5, <2>5 DEF FinishTransfer
    <3> QED
      BY <1>2, <1>4, <2>5, <3>1, CompleteLemma DEF Good
  <2> QED
    BY <1>4, <2>1, <2>2, <2>3, <2>4, <2>5
<1>7. abandoned' = abandoned \cap fdc'.seek_busy
  BY DEF DevicesServe
<1> QED
  BY <1>6, <1>7, BusyShrinks DEF FInv

\* Every step keeps the invariant.
LEMMA NextFInv == FInv /\ [Next]_vars => FInv'
<1> SUFFICES ASSUME FInv, [Next]_vars PROVE FInv'
  OBVIOUS
<1>1. CASE Guest
  BY <1>1, GuestFInv
<1>2. CASE DevicesStep
  BY <1>2, CalmSteps, CalmLemma DEF DevicesStep, FInv
<1>3. CASE DevicesServe
  BY <1>3, ServeFInv
<1>4. CASE DevicesDone
  <2>1. PICK f : f = CaughtUp(fdc)
    OBVIOUS
  <2>2. Good(f) /\ Busy(f, abandoned)
    BY <2>1, CalmSteps, CalmLemma DEF FInv
  <2>3. fdc' = TakeIrq(f) /\ abandoned' = abandoned
    BY <1>4, <2>1 DEF DevicesDone
  <2> QED
    BY <2>2, <2>3, TakeLemma, CalmLemma DEF FInv
<1>5. CASE UNCHANGED vars
  BY <1>5 DEF FInv, vars
<1> QED
  BY <1>1, <1>2, <1>3, <1>4, <1>5 DEF Next, Devices

-----------------------------------------------------------------------------
\* The controller's invariant: the phase and the pending operation agree, a
\* request has its cause, and a busy drive its seek.
THEOREM FInvHolds == Spec => []FInv
  BY InitFInv, NextFInv, PTL DEF Spec

\* A request for IRQ6 has a cause the handler can find, whatever port accesses,
\* resets, disk swaps and events interleave.
THEOREM CauseTheorem == Spec => []IrqHasCause
<1>1. FInv => IrqHasCause
  BY DEF FInv, Good, Phased, IrqHasCause
<1> QED
  BY <1>1, FInvHolds, PTL

\* A busy bit without its pending seek is one the guest's own next command
\* replaced.
THEOREM BusyTheorem == Spec => []BusyHasSeek
<1>1. FInv => BusyHasSeek
  BY DEF FInv, Busy, BusyHasSeek
<1> QED
  BY <1>1, FInvHolds, PTL
=============================================================================
