--------------------------- MODULE Controller8042 ---------------------------
(***************************************************************************)
(* The methods of the keyboard controller in crates/izarravm-machine/src/  *)
(* keyboard.rs (struct Keyboard8042), which multiplexes the keyboard and   *)
(* the mouse of Ps2Mouse onto one output register.  A controller is a      *)
(* record and every method an operator on it; Keyboard8042 drives one.     *)
(*                                                                         *)
(* Command values are the bytes of the code; a byte on its way to the      *)
(* guest is a record naming its origin.  Left out, because no code outside *)
(* the tests reads them or they are only reported back: irq_armed,         *)
(* irq12_armed, the SYS and CMD status bits, scan_set, last_byte and the   *)
(* output port except its A20 bit.                                         *)
(***************************************************************************)
EXTENDS Ps2Mouse

CONSTANTS
    None,
    InputTicks, DeviceTicks     \* CONTROLLER_INPUT_TICKS, DEVICE_BYTE_TICKS

ASSUME TicksAssumption == InputTicks \in Nat \ {0} /\ DeviceTicks \in Nat \ {0}

Key(n) == [kind |-> "key", n |-> n]
KeyReply == [kind |-> "keyreply"]       \* a keyboard's answer, or a resend
Response == [kind |-> "response"]       \* the controller's own answer

PowerOnController ==
    [queue |-> <<>>, output |-> None, output_is_aux |-> FALSE, status |-> {},
     command_byte |-> {"irq1"}, expecting_command_data |-> NoCommand, a20 |-> TRUE,
     kbd_expecting_data |-> NoCommand, mouse |-> PowerOnMouse, pending_input |-> None,
     input_ticks |-> 0, device_byte_ticks |-> None, device_byte_ready |-> FALSE,
     mouse_sample_ticks |-> None]

-----------------------------------------------------------------------------
(* The serial wire and the output register.                                *)

Full(k) == "OBF" \in k.status
KeyReady(k) == "kbd_off" \notin k.command_byte /\ k.queue # <<>>
AuxReady(k) == "aux_off" \notin k.command_byte /\ k.mouse.queue # <<>>
QueuedDeviceByte(k) == KeyReady(k) \/ AuxReady(k)

ScheduleAt(k, prefix) ==
    IF ~Full(k) /\ ~k.device_byte_ready /\ k.device_byte_ticks = None /\ QueuedDeviceByte(k)
    THEN [k EXCEPT !.device_byte_ticks = prefix + DeviceTicks]
    ELSE k

Schedule(k) == ScheduleAt(k, 0)

\* latch_ready_device_byte: never over an unread byte, keyboard first.
LatchReady(k) ==
    IF Full(k) THEN k
    ELSE IF KeyReady(k)
    THEN [k EXCEPT !.output = Head(k.queue), !.output_is_aux = FALSE, !.queue = Tail(@),
                   !.status = (@ \ {"AUX"}) \cup {"OBF"}, !.device_byte_ready = FALSE]
    ELSE IF AuxReady(k)
    THEN [k EXCEPT !.output = Head(k.mouse.queue), !.output_is_aux = TRUE,
                   !.mouse.queue = Tail(@), !.status = @ \cup {"OBF", "AUX"},
                   !.device_byte_ready = FALSE]
    ELSE k

LatchIfReady(k) == IF k.device_byte_ready THEN LatchReady(k) ELSE k

\* Mutant: the unread byte goes behind the bytes that came after it.
PushBackLast(k) ==
    IF ~Full(k) THEN k
    ELSE IF k.output_is_aux
    THEN [k EXCEPT !.mouse.queue = Append(@, k.output), !.device_byte_ready = TRUE]
    ELSE [k EXCEPT !.queue = Append(@, k.output), !.device_byte_ready = TRUE]

\* respond_controller first returns an unread byte to its stream.
PushBack(k) ==
    IF ~Full(k) THEN k
    ELSE IF k.output_is_aux
    THEN [k EXCEPT !.mouse.queue = <<k.output>> \o @, !.device_byte_ready = TRUE]
    ELSE [k EXCEPT !.queue = <<k.output>> \o @, !.device_byte_ready = TRUE]

RespondController(k) ==
    [PushBack(k) EXCEPT !.output = Response, !.output_is_aux = FALSE,
                        !.status = (@ \ {"AUX"}) \cup {"OBF"}]

PushCodes(k, codes) == Schedule([k EXCEPT !.queue = @ \o codes])

\* Mutant: the sample clock is not armed for what the first packet left over.
KickOnce(k) ==
    IF k.mouse_sample_ticks # None THEN k
    ELSE LET s == [k EXCEPT !.mouse = Sample(@)]
         IN  IF SampleQueues(k.mouse) THEN Schedule(s) ELSE s

\* kick_mouse_sample
KickMouseSample(k) ==
    IF k.mouse_sample_ticks # None THEN k
    ELSE LET s == [k EXCEPT !.mouse = Sample(@)]
             t == IF SampleQueues(k.mouse) THEN Schedule(s) ELSE s
         IN  IF StatePending(t.mouse)
             THEN [t EXCEPT !.mouse_sample_ticks = SamplePeriod(t.mouse)] ELSE t

-----------------------------------------------------------------------------
(* Input the guest wrote, processed CONTROLLER_INPUT_TICKS later.          *)

Bit(v, b) == (v \div b) % 2 = 1

CommandByte(v) ==
    {f \in {"irq1", "irq12", "kbd_off", "aux_off"} :
        Bit(v, CASE f = "irq1" -> 1 [] f = "irq12" -> 2 [] f = "kbd_off" -> 16
                 [] f = "aux_off" -> 32)}

KeyReplies(n) == [i \in 1 .. n |-> KeyReply]

\* 0xF0 with parameter 0 asks for the scan code set; 0xFF, 0xF2 answer more
\* than an acknowledge; 0xFE queues the last byte again.
WriteKeyboardByte(k, v) ==
    IF k.kbd_expecting_data # NoCommand
    THEN PushCodes([k EXCEPT !.kbd_expecting_data = NoCommand],
                   KeyReplies(IF k.kbd_expecting_data = 240 /\ v = 0 THEN 2 ELSE 1))
    ELSE CASE v = 255 -> PushCodes(k, KeyReplies(2))
           [] v = 242 -> PushCodes(k, KeyReplies(3))
           [] v \in {240, 243} -> PushCodes([k EXCEPT !.kbd_expecting_data = v], KeyReplies(1))
           [] OTHER -> PushCodes(k, KeyReplies(1))

ProcessData(k, v) ==
    LET n == [k EXCEPT !.expecting_command_data = NoCommand]
    IN  CASE k.expecting_command_data = NoCommand -> WriteKeyboardByte(k, v)
          [] k.expecting_command_data = 96 -> [n EXCEPT !.command_byte = CommandByte(v)]
          [] k.expecting_command_data = 212 ->
                 KickMouseSample([n EXCEPT !.mouse = WriteMouseByte(@, v)])
          [] k.expecting_command_data = 209 -> [n EXCEPT !.a20 = Bit(v, 2)]

ProcessCommand(k, v) ==
    CASE v \in {170, 171, 169, 32, 208, 192, 224} -> RespondController(k)
      [] v \in {96, 212, 209} -> [k EXCEPT !.expecting_command_data = v]
      [] v = 167 -> [k EXCEPT !.command_byte = @ \cup {"aux_off"}]
      [] v = 168 -> [k EXCEPT !.command_byte = @ \ {"aux_off"}]
      [] v = 173 -> [k EXCEPT !.command_byte = @ \cup {"kbd_off"}]
      [] v = 174 -> [k EXCEPT !.command_byte = @ \ {"kbd_off"}]
      [] OTHER -> k

ProcessInput(k, input) ==
    LET n == [k EXCEPT !.status = @ \ {"IBF"}]
        p == IF input.port = 100 THEN ProcessCommand(n, input.value) ELSE ProcessData(n, input.value)
    IN  Schedule(LatchIfReady(p))

-----------------------------------------------------------------------------
(* Time.                                                                   *)

Timers(k) == {t \in {k.device_byte_ticks, k.mouse_sample_ticks} : t # None}
             \cup (IF k.pending_input = None THEN {} ELSE {k.input_ticks})

Minus(t, n) == IF t = None THEN None ELSE t - n

Elapse(k, n) ==
    [k EXCEPT !.input_ticks = IF k.pending_input = None THEN @ ELSE @ - n,
              !.device_byte_ticks = Minus(@, n),
              !.mouse_sample_ticks = Minus(@, n)]

InputDue(k) ==
    IF k.input_ticks = 0 /\ k.pending_input # None
    THEN ProcessInput([k EXCEPT !.pending_input = None], k.pending_input) ELSE k

ByteDue(k) ==
    IF k.device_byte_ticks = 0
    THEN LatchReady([k EXCEPT !.device_byte_ticks = None, !.device_byte_ready = TRUE]) ELSE k

SampleDue(k) ==
    IF k.mouse_sample_ticks = 0
    THEN LET m == Sample(k.mouse)
         IN  [k EXCEPT !.mouse = m,
                       !.mouse_sample_ticks = IF StatePending(m) THEN SamplePeriod(m) ELSE None]
    ELSE k

\* The first deadlines reached: input, then wire, then sample clock.
Fire(k) == Schedule(SampleDue(ByteDue(InputDue(k))))

\* What the controller drives onto the keyboard's interrupt line.
Irq1Level(k) == Full(k) /\ ~k.output_is_aux /\ "irq1" \in k.command_byte

\* Mutant: the next transfer is not started once the register is read.
ReadUnscheduled(k, prefix) ==
    LatchIfReady([k EXCEPT !.status = @ \ {"OBF", "AUX"}, !.output_is_aux = FALSE])

\* A read empties the register at once and lets a waiting byte in.
ReadOutput(k, prefix) ==
    ScheduleAt(LatchIfReady([k EXCEPT !.status = @ \ {"OBF", "AUX"}, !.output_is_aux = FALSE]),
               prefix)

\* A write while the input buffer is full is lost.
AcceptInput(k, port, v, prefix) ==
    IF k.pending_input # None THEN k
    ELSE [k EXCEPT !.pending_input = [port |-> port, value |-> v],
                   !.input_ticks = prefix + InputTicks, !.status = @ \cup {"IBF"}]

SetMouseIrq(k, on) ==
    IF on THEN Schedule(LatchIfReady([k EXCEPT !.command_byte = @ \cup {"irq12"}]))
    ELSE [k EXCEPT !.command_byte = @ \ {"irq12"}]

SetMouseReporting(k, on) == KickMouseSample([k EXCEPT !.mouse = SetReporting(@, on)])

=============================================================================
