------------------------------ MODULE Ps2Mouse ------------------------------
(***************************************************************************)
(* The PS/2 auxiliary device of crates/izarravm-machine/src/mouse.rs       *)
(* (struct Ps2Mouse).  Like Pic this module has no variables: a mouse is a *)
(* record, a method an operator on it, and Keyboard8042 owns the mouse.    *)
(*                                                                         *)
(* Commands and parameters are the byte values of the code.  A byte on its *)
(* way to the guest is a record that says what it is: "reply" for an       *)
(* answer to a command (its value does not matter here) and "flags", "x",  *)
(* "y", "z" for the parts of a movement packet.  resolution, scaling_2to1  *)
(* and device_id are left out: they are only ever reported back.           *)
(***************************************************************************)
EXTENDS Integers, Sequences, SequencesExt

CONSTANTS
    Radix,      \* values of one packet byte (256 in the code)
    Wheel,      \* largest negative wheel step of a packet (8 in the code)
    MaxMotion,  \* largest value of an accumulator (i32::MAX in the code)
    MasterHz    \* master-clock ticks per second

ASSUME MouseAssumption ==
    /\ Radix \in Nat \ {0} /\ Wheel \in Nat \ {0} /\ 2 * Wheel <= Radix
    /\ MaxMotion \in Nat /\ Radix <= MaxMotion /\ MasterHz \in Nat

NoCommand == 0
Axes == {"x", "y", "z"}
Still == [a \in Axes |-> 0]

PowerOnMouse ==
    [queue |-> <<>>, reporting |-> FALSE, sample_rate |-> 100, buttons |-> 0,
     expecting_data |-> NoCommand, intellimouse |-> FALSE,
     rate_history |-> <<0, 0, 0>>, pending |-> Still, host_buttons |-> 0]

Clamp(v, lo, hi) == IF v < lo THEN lo ELSE IF v > hi THEN hi ELSE v
SaturatingAdd(a, b) == Clamp(a + b, -MaxMotion - 1, MaxMotion)

HostUpdate(m, d, buttons) ==
    [m EXCEPT !.pending = [a \in Axes |-> SaturatingAdd(@[a], d[a])],
              !.host_buttons = buttons]

StatePending(m) == m.reporting /\ (m.pending # Still \/ m.host_buttons # m.buttons)

SamplePeriod(m) == MasterHz \div (IF m.sample_rate = 0 THEN 1 ELSE m.sample_rate)

DropPending(m) == [m EXCEPT !.pending = Still, !.buttons = m.host_buttons]

SetReporting(m, on) ==
    LET n == [m EXCEPT !.reporting = on] IN IF on THEN n ELSE DropPending(n)

-----------------------------------------------------------------------------
(* Movement packets: nine-bit two's complement, the sign in the first byte *)
(* and y turned round; the wheel is a signed byte.                         *)

Packet(cx, cy, buttons) ==
    <<[kind |-> "flags", buttons |-> buttons, xneg |-> cx < 0, yneg |-> cy < 0],
      [kind |-> "x", low |-> cx % Radix],
      [kind |-> "y", low |-> cy % Radix]>>

WheelByte(cz) == <<[kind |-> "z", low |-> cz % Radix]>>

QueueMovement(m, d) ==
    LET cx == Clamp(d["x"], -Radix, Radix - 1)
        cy == Clamp(-d["y"], -Radix, Radix - 1)
        cz == Clamp(d["z"], -Wheel, Wheel - 1)
        bytes == Packet(cx, cy, m.host_buttons)
                 \o (IF m.intellimouse THEN WheelByte(cz) ELSE <<>>)
    IN  [m EXCEPT !.buttons = m.host_buttons, !.queue = @ \o bytes]

\* Mutant: both axes are clamped to the same range, although y is negated.
SameClamp(m) ==
    [x |-> Clamp(m.pending["x"], -Radix, Radix - 1),
     y |-> Clamp(m.pending["y"], -Radix, Radix - 1),
     z |-> IF m.intellimouse THEN Clamp(m.pending["z"], -Wheel, Wheel - 1) ELSE 0]

\* What one packet takes out of the accumulators.
Portion(m) ==
    [x |-> Clamp(m.pending["x"], -Radix, Radix - 1),
     y |-> Clamp(m.pending["y"], 1 - Radix, Radix),
     z |-> IF m.intellimouse THEN Clamp(m.pending["z"], -Wheel, Wheel - 1) ELSE 0]

SampleQueues(m) == StatePending(m) /\ m.queue = <<>>

\* A standard mouse has no wheel byte: its detents are discarded.
Sample(m) ==
    LET d == Portion(m)
        rest == [a \in Axes |-> IF a = "z" /\ ~m.intellimouse THEN 0 ELSE m.pending[a] - d[a]]
    IN  IF ~m.reporting THEN DropPending(m)
        ELSE IF SampleQueues(m) THEN QueueMovement([m EXCEPT !.pending = rest], d)
        ELSE m

-----------------------------------------------------------------------------
(* Commands the guest writes through the controller.                       *)

EnableWheel(m) == [m EXCEPT !.intellimouse = TRUE]

SetSampleRate(m, rate) ==
    LET history == <<m.rate_history[2], m.rate_history[3], rate>>
        n == [m EXCEPT !.sample_rate = rate, !.rate_history = history]
    IN  IF history = <<200, 100, 80>> THEN EnableWheel(n) ELSE n

\* INT 15h C202 rate codes; a code above 6 is refused.
RateOfCode == <<10, 20, 40, 60, 80, 100, 200>>
SetSampleRateCode(m, code) == IF code <= 6 THEN SetSampleRate(m, RateOfCode[code + 1]) ELSE m

\* Mutant: an answer overtakes what is already queued.
RepliesFirst(m, n) == [m EXCEPT !.queue = [i \in 1 .. n |-> [kind |-> "reply"]] \o @]

Replies(m, n) == [m EXCEPT !.queue = @ \o [i \in 1 .. n |-> [kind |-> "reply"]]]

Defaults(m) ==
    [SetReporting(m, FALSE) EXCEPT !.sample_rate = 100, !.intellimouse = FALSE,
                                   !.rate_history = <<0, 0, 0>>]

WriteMouseByte(m, v) ==
    IF m.expecting_data # NoCommand
    THEN LET n == [m EXCEPT !.expecting_data = NoCommand]
         IN  Replies(IF m.expecting_data = 243 THEN SetSampleRate(n, v) ELSE n, 1)
    ELSE CASE v = 255 -> Replies(Defaults(m), 3)
           [] v = 246 -> Replies(Defaults(m), 1)
           [] v = 244 -> Replies([m EXCEPT !.reporting = TRUE], 1)
           [] v = 245 -> Replies(SetReporting(m, FALSE), 1)
           [] v \in {243, 232} -> Replies([m EXCEPT !.expecting_data = v], 1)
           [] v = 233 -> Replies(m, 4)
           [] v = 242 -> Replies(m, 2)
           [] OTHER -> Replies(m, 1)

-----------------------------------------------------------------------------
(* The driver at the other end of the wire: what it makes of the bytes.    *)

Undecoded == [last |-> [kind |-> "reply"], xneg |-> FALSE, yneg |-> FALSE,
              moved |-> Still]

Decode(driver, b) ==
    LET Add(a, n) == [driver EXCEPT !.last = b, !.moved[a] = @ + n]
    IN  CASE b.kind = "flags" -> [driver EXCEPT !.last = b, !.xneg = b.xneg, !.yneg = b.yneg]
          [] b.kind = "x" -> Add("x", b.low - (IF driver.xneg THEN Radix ELSE 0))
          [] b.kind = "y" -> Add("y", (IF driver.yneg THEN Radix ELSE 0) - b.low)
          [] b.kind = "z" -> Add("z", b.low - (IF 2 * b.low >= Radix THEN Radix ELSE 0))
          [] OTHER -> [driver EXCEPT !.last = b]

DecodeAll(driver, bytes) == FoldLeft(Decode, driver, bytes)
=============================================================================
