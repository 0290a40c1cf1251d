---------------------------- MODULE Keyboard8042 ----------------------------
(***************************************************************************)
(* The keyboard controller at work.  Three actors call it: the host window *)
(* (keys, motion), the guest (ports 0x60 and 0x64, and the BIOS pointing   *)
(* device services that reach into it) and the machine's clock.            *)
(*                                                                         *)
(* advance_master_ticks is one step per iteration of its loop: remaining   *)
(* is the loop's counter, and nothing else runs while it is positive.      *)
(***************************************************************************)
EXTENDS Controller8042

CONSTANT
    Sessions    \* what host and guest may do in a run, and the bounds of the run

ASSUME KeyboardAssumption ==
    \A s \in Sessions :
        /\ s.prefixes \subseteq Nat /\ s.advances \subseteq Nat \ {0}
        /\ s.commands \subseteq 0 .. 255 /\ s.data \subseteq 0 .. 255
        /\ s.services \subseteq {"enable", "disable", "rate", "a20"}
        /\ s.rates \subseteq Nat
        /\ s.motions \subseteq [Axes -> Int] /\ s.buttons \subseteq 0 .. 7
        /\ {s.keys, s.moves, s.queued} \subseteq Nat

VARIABLES
    kbc, remaining,
    session,                    \* chosen once
    pushed, keys_read,          \* history: keys injected, keys the guest read
    moves, fed,                 \* history: number and sum of host motions
    driver                      \* history: what the guest's mouse driver decoded
histVars == <<pushed, keys_read, moves, fed, driver>>
vars == <<kbc, remaining, session, histVars>>

PrefixTicks == session.prefixes     \* ticks of the CPU batch before a port access
Advances == session.advances        \* ticks of one advance_master_ticks call

Init ==
    /\ kbc = PowerOnController
    /\ remaining = 0
    /\ session \in Sessions
    /\ pushed = 0 /\ keys_read = <<>>
    /\ moves = 0 /\ fed = Still
    /\ driver = Undecoded

-----------------------------------------------------------------------------
(* The host window.                                                        *)

PushScancodes(n) ==
    /\ remaining = 0
    /\ pushed + n <= session.keys
    /\ kbc' = PushCodes(kbc, [i \in 1 .. n |-> Key(pushed + i)])
    /\ pushed' = pushed + n
    /\ UNCHANGED <<remaining, session, keys_read, moves, fed, driver>>

\* inject_mouse, and inject_mouse_wheel with the buttons as they are.
InjectMouse(d, buttons) ==
    /\ remaining = 0
    /\ moves < session.moves
    /\ kbc' = KickMouseSample([kbc EXCEPT !.mouse = HostUpdate(@, d, buttons)])
    /\ moves' = moves + 1
    /\ fed' = [a \in Axes |-> fed[a] + d[a]]
    /\ UNCHANGED <<remaining, session, pushed, keys_read, driver>>

InjectMouseWheel(dz) ==
    InjectMouse([x |-> 0, y |-> 0, z |-> dz], kbc.mouse.host_buttons)

-----------------------------------------------------------------------------
(* The guest.                                                              *)

ReadData(prefix) ==
    /\ remaining = 0
    /\ kbc' = ReadOutput(kbc, prefix)
    /\ keys_read' = IF Full(kbc) /\ kbc.output.kind = "key"
                    THEN Append(keys_read, kbc.output.n) ELSE keys_read
    /\ driver' = IF Full(kbc) /\ kbc.output_is_aux THEN Decode(driver, kbc.output) ELSE driver
    /\ UNCHANGED <<remaining, session, pushed, moves, fed>>

WritePort(port, v, prefix) ==
    /\ remaining = 0
    /\ Len(kbc.queue) + Len(kbc.mouse.queue) <= session.queued
    /\ kbc' = AcceptInput(kbc, port, v, prefix)
    /\ UNCHANGED <<remaining, session, histVars>>

EnablePointingDevice(k) ==
    [SetMouseIrq(SetMouseReporting(k, TRUE), TRUE) EXCEPT !.mouse = EnableWheel(@)]

\* INT 15h: C200 and C205 enable and C200 disable the pointing device, C202
\* sets its rate; AH=24h and port 0x92 move the A20 gate.
Service(s) ==
    /\ remaining = 0
    /\ kbc' \in CASE s = "enable" -> {EnablePointingDevice(kbc)}
                  [] s = "disable" -> {SetMouseIrq(SetMouseReporting(kbc, FALSE), FALSE)}
                  [] s = "rate" -> {[kbc EXCEPT !.mouse = SetSampleRateCode(@, c)] : c \in session.rates}
                  [] s = "a20" -> {[kbc EXCEPT !.a20 = b] : b \in BOOLEAN}
    /\ UNCHANGED <<remaining, session, histVars>>

-----------------------------------------------------------------------------
(* The clock: advance_master_ticks.                                        *)

BeginAdvance(n) ==
    /\ remaining = 0
    /\ Timers(kbc) # {}
    /\ remaining' = n
    /\ UNCHANGED <<kbc, session, histVars>>

\* No deadline is left, or none within the rest of the advance.
EndAdvance ==
    /\ remaining > 0
    /\ \A t \in Timers(kbc) : remaining < t
    /\ kbc' = Elapse(kbc, remaining)
    /\ remaining' = 0
    /\ UNCHANGED <<session, histVars>>

ReachDeadline ==
    /\ remaining > 0
    /\ \E t \in Timers(kbc) :
        /\ t <= remaining
        /\ \A u \in Timers(kbc) : t <= u
        /\ kbc' = Fire(Elapse(kbc, t))
        /\ remaining' = remaining - t
    /\ UNCHANGED <<session, histVars>>

Host ==
    \/ \E n \in 1 .. 2 : PushScancodes(n)
    \/ \E d \in session.motions, b \in session.buttons : InjectMouse(d, b)
    \/ \E d \in session.motions : InjectMouseWheel(d["z"])

Guest ==
    \/ \E p \in PrefixTicks : ReadData(p)
    \/ \E p \in PrefixTicks, v \in session.commands : WritePort(100, v, p)
    \/ \E p \in PrefixTicks, v \in session.data : WritePort(96, v, p)
    \/ \E s \in session.services : Service(s)

Clock == EndAdvance \/ ReachDeadline \/ \E n \in Advances : BeginAdvance(n)

Next == Host \/ Guest \/ Clock

Spec == Init /\ [][Next]_vars

-----------------------------------------------------------------------------
(* Properties.                                                             *)

KeyNumbers(bytes) ==
    LET keys == SelectSeq(bytes, LAMBDA b : b.kind = "key")
    IN  [i \in 1 .. Len(keys) |-> keys[i].n]

InOutput(k, aux) == IF Full(k) /\ k.output_is_aux = aux THEN <<k.output>> ELSE <<>>

\* Scancodes are a FIFO: what the guest read, what the register holds and
\* what is still queued are all the keys the host pushed, once each and in
\* order, whatever commands, responses that displace an unread byte
\* (respond_controller), masks or resets come in between.
KeysInOrder ==
    keys_read \o KeyNumbers(InOutput(kbc, FALSE) \o kbc.queue) = [i \in 1 .. pushed |-> i]

\* The auxiliary bytes on their way to the guest.
AuxInFlight(k) == InOutput(k, TRUE) \o k.mouse.queue

\* A movement packet is never torn: its bytes reach the driver one after the
\* other, no command reply or second packet between them.
PacketsWhole ==
    LET s == <<driver.last>> \o AuxInFlight(kbc)
    IN  \A i \in 1 .. Len(s) - 1 :
            /\ s[i].kind = "flags" <=> s[i + 1].kind = "x"
            /\ s[i].kind = "x" <=> s[i + 1].kind = "y"
            /\ s[i + 1].kind = "z" => s[i].kind = "y"

\* Motion decoded, on the wire or still accumulated.
Motion(k, dr) ==
    [a \in Axes |-> DecodeAll(dr, AuxInFlight(k)).moved[a] + k.mouse.pending[a]]

\* While the mouse reports, no count of host motion is lost or invented by
\* the split into samples, the nine-bit clamps and the y inversion, and no
\* wheel detent while it is in four-byte mode.
MotionConserved ==
    [][LET axes == IF kbc.mouse.intellimouse /\ kbc'.mouse.intellimouse THEN Axes ELSE Axes \ {"z"}
       IN  kbc.mouse.reporting /\ kbc'.mouse.reporting =>
               \A a \in axes :
                   Motion(kbc', driver')[a] - Motion(kbc, driver)[a] = fed'[a] - fed[a]]_vars

\* State the mouse has to report always has a sample clock running, so it
\* goes out without a further host event (kick_mouse_sample).
PendingIsClocked == remaining = 0 /\ StatePending(kbc.mouse) => kbc.mouse_sample_ticks # None

\* A byte that may be delivered has a running transfer whenever the output
\* register is empty: "Arms the 8042's output-buffer delivery timer".
NoForgottenByte ==
    ~Full(kbc) /\ QueuedDeviceByte(kbc) => kbc.device_byte_ticks # None

=============================================================================
