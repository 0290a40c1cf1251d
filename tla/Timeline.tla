------------------------------ MODULE Timeline ------------------------------
(***************************************************************************)
(* The machine's clock (crates/izarravm-machine/src/timeline.rs): master   *)
(* ticks, the CPU quantum and TSC, and for each device clock the phase     *)
(* (struct RatePhase) that turns master ticks into whole device events.    *)
(*                                                                         *)
(* The code computes in u64 where the exact result fits and in u128 where  *)
(* it does not, "a VALUE-PRESERVING rewrite"; the model has the exact      *)
(* integers and the clamps to u64 that both forms share.                   *)
(***************************************************************************)
EXTENDS Integers

CONSTANTS
    MasterHz,           \* MASTER_CLOCK_HZ
    Clocks, RatesOf,    \* the device clocks and the rates each one may run at
    Quanta,             \* master ticks per CPU clock, one for each CPU mode
    Margo, FrameHz,     \* the clock margo_frame and MARGO_FRAME_HZ
    FrameDots,          \* dots per frame of the modes a guest may set
    MaxU64,             \* u64::MAX, where time stops
    Requests            \* bound: the advances asked for

ASSUME TimelineAssumption ==
    /\ MasterHz \in Nat \ {0} /\ MaxU64 \in Nat
    /\ RatesOf \in [Clocks -> SUBSET (0 .. MasterHz)]
    /\ Quanta \subseteq Nat \ {0}
    /\ Margo \in Clocks /\ RatesOf[Margo] = {FrameHz} /\ FrameHz # 0
    /\ FrameDots \subseteq Nat \ {0}
    /\ Requests \subseteq Nat

VARIABLES
    now_ticks, io_stall_ticks,
    ticks_per_cpu_clock, tsc_clocks, tsc_phase_ticks,
    phase,              \* the remainder of each device clock
    events, owed,       \* history: events delivered, and rate * ticks owed
    mode_tick, mode_tsc \* history: time and TSC at the last mode change
tscVars == <<ticks_per_cpu_clock, tsc_clocks, tsc_phase_ticks>>
vars == <<now_ticks, io_stall_ticks, tscVars, phase, events, owed, mode_tick, mode_tsc>>

-----------------------------------------------------------------------------
(* RatePhase.                                                              *)

Saturate(n) == IF n <= MaxU64 THEN n ELSE MaxU64

DivCeil(a, b) == (a + b - 1) \div b

\* RatePhase::advance: the events due and the remainder kept.
EventsOf(rem, ticks, rate) == Saturate((rem + ticks * rate) \div MasterHz)

RemainderOf(rem, ticks, rate) == (rem + ticks * rate) % MasterHz

\* Mutant: the deadline is rounded down.
TicksUntilFloor(rem, n, rate) == Saturate((n * MasterHz - rem) \div rate)

\* RatePhase::ticks_until, for a clock that runs and at least one event.
TicksUntil(rem, n, rate) == Saturate(DivCeil(n * MasterHz - rem, rate))

-----------------------------------------------------------------------------
(* Timeline.                                                               *)

Init ==
    /\ now_ticks = 0 /\ io_stall_ticks = 0
    /\ ticks_per_cpu_clock \in Quanta
    /\ tsc_clocks = 0 /\ tsc_phase_ticks = 0
    /\ phase = [c \in Clocks |-> 0]
    /\ events = [c \in Clocks |-> 0] /\ owed = [c \in Clocks |-> 0]
    /\ mode_tick = 0 /\ mode_tsc = 0

\* Mutant: the partial CPU clock survives the change.
SetModeKeepsPhase(quantum) ==
    /\ ticks_per_cpu_clock' = quantum
    /\ mode_tick' = now_ticks - tsc_phase_ticks /\ mode_tsc' = tsc_clocks
    /\ UNCHANGED <<now_ticks, io_stall_ticks, tsc_clocks, tsc_phase_ticks, phase, events, owed>>

SetMode(quantum) ==
    /\ ticks_per_cpu_clock' = quantum
    /\ tsc_phase_ticks' = 0
    /\ mode_tick' = now_ticks /\ mode_tsc' = tsc_clocks
    /\ UNCHANGED <<now_ticks, io_stall_ticks, tsc_clocks, phase, events, owed>>

\* Mutant: the carry out of the partial clock is lost.
AdvanceTscUncarried(ticks) ==
    LET q == ticks_per_cpu_clock
    IN  /\ tsc_phase_ticks' = ((ticks % q) + tsc_phase_ticks) % q
        /\ tsc_clocks' = (tsc_clocks + (ticks \div q)) % (MaxU64 + 1)
        /\ UNCHANGED ticks_per_cpu_clock

\* The TSC's share of an advance.
AdvanceTsc(ticks) ==
    LET q == ticks_per_cpu_clock
        sum == (ticks % q) + tsc_phase_ticks
        carry == IF sum >= q THEN 1 ELSE 0
    IN  /\ tsc_phase_ticks' = sum - carry * q
        /\ tsc_clocks' = (tsc_clocks + (ticks \div q) + carry) % (MaxU64 + 1)
        /\ UNCHANGED ticks_per_cpu_clock

Granted(requested) == IF requested <= MaxU64 - now_ticks THEN requested ELSE MaxU64 - now_ticks

\* Mutant: at the end of time the devices run on.
AdvanceUngranted(requested, rates) ==
    LET ticks == Granted(requested)
    IN  /\ now_ticks' = now_ticks + ticks
        /\ AdvanceTsc(ticks)
        /\ phase' = [c \in Clocks |-> RemainderOf(phase[c], requested, rates[c])]
        /\ events' = [c \in Clocks |-> events[c] + EventsOf(phase[c], requested, rates[c])]
        /\ owed' = [c \in Clocks |-> owed[c] + ticks * rates[c]]
        /\ UNCHANGED <<mode_tick, mode_tsc>>

AdvanceMasterTicks(requested, rates) ==
    LET ticks == Granted(requested)
    IN  /\ now_ticks' = now_ticks + ticks
        /\ AdvanceTsc(ticks)
        /\ phase' = [c \in Clocks |-> RemainderOf(phase[c], ticks, rates[c])]
        /\ events' = [c \in Clocks |-> events[c] + EventsOf(phase[c], ticks, rates[c])]
        /\ owed' = [c \in Clocks |-> owed[c] + ticks * rates[c]]
        /\ UNCHANGED <<mode_tick, mode_tsc>>

Advance(requested, rates) ==
    /\ AdvanceMasterTicks(requested, rates)
    /\ UNCHANGED io_stall_ticks

AdvanceIoStall(requested, rates) ==
    /\ AdvanceMasterTicks(requested, rates)
    /\ io_stall_ticks' = Saturate(io_stall_ticks + Granted(requested))

Rates == {rates \in [Clocks -> 0 .. MasterHz] : \A c \in Clocks : rates[c] \in RatesOf[c]}

Next ==
    \/ \E q \in Quanta : SetMode(q)
    \/ \E n \in Requests, rates \in Rates : Advance(n, rates) \/ AdvanceIoStall(n, rates)

Spec == Init /\ [][Next]_vars

-----------------------------------------------------------------------------
(* Deadlines and previews: what the batch scheduler asks.                  *)

\* cpu_clocks_until.
CpuClocksUntil(c, n, rate) ==
    LET clocks == DivCeil(TicksUntil(phase[c], n, rate), ticks_per_cpu_clock)
    IN  IF clocks >= 1 THEN clocks ELSE 1

\* preview_margo_scanout_at_ticks.  Its saturating products fit a u64 for
\* every frame a display mode can have, so they are exact here.
Scanout(ticks, dots) ==
    LET frames == EventsOf(phase[Margo], ticks, FrameHz)
        beam == (RemainderOf(phase[Margo], ticks, FrameHz) * dots) \div MasterHz
    IN  [dots |-> frames * dots + beam, beam |-> beam]

\* Mutant: the frame phase is used as if it were the dot phase.
MargoTicksUnscaled(n, dots) == TicksUntil(phase[Margo], n, dots * FrameHz)

\* margo_master_ticks_until_dots.
MargoTicksUntil(n, dots) ==
    TicksUntil((phase[Margo] * dots) % MasterHz, n, dots * FrameHz)

-----------------------------------------------------------------------------
\* The counters are numbers, and time stays within a u64.
TypeOK ==
    /\ now_ticks \in 0 .. MaxU64 /\ io_stall_ticks \in 0 .. MaxU64
    /\ ticks_per_cpu_clock \in Quanta
    /\ tsc_clocks \in 0 .. MaxU64 /\ tsc_phase_ticks \in Nat
    /\ phase \in [Clocks -> Nat] /\ events \in [Clocks -> Nat] /\ owed \in [Clocks -> Nat]
    /\ mode_tick \in Nat /\ mode_tsc \in 0 .. MaxU64

\* A capture of the machine's state is never refused: canonical_projection
\* finds every remainder below its limit and the stalls within elapsed time.
CaptureAccepted ==
    /\ tsc_phase_ticks < ticks_per_cpu_clock
    /\ \A c \in Clocks : phase[c] < MasterHz
    /\ io_stall_ticks <= now_ticks

\* "Splitting one advance into batches gives the same event total and final
\* remainder": however time was cut up and the rates changed, each device
\* has had every event it was owed, and the remainder is the rest.
NothingDrifts == \A c \in Clocks : events[c] * MasterHz + phase[c] = owed[c]

\* Since the last mode change the TSC has counted the whole CPU clocks of the
\* time elapsed, across any batches; its wrapping_add never wraps.
TscExact ==
    now_ticks - mode_tick = (tsc_clocks - mode_tsc) * ticks_per_cpu_clock + tsc_phase_ticks

\* ticks_until is the very first tick at which the events are due, and a
\* batch that stops at cpu_clocks_until reaches it with its last clock.
DeadlineExact ==
    \A c \in Clocks : \A rate \in RatesOf[c] \ {0}, n \in 1 .. 2 :
        LET t == TicksUntil(phase[c], n, rate)
            clocks == CpuClocksUntil(c, n, rate)
        IN  t < MaxU64 =>
                /\ EventsOf(phase[c], t, rate) >= n
                /\ EventsOf(phase[c], t - 1, rate) < n
                /\ t <= clocks * ticks_per_cpu_clock
                /\ (clocks - 1) * ticks_per_cpu_clock < t

\* The beam position and the deadline for reaching a dot come from the one
\* frame phase and agree: the deadline is the first tick at which the beam
\* is n dots further, also across frames.
BeamDeadlineExact ==
    \A dots \in FrameDots, n \in 1 .. 3 :
        LET t == MargoTicksUntil(n, dots)
        IN  t < MaxU64 =>
                /\ Scanout(t, dots).dots >= Scanout(0, dots).dots + n
                /\ Scanout(t - 1, dots).dots < Scanout(0, dots).dots + n
=============================================================================
