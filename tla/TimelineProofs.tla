--------------------------- MODULE TimelineProofs ---------------------------
(***************************************************************************)
(* No device clock drifts, the TSC is exact, captures are never refused    *)
(* and deadlines are exact, for every master clock, every set of rates and *)
(* every way of cutting time into batches.                                 *)
(***************************************************************************)
EXTENDS Timeline, TLAPS

-----------------------------------------------------------------------------
(* Division.                                                               *)

\* Quotient and remainder of naturals.
LEMMA DivMod ==
  ASSUME NEW a \in Nat, NEW b \in Nat \ {0}
  PROVE  /\ a \div b \in Nat
         /\ a % b \in Nat /\ a % b < b
         /\ a = (a \div b) * b + (a % b)
<1>1. a \div b \in Int /\ a % b \in 0 .. b - 1
  OBVIOUS
<1>2. a = b * (a \div b) + (a % b)
  OBVIOUS
<1>3. a \div b \in Nat
  BY <1>1, <1>2
<1> QED
  BY <1>1, <1>2, <1>3

\* A quotient reaches k exactly when the dividend reaches k times the divisor.
LEMMA DivBound ==
  ASSUME NEW a \in Nat, NEW b \in Nat \ {0}, NEW k \in Nat
  PROVE  /\ k * b <= a => k <= a \div b
         /\ a < k * b => a \div b < k
  BY DivMod

\* div_ceil: the least multiple of b that is not below a positive a.
LEMMA CeilBound ==
  ASSUME NEW a \in Nat \ {0}, NEW b \in Nat \ {0}
  PROVE  /\ DivCeil(a, b) \in Nat \ {0}
         /\ a <= DivCeil(a, b) * b
         /\ (DivCeil(a, b) - 1) * b < a
<1> DEFINE c == (a + b - 1) \div b
<1>1. a + b - 1 \in Nat /\ c \in Nat
  BY DivMod
<1>2. c * b <= a + b - 1 /\ a + b - 1 < c * b + b
  BY <1>1, DivMod
<1>3. 1 <= c
  BY <1>1, DivBound
<1>4. (c - 1) * b = c * b - b /\ c * b \in Nat
  BY <1>1
<1> HIDE DEF c
<1>5. a <= c * b /\ (c - 1) * b < a
  BY <1>2, <1>4
<1>6. c = DivCeil(a, b)
  BY DEF c, DivCeil
<1> QED
  BY <1>1, <1>3, <1>5, <1>6

\* RatePhase::advance: as long as the count fits a u64, events and remainder
\* account for every unit of rate * ticks.
LEMMA PhaseLemma ==
  ASSUME NEW rem \in Nat, rem < MasterHz, NEW ticks \in Nat, ticks <= MaxU64,
         NEW rate \in 0 .. MasterHz
  PROVE  /\ RemainderOf(rem, ticks, rate) \in Nat
         /\ RemainderOf(rem, ticks, rate) < MasterHz
         /\ EventsOf(rem, ticks, rate) = (rem + ticks * rate) \div MasterHz
         /\ EventsOf(rem, ticks, rate) \in Nat
         /\ rem + ticks * rate
              = EventsOf(rem, ticks, rate) * MasterHz + RemainderOf(rem, ticks, rate)
<1> USE TimelineAssumption
<1> DEFINE total == rem + ticks * rate
<1>1. total \in Nat /\ ticks * rate <= ticks * MasterHz
  OBVIOUS
<1>2. total < (ticks + 1) * MasterHz
  BY <1>1
<1>3. total \div MasterHz <= ticks
  BY <1>1, <1>2, DivBound, DivMod
<1>4. /\ total \div MasterHz \in Nat /\ total % MasterHz \in Nat /\ total % MasterHz < MasterHz
      /\ total = (total \div MasterHz) * MasterHz + (total % MasterHz)
  BY <1>1, DivMod
<1>5. EventsOf(rem, ticks, rate) = total \div MasterHz
  BY <1>3, <1>4 DEF EventsOf, Saturate
<1>6. RemainderOf(rem, ticks, rate) = total % MasterHz
  BY DEF RemainderOf
<1> QED
  BY <1>4, <1>5, <1>6

\* The events of an advance are never clamped: no clock outruns the master.
LEMMA EventsLemma ==
  ASSUME NEW rem \in Nat, rem < MasterHz, NEW ticks \in Nat, ticks <= MaxU64,
         NEW rate \in 0 .. MasterHz
  PROVE  EventsOf(rem, ticks, rate) = (rem + ticks * rate) \div MasterHz
BY PhaseLemma

-----------------------------------------------------------------------------
(* The inductive invariant.                                                *)

\* The history starts no later than now, and the TSC has not counted more
\* clocks than there were ticks, so it has not wrapped.
Ordered == mode_tick <= now_ticks /\ mode_tsc <= tsc_clocks /\ tsc_clocks <= now_ticks

TInv == TypeOK /\ CaptureAccepted /\ NothingDrifts /\ TscExact /\ Ordered

\* All counters start at zero.
LEMMA InitTInv == Init => TInv
<1> SUFFICES ASSUME Init PROVE TInv
  OBVIOUS
<1> USE TimelineAssumption DEF Init
<1>1. ticks_per_cpu_clock \in Nat \ {0}
  OBVIOUS
<1>2. TypeOK
  BY DEF TypeOK
<1>3. CaptureAccepted
  BY <1>1 DEF CaptureAccepted
<1>4. NothingDrifts
  BY DEF NothingDrifts
<1>5. TscExact /\ Ordered
  BY <1>1 DEF TscExact, Ordered
<1> QED
  BY <1>2, <1>3, <1>4, <1>5 DEF TInv

\* A mode change starts the TSC's count afresh and touches no device.
LEMMA SetModeStep == ASSUME TInv, NEW q \in Quanta, SetMode(q) PROVE TInv'
<1> USE TimelineAssumption DEF SetMode
<1>1. q \in Nat \ {0}
  OBVIOUS
<1>2. TypeOK'
  BY DEF TInv, TypeOK
<1>3. CaptureAccepted'
  BY <1>1 DEF TInv, CaptureAccepted
<1>4. NothingDrifts'
  BY DEF TInv, NothingDrifts
<1>5. TscExact' /\ Ordered'
  BY <1>1 DEF TInv, TypeOK, TscExact, Ordered
<1> QED
  BY <1>2, <1>3, <1>4, <1>5 DEF TInv

\* An advance is never granted more ticks than are left.
LEMMA GrantedLemma ==
  ASSUME TInv, NEW n \in Requests
  PROVE  /\ Granted(n) \in Nat /\ Granted(n) <= MaxU64
         /\ now_ticks + Granted(n) <= MaxU64
  BY TimelineAssumption DEF TInv, TypeOK, Granted

\* The TSC: whole clocks and the partial one add up to the ticks granted.
LEMMA TscStep ==
  ASSUME TInv, NEW ticks \in Nat, now_ticks + ticks <= MaxU64, AdvanceTsc(ticks),
         now_ticks' = now_ticks + ticks, UNCHANGED <<mode_tick, mode_tsc>>
  PROVE  /\ ticks_per_cpu_clock' \in Quanta
         /\ tsc_clocks' \in 0 .. MaxU64
         /\ tsc_phase_ticks' \in Nat /\ tsc_phase_ticks' < ticks_per_cpu_clock'
         /\ TscExact' /\ Ordered'
<1> DEFINE q == ticks_per_cpu_clock
           d == ticks \div q
           m == ticks % q
           carry == IF m + tsc_phase_ticks >= q THEN 1 ELSE 0
<1> USE TimelineAssumption
<1>1. /\ q \in Nat \ {0} /\ q \in Quanta
      /\ tsc_phase_ticks \in Nat /\ tsc_phase_ticks < q
      /\ now_ticks \in Nat /\ tsc_clocks \in Nat /\ mode_tick \in Nat /\ mode_tsc \in Nat
  BY DEF TInv, TypeOK, CaptureAccepted
<1>2. d \in Nat /\ m \in Nat /\ m < q /\ ticks = d * q + m
  BY <1>1, DivMod
<1>3. /\ tsc_phase_ticks' = (m + tsc_phase_ticks) - carry * q
      /\ tsc_clocks' = (tsc_clocks + d + carry) % (MaxU64 + 1)
      /\ ticks_per_cpu_clock' = q
  BY Zenon DEF AdvanceTsc
<1>4. carry \in {0, 1} /\ (carry = 1 <=> m + tsc_phase_ticks >= q)
  BY <1>1, <1>2
<1> HIDE DEF q, d, m, carry
<1>5. d <= d * q
  BY <1>1, <1>2
<1>6. d + carry <= ticks
  BY <1>1, <1>2, <1>4, <1>5
<1>7. tsc_clocks + d + carry \in 0 .. MaxU64 /\ tsc_clocks + d + carry <= now_ticks + ticks
  BY <1>1, <1>2, <1>4, <1>6 DEF TInv, Ordered
<1>8. tsc_clocks' = tsc_clocks + d + carry
  <2>1. \A a \in 0 .. MaxU64 : a % (MaxU64 + 1) = a
    OBVIOUS
  <2> QED
    BY <1>3, <1>7, <2>1
<1>9. carry * q \in {0, q} /\ (carry = 0 => carry * q = 0) /\ (carry = 1 => carry * q = q)
  BY <1>1, <1>4
<1>10. tsc_phase_ticks' \in Nat /\ tsc_phase_ticks' < q
  BY <1>1, <1>2, <1>3, <1>4, <1>9
<1>11. Ordered'
  BY <1>1, <1>2, <1>4, <1>7, <1>8 DEF TInv, Ordered
<1>12. TscExact'
  <2>1. now_ticks - mode_tick = (tsc_clocks - mode_tsc) * q + tsc_phase_ticks
    BY DEF TInv, TscExact, q
  <2>2. (tsc_clocks' - mode_tsc) * q = (tsc_clocks - mode_tsc) * q + d * q + carry * q
    BY <1>1, <1>2, <1>4, <1>8
  <2>3. /\ (tsc_clocks - mode_tsc) * q \in Int /\ d * q \in Int /\ carry * q \in Int
    BY <1>1, <1>2, <1>4
  <2>4. now_ticks' - mode_tick = (tsc_clocks' - mode_tsc) * q + tsc_phase_ticks'
    BY <1>1, <1>2, <1>3, <2>1, <2>2, <2>3
  <2> QED
    BY <1>3, <2>4 DEF TscExact
<1> QED
  BY <1>1, <1>3, <1>7, <1>8, <1>10, <1>11, <1>12

\* The devices: each clock's events and remainder absorb rate * ticks.
LEMMA AdvanceStep ==
  ASSUME TInv, NEW n \in Requests, NEW rates \in Rates, AdvanceMasterTicks(n, rates),
         io_stall_ticks' \in 0 .. MaxU64, io_stall_ticks' <= now_ticks'
  PROVE  TInv'
<1> DEFINE ticks == Granted(n)
<1>1. ticks \in Nat /\ ticks <= MaxU64 /\ now_ticks + ticks <= MaxU64
  BY GrantedLemma
<1>2. /\ now_ticks' = now_ticks + ticks /\ AdvanceTsc(ticks)
      /\ UNCHANGED <<mode_tick, mode_tsc>>
      /\ phase' = [c \in Clocks |-> RemainderOf(phase[c], ticks, rates[c])]
      /\ events' = [c \in Clocks |-> events[c] + EventsOf(phase[c], ticks, rates[c])]
      /\ owed' = [c \in Clocks |-> owed[c] + ticks * rates[c]]
  BY DEF AdvanceMasterTicks
<1> HIDE DEF ticks
<1>3. /\ ticks_per_cpu_clock' \in Quanta /\ tsc_clocks' \in 0 .. MaxU64
      /\ tsc_phase_ticks' \in Nat /\ tsc_phase_ticks' < ticks_per_cpu_clock'
      /\ TscExact' /\ Ordered'
  BY <1>1, <1>2, TscStep
<1>4. \A c \in Clocks :
        /\ phase[c] \in Nat /\ phase[c] < MasterHz /\ rates[c] \in 0 .. MasterHz
        /\ events[c] \in Nat /\ owed[c] \in Nat
        /\ events[c] * MasterHz + phase[c] = owed[c]
  BY DEF TInv, TypeOK, CaptureAccepted, NothingDrifts, Rates
<1>5. ASSUME NEW c \in Clocks
      PROVE  /\ phase'[c] \in Nat /\ phase'[c] < MasterHz
             /\ events'[c] \in Nat /\ owed'[c] \in Nat
             /\ events'[c] * MasterHz + phase'[c] = owed'[c]
  <2> DEFINE r == RemainderOf(phase[c], ticks, rates[c])
             e == EventsOf(phase[c], ticks, rates[c])
  <2>1. /\ r \in Nat /\ r < MasterHz /\ e \in Nat
        /\ phase[c] + ticks * rates[c] = e * MasterHz + r
    BY <1>1, <1>4, PhaseLemma
  <2>2. phase'[c] = r /\ events'[c] = events[c] + e /\ owed'[c] = owed[c] + ticks * rates[c]
    BY <1>2
  <2> HIDE DEF r, e
  <2>3. ticks * rates[c] \in Nat
    BY <1>1, <1>4
  <2>4. (events[c] + e) * MasterHz = events[c] * MasterHz + e * MasterHz
        /\ events[c] * MasterHz \in Nat /\ e * MasterHz \in Nat
    BY <1>4, <2>1, TimelineAssumption
  <2> QED
    BY <1>4, <2>1, <2>2, <2>3, <2>4
<1>6. phase' \in [Clocks -> Nat] /\ events' \in [Clocks -> Nat] /\ owed' \in [Clocks -> Nat]
  BY <1>2, <1>5
<1>7. TypeOK'
  BY <1>1, <1>2, <1>3, <1>6 DEF TInv, TypeOK
<1>8. CaptureAccepted' /\ NothingDrifts'
  BY <1>3, <1>5 DEF CaptureAccepted, NothingDrifts
<1> QED
  BY <1>3, <1>7, <1>8 DEF TInv

\* Every step keeps TInv.
LEMMA NextTInv == TInv /\ [Next]_vars => TInv'
<1> SUFFICES ASSUME TInv, [Next]_vars PROVE TInv'
  OBVIOUS
<1>1. ASSUME NEW n \in Requests, NEW rates \in Rates, Advance(n, rates) PROVE TInv'
  <2>1. /\ AdvanceMasterTicks(n, rates) /\ io_stall_ticks' = io_stall_ticks
        /\ now_ticks' = now_ticks + Granted(n)
    BY <1>1 DEF Advance, AdvanceMasterTicks
  <2>2. io_stall_ticks' \in 0 .. MaxU64 /\ io_stall_ticks' <= now_ticks'
    BY <2>1, GrantedLemma DEF TInv, TypeOK, CaptureAccepted
  <2> QED
    BY <2>1, <2>2, AdvanceStep
<1>2. ASSUME NEW n \in Requests, NEW rates \in Rates, AdvanceIoStall(n, rates) PROVE TInv'
  <2>1. /\ AdvanceMasterTicks(n, rates)
        /\ io_stall_ticks' = Saturate(io_stall_ticks + Granted(n))
        /\ now_ticks' = now_ticks + Granted(n)
    BY <1>2 DEF AdvanceIoStall, AdvanceMasterTicks
  <2>2. io_stall_ticks' \in 0 .. MaxU64 /\ io_stall_ticks' <= now_ticks'
    BY <2>1, GrantedLemma, TimelineAssumption DEF TInv, TypeOK, CaptureAccepted, Saturate
  <2> QED
    BY <2>1, <2>2, AdvanceStep
<1>3. CASE UNCHANGED vars
  BY <1>3 DEF vars, tscVars, TInv, TypeOK, CaptureAccepted, NothingDrifts, TscExact, Ordered
<1> QED
  BY <1>1, <1>2, <1>3, SetModeStep DEF Next

\* TInv holds throughout.
THEOREM TInvHolds == Spec => []TInv
  BY InitTInv, NextTInv, PTL DEF Spec

\* The counters keep their types.
THEOREM TimelineTypes == Spec => []TypeOK
<1>1. TInv => TypeOK
  BY DEF TInv
<1> QED
  BY <1>1, TInvHolds, PTL

\* canonical_projection accepts the timeline at any time.
THEOREM CaptureTheorem == Spec => []CaptureAccepted
<1>1. TInv => CaptureAccepted
  BY DEF TInv
<1> QED
  BY <1>1, TInvHolds, PTL

\* No device gains or loses an event, however time is cut into batches.
THEOREM NoDriftTheorem == Spec => []NothingDrifts
<1>1. TInv => NothingDrifts
  BY DEF TInv
<1> QED
  BY <1>1, TInvHolds, PTL

\* The TSC counts the whole CPU clocks since the last mode change.
THEOREM TscTheorem == Spec => []TscExact
<1>1. TInv => TscExact
  BY DEF TInv
<1> QED
  BY <1>1, TInvHolds, PTL

-----------------------------------------------------------------------------
(* Deadlines.                                                              *)

\* ticks_until, unless it saturates: the first tick with rem + ticks * rate
\* at n whole periods.
LEMMA TicksUntilLemma ==
  ASSUME NEW rem \in Nat, rem < MasterHz, NEW n \in Nat \ {0}, NEW rate \in Nat \ {0},
         TicksUntil(rem, n, rate) < MaxU64
  PROVE  /\ TicksUntil(rem, n, rate) \in Nat \ {0}
         /\ n * MasterHz <= rem + TicksUntil(rem, n, rate) * rate
         /\ rem + (TicksUntil(rem, n, rate) - 1) * rate < n * MasterHz
<1> USE TimelineAssumption
<1> DEFINE x == n * MasterHz - rem
           t == DivCeil(x, rate)
<1>1. n * MasterHz \in Nat /\ MasterHz <= n * MasterHz
  OBVIOUS
<1>2. x \in Nat \ {0}
  BY <1>1
<1>3. t \in Nat \ {0} /\ x <= t * rate /\ (t - 1) * rate < x
  BY <1>2, CeilBound
<1>4. TicksUntil(rem, n, rate) = t
  BY <1>3 DEF TicksUntil, Saturate
<1>5. t * rate \in Nat /\ (t - 1) * rate \in Nat
  BY <1>3
<1> HIDE DEF t
<1> QED
  BY <1>1, <1>3, <1>4, <1>5

\* Every deadline the scheduler computes is exact, in master ticks and in
\* CPU clocks.
THEOREM DeadlineTheorem == Spec => []DeadlineExact
<1>1. TInv => DeadlineExact
  <2> SUFFICES ASSUME TInv, NEW c \in Clocks, NEW rate \in RatesOf[c] \ {0}, NEW n \in 1 .. 2,
                      TicksUntil(phase[c], n, rate) < MaxU64
               PROVE  LET t == TicksUntil(phase[c], n, rate)
                          clocks == CpuClocksUntil(c, n, rate)
                      IN  /\ EventsOf(phase[c], t, rate) >= n
                          /\ EventsOf(phase[c], t - 1, rate) < n
                          /\ t <= clocks * ticks_per_cpu_clock
                          /\ (clocks - 1) * ticks_per_cpu_clock < t
    BY DEF DeadlineExact
  <2> DEFINE t == TicksUntil(phase[c], n, rate)
             q == ticks_per_cpu_clock
  <2> USE TimelineAssumption
  <2>1. /\ phase[c] \in Nat /\ phase[c] < MasterHz /\ q \in Nat \ {0}
        /\ rate \in 1 .. MasterHz /\ n \in Nat \ {0}
    BY DEF TInv, TypeOK, CaptureAccepted
  <2>2. /\ t \in Nat \ {0} /\ t < MaxU64 /\ n * MasterHz <= phase[c] + t * rate
        /\ phase[c] + (t - 1) * rate < n * MasterHz
    BY <2>1, TicksUntilLemma
  <2> HIDE DEF t, q
  <2>3. /\ EventsOf(phase[c], t, rate) = (phase[c] + t * rate) \div MasterHz
        /\ EventsOf(phase[c], t - 1, rate) = (phase[c] + (t - 1) * rate) \div MasterHz
    <3>1. /\ t \in Nat /\ t <= MaxU64 /\ t - 1 \in Nat /\ t - 1 <= MaxU64
          /\ rate \in 0 .. MasterHz
      BY <2>1, <2>2
    <3>2. EventsOf(phase[c], t, rate) = (phase[c] + t * rate) \div MasterHz
      BY <2>1, <3>1, EventsLemma, Zenon
    <3>3. EventsOf(phase[c], t - 1, rate) = (phase[c] + (t - 1) * rate) \div MasterHz
      <4> DEFINE u == t - 1
      <4>1. u \in Nat /\ u <= MaxU64
        BY <3>1
      <4> HIDE DEF u
      <4>2. EventsOf(phase[c], u, rate) = (phase[c] + u * rate) \div MasterHz
        BY <2>1, <3>1, <4>1, EventsLemma, Zenon
      <4> QED
        BY <4>2 DEF u
    <3> QED
      BY <3>2, <3>3
  <2>4. phase[c] + t * rate \in Nat /\ phase[c] + (t - 1) * rate \in Nat
    BY <2>1, <2>2
  <2>5. /\ n <= (phase[c] + t * rate) \div MasterHz
        /\ (phase[c] + (t - 1) * rate) \div MasterHz < n
    BY <2>1, <2>2, <2>4, DivBound
  <2>6. /\ DivCeil(t, q) \in Nat \ {0} /\ t <= DivCeil(t, q) * q
        /\ (DivCeil(t, q) - 1) * q < t
    BY <2>1, <2>2, CeilBound, Zenon
  <2>7. CpuClocksUntil(c, n, rate) = DivCeil(t, q)
    BY <2>6 DEF CpuClocksUntil, t, q
  <2>8. EventsOf(phase[c], t, rate) >= n /\ EventsOf(phase[c], t - 1, rate) < n
    BY <2>3, <2>4, <2>5, DivMod
  <2> QED
    BY <2>6, <2>7, <2>8 DEF t, q
<1> QED
  BY <1>1, TInvHolds, PTL

-----------------------------------------------------------------------------
(* Margo's beam.                                                           *)

\* A quotient is determined by any splitting with a small rest.
LEMMA DivUnique ==
  ASSUME NEW b \in Nat \ {0}, NEW k \in Nat, NEW r \in Nat, r < b
  PROVE  (k * b + r) \div b = k
<1>1. k * b + r \in Nat /\ k * b <= k * b + r /\ k * b + r < (k + 1) * b
  OBVIOUS
<1>2. (k * b + r) \div b \in Nat
  BY <1>1, DivMod
<1>3. k <= (k * b + r) \div b /\ (k * b + r) \div b < k + 1
  BY <1>1, DivBound
<1> QED
  BY <1>2, <1>3

\* "the same partition a real accumulator at frame_dots * MARGO_FRAME_HZ
\* would make": whole frames and the beam add up to the dots of one dot
\* clock that has run all along.
LEMMA ScanoutLemma ==
  ASSUME TInv, NEW ticks \in Nat, ticks <= MaxU64, NEW dots \in Nat \ {0}
  PROVE  /\ (phase[Margo] + ticks * FrameHz) * dots \in Nat
         /\ Scanout(ticks, dots).dots = ((phase[Margo] + ticks * FrameHz) * dots) \div MasterHz
<1> USE TimelineAssumption
<1> DEFINE p == phase[Margo]
           e == EventsOf(p, ticks, FrameHz)
           r == RemainderOf(p, ticks, FrameHz)
           b == (r * dots) \div MasterHz
           s == (r * dots) % MasterHz
<1>1. p \in Nat /\ p < MasterHz /\ FrameHz \in 1 .. MasterHz
  BY DEF TInv, TypeOK, CaptureAccepted
<1>2. e \in Nat /\ r \in Nat /\ p + ticks * FrameHz = e * MasterHz + r
  BY <1>1, PhaseLemma, Zenon
<1>3. r * dots \in Nat
  BY <1>2
<1>4. b \in Nat /\ s \in Nat /\ s < MasterHz /\ r * dots = b * MasterHz + s
  BY <1>3, DivMod, Zenon
<1>5. Scanout(ticks, dots).dots = e * dots + b
  BY DEF Scanout
<1> HIDE DEF e, r, b, s
<1>6. (e * MasterHz + r) * dots = (e * dots + b) * MasterHz + s
  <2>1. (e * MasterHz + r) * dots = (e * MasterHz) * dots + r * dots
    BY <1>2
  <2>2. (e * dots + b) * MasterHz = (e * dots) * MasterHz + b * MasterHz
    BY <1>2, <1>4
  <2>3. (e * MasterHz) * dots = (e * dots) * MasterHz
    BY <1>2
  <2>4. (e * dots) * MasterHz \in Nat /\ b * MasterHz \in Nat
    BY <1>2, <1>4
  <2> QED
    BY <1>3, <1>4, <2>1, <2>2, <2>3, <2>4
<1>7. e * dots + b \in Nat
  BY <1>2, <1>4
<1>8. ((e * dots + b) * MasterHz + s) \div MasterHz = e * dots + b
  BY <1>4, <1>7, DivUnique
<1> QED
  BY <1>2, <1>4, <1>5, <1>6, <1>7, <1>8

\* The tick computed for a beam position is the first one at which the beam
\* shown to the guest is there.
THEOREM BeamTheorem == Spec => []BeamDeadlineExact
<1>1. TInv => BeamDeadlineExact
  <2> SUFFICES ASSUME TInv, NEW dots \in FrameDots, NEW n \in 1 .. 3,
                      MargoTicksUntil(n, dots) < MaxU64
               PROVE  LET t == MargoTicksUntil(n, dots)
                      IN  /\ Scanout(t, dots).dots >= Scanout(0, dots).dots + n
                          /\ Scanout(t - 1, dots).dots < Scanout(0, dots).dots + n
    BY DEF BeamDeadlineExact
  <2> DEFINE p == phase[Margo]
             t == MargoTicksUntil(n, dots)
             b == (p * dots) \div MasterHz
             s == (p * dots) % MasterHz
             At(k) == (p + k * FrameHz) * dots
  <2> USE TimelineAssumption
  <2>1. /\ p \in Nat /\ FrameHz \in Nat \ {0} /\ dots \in Nat \ {0} /\ n \in Nat \ {0}
        /\ p * dots \in Nat /\ dots * FrameHz \in Nat \ {0}
    BY DEF TInv, TypeOK, CaptureAccepted
  <2>2. b \in Nat /\ s \in Nat /\ s < MasterHz /\ p * dots = b * MasterHz + s
    BY <2>1, DivMod, Zenon
  <2>3. t = TicksUntil(s, n, dots * FrameHz) /\ t < MaxU64
    BY DEF MargoTicksUntil
  <2> HIDE DEF t, b, s
  <2>4. /\ t \in Nat \ {0} /\ n * MasterHz <= s + t * (dots * FrameHz)
        /\ s + (t - 1) * (dots * FrameHz) < n * MasterHz
    BY <2>1, <2>2, <2>3, TicksUntilLemma
  <2>5. \A k \in Nat : At(k) = b * MasterHz + s + k * (dots * FrameHz)
    <3> SUFFICES ASSUME NEW k \in Nat PROVE At(k) = b * MasterHz + s + k * (dots * FrameHz)
      OBVIOUS
    <3>1. At(k) = p * dots + (k * FrameHz) * dots
      BY <2>1
    <3>2. (k * FrameHz) * dots = k * (dots * FrameHz)
      BY <2>1
    <3> QED
      BY <2>2, <3>1, <3>2
  <2>6. /\ t - 1 \in Nat /\ b * MasterHz \in Nat /\ n * MasterHz \in Nat
        /\ t * (dots * FrameHz) \in Nat /\ (t - 1) * (dots * FrameHz) \in Nat
        /\ (b + n) * MasterHz = b * MasterHz + n * MasterHz
    BY <2>1, <2>2, <2>4
  <2>7. (b + n) * MasterHz <= At(t) /\ At(t - 1) < (b + n) * MasterHz
    BY <2>2, <2>4, <2>5, <2>6
  <2>8. /\ Scanout(t, dots).dots = At(t) \div MasterHz /\ At(t) \in Nat
        /\ Scanout(t - 1, dots).dots = At(t - 1) \div MasterHz /\ At(t - 1) \in Nat
    <3>1. t <= MaxU64 /\ t - 1 <= MaxU64
      BY <2>3, <2>4
    <3>2. Scanout(t, dots).dots = At(t) \div MasterHz /\ At(t) \in Nat
      BY <2>1, <2>4, <3>1, ScanoutLemma, Zenon
    <3>3. Scanout(t - 1, dots).dots = At(t - 1) \div MasterHz /\ At(t - 1) \in Nat
      <4> DEFINE u == t - 1
      <4>1. u \in Nat /\ u <= MaxU64
        BY <2>6, <3>1
      <4> HIDE DEF u
      <4>2. Scanout(u, dots).dots = At(u) \div MasterHz /\ At(u) \in Nat
        BY <2>1, <4>1, ScanoutLemma, Zenon
      <4> QED
        BY <4>2 DEF u
    <3> QED
      BY <3>2, <3>3
  <2>9. Scanout(0, dots).dots = b
    <3>1. Scanout(0, dots).dots = At(0) \div MasterHz
      BY <2>1, ScanoutLemma
    <3>2. At(0) = p * dots
      BY <2>1
    <3> QED
      BY <3>1, <3>2 DEF b
  <2> HIDE DEF At
  <2>10. b + n <= At(t) \div MasterHz /\ At(t - 1) \div MasterHz < b + n
    BY <2>1, <2>2, <2>7, <2>8, DivBound
  <2> QED
    BY <2>1, <2>2, <2>8, <2>9, <2>10, DivMod DEF t
<1> QED
  BY <1>1, TInvHolds, PTL
=============================================================================
