------------------------ MODULE StreamRecoveryProofs ------------------------
(***************************************************************************)
(* The player never stays silent believing it plays, its ring has one      *)
(* consumer, and its attempts are spaced, for every retry interval and     *)
(* every number of faults.                                                 *)
(***************************************************************************)
EXTENDS StreamRecovery, TLAPS

\* What ties the flag to the streams at each point of an attempt: the flag
\* stands for a dead (or missing) stream, and after Clear for the stream
\* that is being built.
Flagged ==
    /\ pc = "idle" /\ failed => stream \in {"none", "dead"}
    /\ pc = "idle" /\ ~failed => stream \in {"live", "ended"}
    /\ pc = "open" => ~failed
    /\ pc # "idle" => stream \in {"none", "dead"}
    /\ pc \in {"opening", "install"} /\ failed => fresh = "dead"
    /\ pc \in {"opening", "install"} /\ ~failed => fresh \in {"live", "ended"}
    /\ pc \in {"idle", "clear", "open"} => fresh = "none"

\* The time left until retry_after is the part of the interval that has not
\* passed since the attempt that set it.
Clocked == wait + since = RetryInterval

RInv == TypeOK /\ Flagged /\ Clocked

\* The first attempt starts with the flag down, no stream and no deadline.
LEMMA InitRInv == Init => RInv
<1> SUFFICES ASSUME Init PROVE RInv
  OBVIOUS
<1>1. failed \in BOOLEAN /\ device \in BOOLEAN
  BY Zenon DEF Init
<1>2. TypeOK
  BY <1>1, RecoveryAssumption DEF Init, TypeOK, Streams
<1>3. Flagged
  BY DEF Init, Flagged
<1>4. Clocked
  BY RecoveryAssumption DEF Init, Clocked
<1> QED
  BY <1>2, <1>3, <1>4 DEF RInv

\* No step of the owner, of a stream or of the clock breaks RInv.
LEMMA NextRInv == RInv /\ [Next]_vars => RInv'
<1> SUFFICES ASSUME RInv, [Next]_vars PROVE RInv'
  OBVIOUS
<1> USE RecoveryAssumption DEF RInv, TypeOK, Flagged, Clocked, Streams
<1>1. CASE Poll
  BY <1>1 DEF Poll
<1>2. CASE Clear
  BY <1>2, Zenon DEF Clear
<1>3. CASE Build
  BY <1>3 DEF Build
<1>4. CASE OpenFails
  BY <1>4 DEF OpenFails
<1>5. CASE Opened
  BY <1>5 DEF Opened
<1>6. CASE Install
  BY <1>6 DEF Install
<1>7. CASE StreamEnds
  BY <1>7 DEF StreamEnds
<1>8. CASE Report
  BY <1>8 DEF Report
<1>9. CASE Unplug
  <2>1. device' \in BOOLEAN
    BY <1>9, Zenon DEF Unplug
  <2>2. /\ faults < MaxFaults /\ faults' = faults + 1
        /\ stream' = IF stream = "live" THEN "ended" ELSE stream
        /\ fresh' = IF fresh = "live" THEN "ended" ELSE fresh
        /\ UNCHANGED <<failed, wait, pc, since>>
    BY <1>9 DEF Unplug
  <2> QED
    BY <2>1, <2>2
<1>10. CASE Plug
  BY <1>10 DEF Plug
<1>11. CASE Tick
  BY <1>11 DEF Tick
<1>12. CASE UNCHANGED vars
  BY <1>12 DEF vars
<1> QED
  BY <1>1, <1>2, <1>3, <1>4, <1>5, <1>6, <1>7, <1>8, <1>9, <1>10, <1>11, <1>12
     DEF Next, Owner

\* RInv holds throughout.
THEOREM RInvHolds == Spec => []RInv
  BY InitRInv, NextRInv, PTL DEF Spec

\* The variables keep their types.
THEOREM TypeCorrect == Spec => []TypeOK
<1>1. RInv => TypeOK
  BY DEF RInv
<1> QED
  BY <1>1, RInvHolds, PTL

\* A player that is between polls with the flag down has a stream that runs
\* or is about to report (StreamRecovery::poll clears the flag before the
\* attempt and raises it again when the attempt fails).
THEOREM NeverSilent == Spec => []NoSilentPlayer
<1>1. RInv => NoSilentPlayer
  BY DEF RInv, Flagged, NoSilentPlayer
<1> QED
  BY <1>1, RInvHolds, PTL

\* A stream is built only in place of one that has stopped, so two
\* callbacks never drain the ring at once.
THEOREM SingleConsumer == Spec => []OneConsumer
<1>1. RInv => OneConsumer
  BY DEF RInv, TypeOK, Flagged, OneConsumer
<1> QED
  BY <1>1, RInvHolds, PTL

\* Two attempts of poll are a whole retry interval apart, whatever came of
\* the first.
THEOREM Spacing == Spec => AttemptsSpaced
<1>1. RInv /\ [Next]_vars => [since' < since => since = RetryInterval]_vars
  <2> SUFFICES ASSUME RInv, Next, since' < since PROVE since = RetryInterval
    BY DEF vars
  <2>1. CASE Poll
    BY <2>1 DEF Poll, RInv, Clocked, TypeOK
  <2>2. CASE Tick
    BY <2>2, RecoveryAssumption DEF Tick, RInv, TypeOK
  <2>3. CASE since' = since
    BY <2>3 DEF RInv, TypeOK
  <2> QED
    BY <2>1, <2>2, <2>3 DEF Next, Owner, Clear, Build, OpenFails, Opened, Install,
       StreamEnds, Report, Unplug, Plug
<1> QED
  BY <1>1, RInvHolds, PTL DEF Spec, AttemptsSpaced
=============================================================================
