--------------------------- MODULE StreamRecovery ---------------------------
(***************************************************************************)
(* Opening and reopening the host's output stream (crates/izarravm-audio/  *)
(* src/output.rs, AudioPlayer and StreamRecovery).  The thread that owns   *)
(* the player polls once a frame; a stream reports its failure from a      *)
(* thread of its own by raising the flag `failed', and it may do so while  *)
(* the call that opens it is still running.                                *)
(*                                                                         *)
(* A stream is "none", "live", "ended" (it has failed and its report is on *)
(* the way) or "dead" (reported).  Streams report once: "after an error it *)
(* stops calling back for good".                                           *)
(***************************************************************************)
EXTENDS Integers

CONSTANTS
    RetryInterval,      \* STREAM_RETRY_INTERVAL, in ticks
    MaxFaults           \* bound: devices that vanish, streams and opens that fail

ASSUME RecoveryAssumption == RetryInterval \in Nat \ {0} /\ MaxFaults \in Nat

VARIABLES
    failed,
    wait,       \* ticks until retry_after
    pc,         \* the owner: "idle", "clear", "open", "opening" or "install"
    stream,     \* the installed stream
    fresh,      \* the stream an open has built and not yet returned or installed
    device,     \* the host has a default output device
    faults,
    since       \* history: ticks since the last attempt poll made
vars == <<failed, wait, pc, stream, fresh, device, faults, since>>

\* AudioPlayer::new makes the first attempt, with nothing to clear.
Init ==
    /\ failed = FALSE /\ wait = 0 /\ pc = "open"
    /\ stream = "none" /\ fresh = "none"
    /\ device \in BOOLEAN
    /\ faults = 0 /\ since = RetryInterval

-----------------------------------------------------------------------------
(* The owner: StreamRecovery::poll.                                        *)

\* Mutant: a player that has recovered may try again at once.
PollUnspaced ==
    /\ pc = "idle" /\ failed /\ wait = 0
    /\ wait' = IF stream = "none" THEN RetryInterval ELSE 0
    /\ since' = 0
    /\ pc' = "clear"
    /\ UNCHANGED <<failed, stream, fresh, device, faults>>

\* Mutant: the poll rebuilds a stream that still works.
PollUnarmed ==
    /\ pc = "idle" /\ wait = 0
    /\ wait' = RetryInterval
    /\ since' = 0
    /\ pc' = "clear"
    /\ UNCHANGED <<failed, stream, fresh, device, faults>>

\* Mutant: a poll that comes too early starts the interval anew.
PollRestarts ==
    /\ pc = "idle" /\ failed
    /\ wait' = RetryInterval
    /\ IF wait = 0 THEN since' = 0 /\ pc' = "clear" ELSE UNCHANGED <<since, pc>>
    /\ UNCHANGED <<failed, stream, fresh, device, faults>>

Poll ==
    /\ pc = "idle" /\ failed /\ wait = 0
    /\ wait' = RetryInterval
    /\ since' = 0
    /\ pc' = "clear"
    /\ UNCHANGED <<failed, stream, fresh, device, faults>>

Clear ==
    /\ pc = "clear"
    /\ failed' = FALSE
    /\ pc' = "open"
    /\ UNCHANGED <<wait, stream, fresh, device, faults, since>>

\* open_stream builds a stream, which runs at once,
Build ==
    /\ pc = "open" /\ device
    /\ fresh' = "live"
    /\ pc' = "opening"
    /\ UNCHANGED <<failed, wait, stream, device, faults, since>>

\* or fails: without a device, or at any of its calls to the host,
OpenFails ==
    /\ \/ pc = "open" /\ ~device /\ UNCHANGED faults
       \/ pc \in {"open", "opening"} /\ faults < MaxFaults /\ faults' = faults + 1
    /\ failed' = TRUE
    /\ fresh' = "none"
    /\ pc' = "idle"
    /\ UNCHANGED <<wait, stream, device, since>>

Opened ==
    /\ pc = "opening"
    /\ pc' = "install"
    /\ UNCHANGED <<failed, wait, stream, fresh, device, faults, since>>

\* Mutant: the report is cleared once the stream is there.
InstallClears ==
    /\ pc = "install"
    /\ stream' = fresh
    /\ fresh' = "none"
    /\ failed' = FALSE
    /\ pc' = "idle"
    /\ UNCHANGED <<wait, device, faults, since>>

\* and poll_recover installs it, dropping the old one.
Install ==
    /\ pc = "install"
    /\ stream' = fresh
    /\ fresh' = "none"
    /\ pc' = "idle"
    /\ UNCHANGED <<failed, wait, device, faults, since>>

-----------------------------------------------------------------------------
(* The host.                                                               *)

StreamEnds ==
    /\ faults < MaxFaults
    /\ faults' = faults + 1
    /\ \/ stream = "live" /\ stream' = "ended" /\ UNCHANGED fresh
       \/ fresh = "live" /\ fresh' = "ended" /\ UNCHANGED stream
    /\ UNCHANGED <<failed, wait, pc, device, since>>

\* The error callback.
Report ==
    /\ \/ stream = "ended" /\ stream' = "dead" /\ UNCHANGED fresh
       \/ fresh = "ended" /\ fresh' = "dead" /\ UNCHANGED stream
    /\ failed' = TRUE
    /\ UNCHANGED <<wait, pc, device, faults, since>>

\* Losing the device ends the stream that plays on it.
Unplug ==
    /\ device
    /\ faults < MaxFaults
    /\ faults' = faults + 1
    /\ device' = FALSE
    /\ stream' = IF stream = "live" THEN "ended" ELSE stream
    /\ fresh' = IF fresh = "live" THEN "ended" ELSE fresh
    /\ UNCHANGED <<failed, wait, pc, since>>

Plug ==
    /\ ~device
    /\ device' = TRUE
    /\ UNCHANGED <<failed, wait, pc, stream, fresh, faults, since>>

Tick ==
    /\ wait > 0 \/ since < RetryInterval
    /\ wait' = IF wait > 0 THEN wait - 1 ELSE 0
    /\ since' = IF since < RetryInterval THEN since + 1 ELSE since
    /\ UNCHANGED <<failed, pc, stream, fresh, device, faults>>

Owner == Poll \/ Clear \/ Build \/ OpenFails \/ Opened \/ Install

Next == Owner \/ StreamEnds \/ Report \/ Unplug \/ Plug \/ Tick

\* The GUI polls every frame, an ended stream reports, time passes.
Fairness == WF_vars(Owner) /\ WF_vars(Report) /\ WF_vars(Tick)

Spec == Init /\ [][Next]_vars /\ Fairness

-----------------------------------------------------------------------------
IsPlaying == stream # "none" /\ ~failed

Streams == {"none", "live", "ended", "dead"}

\* Every variable holds one of its values.
TypeOK ==
    /\ failed \in BOOLEAN /\ device \in BOOLEAN
    /\ wait \in 0 .. RetryInterval /\ since \in 0 .. RetryInterval
    /\ pc \in {"idle", "clear", "open", "opening", "install"}
    /\ stream \in Streams /\ fresh \in Streams
    /\ faults \in 0 .. MaxFaults

\* No "player that believes it is healthy and is not": between polls, a
\* player that claims to play has a stream that runs, or whose report is
\* still to come; without one the flag is up and the next poll will try.
NoSilentPlayer == pc = "idle" /\ ~failed => stream \in {"live", "ended"}

\* The ring has one consumer at a time: a new stream is built only when the
\* installed one no longer calls back.
OneConsumer == ~(stream = "live" /\ fresh = "live")

\* retry_after "bounds BOTH outcomes": two attempts of poll are at least
\* RetryInterval apart, also when the first one succeeded.
AttemptsSpaced == [][since' < since => since = RetryInterval]_vars

\* Once the host has a device for good (and the faults, which are bounded,
\* are over), sound comes back and stays, wherever the failures struck: at
\* start, between polls, or inside the open itself.
SoundReturns == <>[]device => <>[](IsPlaying /\ stream = "live")
=============================================================================
