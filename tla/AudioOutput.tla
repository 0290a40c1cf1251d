---------------------------- MODULE AudioOutput -----------------------------
(***************************************************************************)
(* The audio output as a whole: the player that opens and reopens streams  *)
(* (StreamRecovery) and the queue those streams play from (AudioRing).     *)
(* The queue outlives the streams: the emulation thread keeps writing to   *)
(* it while none is open, and every new stream takes over the same queue   *)
(* with a callback state of its own (poll_recover, open_stream).           *)
(***************************************************************************)
EXTENDS StreamRecovery, AudioRingConstants

VARIABLES ring, producer, filler, pending, produced, source, heard
ringVars == <<ring, producer, filler, pending, produced, source, heard>>
ovars == <<vars, ringVars>>

\* A stream calls back from the moment it is built until it fails.
Calling == "live" \in {stream, fresh}

Ring == INSTANCE AudioRing WITH pc <- producer, live <- Calling

OInit == Init /\ Ring!Init

\* Mutant: the new stream goes on with the old one's callback state.
OpenStreamStale == Build /\ UNCHANGED ringVars

\* The new stream's callback starts from silence.
OpenStream ==
    /\ Build
    /\ source' = Ring!FreshSource
    /\ UNCHANGED <<ring, producer, filler, pending, produced, heard>>

Player ==
    \/ OpenStream
    \/ (Poll \/ Clear \/ OpenFails \/ Opened \/ Install)
       /\ UNCHANGED ringVars

Host == (StreamEnds \/ Report \/ Unplug \/ Plug \/ Tick) /\ UNCHANGED ringVars

Emulation == UNCHANGED vars /\ Ring!Producer

Callback == UNCHANGED vars /\ Ring!CallbackNext

ONext == Player \/ Host \/ Emulation \/ Callback

\* The GUI polls every frame, an ended stream reports, time passes.
OFairness == WF_ovars(Player) /\ WF_ovars(Report /\ UNCHANGED ringVars)
               /\ WF_ovars(Tick /\ UNCHANGED ringVars)

OSpec == OInit /\ [][ONext]_ovars /\ OFairness

-----------------------------------------------------------------------------
\* Whatever the player does to its streams, the queue sees one callback at a
\* time that stops and starts: the theorems about AudioRing hold here.
ImplementsRing == Ring!Spec

\* The ring holds no more than the latency bound while a stream of any
\* generation plays from it (AudioRing's LatencyBounded).
LatencyBounded == Ring!LatencyBounded

\* What a drain leaves is the newest audio, whichever stream comes to play it
\* (AudioRing's NewestKept).
NewestKept == Ring!NewestKept

\* The sound after a latency recovery starts from silence, also when the stream
\* it is played on is not the one that was playing (AudioRing's RecoveryFades).
RecoveryFades == Ring!RecoveryFades
=============================================================================
