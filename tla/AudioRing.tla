----------------------------- MODULE AudioRing ------------------------------
(***************************************************************************)
(* The queue between the emulation thread and the host's audio callback    *)
(* (crates/izarravm-audio/src/output.rs, AudioSink and CallbackSource).    *)
(* The queue is lock-free: every push and every pop is a step of its own,  *)
(* so the callback runs between any two of the producer's.                 *)
(*                                                                         *)
(* Frames are numbered in the order the mixer made them, Padding is silent *)
(* filler.  The sample values, the resampler and the diagnostic counters   *)
(* are left out.                                                           *)
(***************************************************************************)
EXTENDS AudioRingConstants, Sequences

VARIABLES
    ring,
    pc,         \* where the producer is: "idle", "drain", "pad" or "audio"
    filler,     \* padding still to push
    pending,    \* the frames still to push: from the first to the second, inclusive
    produced,   \* frames made so far
    live,       \* a stream calls back
    source,     \* its CallbackSource: the last frame and the gain
    heard       \* history: the newest frame a callback took
vars == <<ring, pc, filler, pending, produced, live, source, heard>>

FreshSource == [last |-> 0, gain |-> 0]

Init ==
    /\ ring = [i \in 1 .. Target |-> Padding]
    /\ pc = "idle" /\ filler = 0 /\ pending = [from |-> 1, to |-> 0]
    /\ produced = 0
    /\ live = FALSE /\ source = FreshSource
    /\ heard = 0

-----------------------------------------------------------------------------
(* The emulation thread: AudioSink::queue.                                 *)

\* Mutant: the high-water test looks at the queue alone.
QueueUnprojected(n) ==
    /\ pc = "idle"
    /\ produced + n <= MaxFrames
    /\ produced' = produced + n
    /\ pending' = [from |-> produced + 1, to |-> produced + n]
    /\ pc' = IF Len(ring) > High THEN "drain" ELSE "audio"
    /\ UNCHANGED <<ring, filler, live, source, heard>>

\* The call, up to its read of the length, which decides between an append
\* and the recovery.
Queue(n) ==
    /\ pc = "idle"
    /\ produced + n <= MaxFrames
    /\ produced' = produced + n
    /\ pending' = [from |-> produced + 1, to |-> produced + n]
    /\ pc' = IF Len(ring) + n > High THEN "drain" ELSE "audio"
    /\ UNCHANGED <<ring, filler, live, source, heard>>

\* recover_to_target: discard everything,
Drain ==
    /\ pc = "drain"
    /\ ring # <<>>
    /\ ring' = Tail(ring)
    /\ UNCHANGED <<pc, filler, pending, produced, live, source, heard>>

AudioCount == LET n == pending.to - pending.from + 1
              IN  IF n <= Target - Ramp THEN n ELSE Target - Ramp

\* Mutant: the recovery keeps the oldest frames of the batch.
DrainedKeepsOldest ==
    /\ pc = "drain"
    /\ ring = <<>>
    /\ filler' = Target - AudioCount
    /\ pending' = [pending EXCEPT !.to = pending.from + AudioCount - 1]
    /\ pc' = "pad"
    /\ UNCHANGED <<ring, produced, live, source, heard>>

\* Mutant: no room is kept for the fade.
DrainedUnpadded ==
    /\ pc = "drain"
    /\ ring = <<>>
    /\ filler' = 0
    /\ pending' = [pending EXCEPT !.from = pending.to - AudioCount + 1]
    /\ pc' = "pad"
    /\ UNCHANGED <<ring, produced, live, source, heard>>

\* keep the newest frames, with room for a fade before them,
Drained ==
    /\ pc = "drain"
    /\ ring = <<>>
    /\ filler' = Target - AudioCount
    /\ pending' = [pending EXCEPT !.from = pending.to - AudioCount + 1]
    /\ pc' = "pad"
    /\ UNCHANGED <<ring, produced, live, source, heard>>

\* push_padding,
Pad ==
    /\ pc = "pad"
    /\ IF filler > 0 /\ Len(ring) < Capacity
       THEN ring' = Append(ring, Padding) /\ filler' = filler - 1 /\ UNCHANGED pc
       ELSE pc' = "audio" /\ filler' = 0 /\ UNCHANGED ring
    /\ UNCHANGED <<pending, produced, live, source, heard>>

\* and the frames, as long as there is room.
Push ==
    /\ pc = "audio"
    /\ IF pending.from <= pending.to /\ Len(ring) < Capacity
       THEN /\ ring' = Append(ring, pending.from)
            /\ pending' = [pending EXCEPT !.from = @ + 1]
            /\ UNCHANGED pc
       ELSE pc' = "idle" /\ UNCHANGED <<ring, pending>>
    /\ UNCHANGED <<filler, produced, live, source, heard>>

-----------------------------------------------------------------------------
(* The host: the callback, a stream that ends, and a new one on the ring.  *)

Faded == [source EXCEPT !.gain = IF @ > 0 THEN @ - 1 ELSE 0]

\* CallbackSource::next.
CallbackNext ==
    /\ live
    /\ \/ /\ ring = <<>>
          /\ source' = Faded
          /\ UNCHANGED <<ring, heard>>
       \/ /\ ring # <<>>
          /\ Head(ring) = Padding
          /\ ring' = Tail(ring)
          /\ source' = Faded
          /\ UNCHANGED heard
       \/ /\ ring # <<>>
          /\ Head(ring) # Padding
          /\ ring' = Tail(ring)
          /\ source' = [last |-> Head(ring),
                        gain |-> IF source.gain < Ramp THEN source.gain + 1 ELSE Ramp]
          /\ heard' = Head(ring)
    /\ UNCHANGED <<pc, filler, pending, produced, live>>

StreamEnds ==
    /\ live
    /\ live' = FALSE
    /\ UNCHANGED <<ring, pc, filler, pending, produced, source, heard>>

StreamOpens ==
    /\ ~live
    /\ live' = TRUE
    /\ source' = FreshSource
    /\ UNCHANGED <<ring, pc, filler, pending, produced, heard>>

Producer == Drain \/ Drained \/ Pad \/ Push \/ \E n \in BatchSizes : Queue(n)

Next == Producer \/ CallbackNext \/ StreamEnds \/ StreamOpens

Spec == Init /\ [][Next]_vars

-----------------------------------------------------------------------------
\* The ring holds frames and padding, the gain is within the ramp.
TypeOK ==
    /\ ring \in Seq(Nat \cup {Padding})
    /\ pc \in {"idle", "drain", "pad", "audio"}
    /\ filler \in Nat /\ produced \in Nat /\ heard \in Nat
    /\ pending \in [from : Nat, to : Nat]
    /\ live \in BOOLEAN
    /\ source \in [last : Nat, gain : 0 .. Ramp]

\* The latency never passes the high-water mark, whatever the callback does
\* meanwhile, so no push ever finds the queue full: the error branches of
\* queue and push_padding, which would cut a batch short without a fade, are
\* never taken.
LatencyBounded ==
    /\ Len(ring) <= High
    /\ pc = "pad" => Len(ring) + filler <= Target
    /\ pc = "audio" => Len(ring) + pending.to - pending.from + 1 <= High

\* When queue returns, the newest frame the mixer made is the last one in
\* the queue or has been played: the recovery sacrifices old sound only.
NewestKept ==
    pc = "idle" /\ produced > 0 =>
        \/ heard = produced
        \/ ring # <<>> /\ ring[Len(ring)] = produced

Jump == source'.last \notin {0, source.last, source.last + 1}

\* After the recovery has emptied the queue, the sound that follows the gap
\* starts from silence: the padding before it lowers the volume to zero, and
\* no later append skips a frame.
RecoveryFades == [][Jump /\ pc # "drain" => source.gain = 0]_vars

=============================================================================
