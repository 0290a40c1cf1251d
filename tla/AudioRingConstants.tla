------------------------- MODULE AudioRingConstants -------------------------
(* The sizes of the queue to the audio callback (output.rs), and what the  *)
(* mixer hands over.                                                       *)
EXTENDS Integers

CONSTANTS
    Padding,
    Target, High, Capacity,     \* TARGET_FRAMES, HIGH_FRAMES, CAPACITY_FRAMES
    Ramp,                       \* RAMP_FRAMES
    BatchSizes,                 \* how many frames the mixer hands over at once
    MaxFrames                   \* bound: frames made in a run

ASSUME RingAssumption ==
    /\ Padding \notin Nat
    /\ Target \in Nat /\ High \in Nat /\ Capacity \in Nat /\ Ramp \in Nat
    /\ 0 < Ramp /\ Ramp < Target /\ Target <= High /\ High <= Capacity
    /\ BatchSizes \subseteq Nat \ {0}
    /\ MaxFrames \in Nat
=============================================================================
