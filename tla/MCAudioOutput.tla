--------------------------- MODULE MCAudioOutput ----------------------------
(* AudioOutput with a queue of a few frames, batches on both sides of the  *)
(* high-water mark, a few faults and a short retry interval.               *)
EXTENDS AudioOutput
=============================================================================
