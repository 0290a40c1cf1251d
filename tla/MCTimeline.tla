----------------------------- MODULE MCTimeline -----------------------------
(* Timeline with a slow master clock and a short-lived u64, so that every  *)
(* phase comes up and time runs out.                                       *)
EXTENDS Timeline, TLC

TwoRates == "dsp" :> {0, 3, 7} @@ "margo" :> {2}
=============================================================================
