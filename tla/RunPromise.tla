----------------------------- MODULE RunPromise -----------------------------
(***************************************************************************)
(* What a run of run_centroiding promises to whoever starts it with          *)
(* --output: its exit status tells whether predictions.json is complete.     *)
(* CentroidingRun is checked to keep the promise whatever fails;             *)
(* ImageEvaluation is checked assuming no more than it.                     *)
(***************************************************************************)
EXTENDS Integers

RunKeepsPromise(exit, status, listed, selected) ==
    /\ exit = "0" => status = "complete" /\ listed = selected
    /\ exit \in {"1", "2"} => status # "complete"
=============================================================================
