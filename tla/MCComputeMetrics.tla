------------------------- MODULE MCComputeMetrics -------------------------
(* Instances of ComputeMetrics for TLC: at first a cell has no row, or one   *)
(* with every metric; executions with and without force, and services that  *)
(* fail, leave all the others.                                              *)
EXTENDS ComputeMetrics

CONSTANTS text, low

MCWeighted == {"answer_correctness", Rubric}

Settled == LET mv == WithRubric(Layer1Only([m \in Layer1 |-> low]), low)
           IN  UpdateMetrics(Generated(text), mv, FinalOf(mv), "judge", None, None)
MCInitialRows == {AbsentRow, Settled}
===========================================================================
