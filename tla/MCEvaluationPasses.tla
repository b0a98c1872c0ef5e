------------------------- MODULE MCEvaluationPasses -------------------------
(* Instances of EvaluationPasses for TLC.                                  *)
EXTENDS EvaluationPasses

MCWeighted == Metrics
=============================================================================
