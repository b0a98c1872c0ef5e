----------------------- MODULE MCConcurrentAnnotation -----------------------
(* Instances of ConcurrentAnnotation for TLC.                              *)
EXTENDS ConcurrentAnnotation

MCWeighted == {"answer_correctness", Rubric}
=============================================================================
