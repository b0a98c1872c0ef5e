-------------------------- MODULE ExperimentStages --------------------------
(***************************************************************************)
(* What an experiment run promises of its passes: generation, metrics,     *)
(* judge, in that order, each begun once; a stop on request comes out of   *)
(* generation and nowhere else, completion out of the judge's pass and     *)
(* nowhere else; a failure can end a run at any point.                     *)
(***************************************************************************)

VARIABLES stage, exit

Init == stage = "down" /\ exit = "none"

Launch == stage = "down" /\ stage' = "generation" /\ exit' = "running"

NextPass == /\ \/ stage = "generation" /\ stage' = "metrics"
               \/ stage = "metrics" /\ stage' = "judge"
            /\ exit' = exit

Leave(how) == stage' = "down" /\ exit' = how

Complete == stage = "judge" /\ Leave("completed")
StopEarly == stage = "generation" /\ Leave("partial")
Fail == stage # "down" /\ Leave("failed")

Next == Launch \/ NextPass \/ Complete \/ StopEarly \/ Fail

Spec == Init /\ [][Next]_<<stage, exit>>

=============================================================================
