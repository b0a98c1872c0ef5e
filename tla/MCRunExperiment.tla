-------------------------- MODULE MCRunExperiment --------------------------
(* Instances of RunExperiment for TLC: two waves, the generators g1 and g3  *)
(* on the same GPU, the judge on a GPU of its own.                          *)
EXTENDS RunExperiment, TLC

CONSTANTS g1, g2, g3, judge

MCGenerators == <<g1, g2, g3>>
MCRegistry == <<g1, g2, g3, judge>>
MCPortOf == (g1 :> 8000) @@ (g2 :> 8001) @@ (g3 :> 8000) @@ (judge :> 8003)

PidSymmetry == Permutations(Pids)
=============================================================================
