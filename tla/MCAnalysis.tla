---------------------------- MODULE MCAnalysis ----------------------------
(* Instances of Analysis for TLC.                                          *)
EXTENDS Analysis

Config(b, m) == [base |-> b, llm |-> m]
MCConfigOrder == <<Config("b1", "m1"), Config("b1", "m2"), Config("b2", "m1")>>

At(run, phase, i, q) == [run |-> run, phase |-> phase, config |-> MCConfigOrder[i], question |-> q]
Fresh == {At("r1", "A", 1, "q1"), At("r1", "A", 2, "q1")}
Broken == At("r1", "A", 3, "q1")
PhaseB == At("r1", "B", 2, "q2")
OtherRun == At("r2", "A", 3, "q2")
MCCells == Fresh \cup {Broken, PhaseB, OtherRun}

RowOf(layer1, rubric, flag) == [layer1 |-> layer1, rubric |-> rubric, flag |-> flag]
Unseen == RowOf(TRUE, NaN, None)

\* What a round starts from: any of the rows of the run, one of which may
\* lack a metric, and what an earlier phase and an earlier run left.
MCStores ==
  LET Left == [x \in {PhaseB} |-> RowOf(TRUE, 24, 0)] @@ [x \in {OtherRun} |-> RowOf(TRUE, 48, 1)]
  IN  {[x \in X |-> Unseen] @@ before :
         X \in SUBSET Fresh, before \in {Left, Left @@ (Broken :> RowOf(FALSE, NaN, None)), Left @@ (Broken :> Unseen)}}
===========================================================================
