--------------------------- MODULE CellLifecycle ---------------------------
(***************************************************************************)
(* What the evaluation pipeline promises for one cell, whatever number of  *)
(* runs it takes: an answer is written once, Layer 1 is measured once, a   *)
(* row that is both measured and judged is final, and a verdict given      *)
(* before the measure is taken back when the row is measured.  A file can  *)
(* be damaged or lost at any point; nothing else undoes a step.            *)
(***************************************************************************)
CONSTANT Cells

VARIABLE life

Stages == {"missing", "damaged", "blank", "answered", "measured", "judged", "settled"}

Init == life = [c \in Cells |-> "missing"]

Move(c, from, to) == life[c] \in from /\ life' = [life EXCEPT ![c] = to]

\* The generator answered, or answered with nothing.
Answer(c) == Move(c, {"missing"}, "answered") \/ Move(c, {"missing"}, "blank")

\* Layer 1 metrics came; a verdict given without them is withdrawn.
Measure(c) == Move(c, {"answered", "judged"}, "measured")

\* Layer 1 metrics were tried again in vain: the verdict is withdrawn too.
Withdraw(c) == Move(c, {"judged"}, "answered")

Judge(c) == Move(c, {"answered"}, "judged") \/ Move(c, {"measured"}, "settled")

Damage(c) == Move(c, Stages, "damaged")
Lose(c) == Move(c, Stages, "missing")

Next == \E c \in Cells :
  Answer(c) \/ Measure(c) \/ Withdraw(c) \/ Judge(c) \/ Damage(c) \/ Lose(c)

Spec == Init /\ [][Next]_life

=============================================================================
