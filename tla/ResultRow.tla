----------------------------- MODULE ResultRow -----------------------------
(***************************************************************************)
(* One evaluation row of the Parquet store and what the storage operations *)
(* do to it (infrastructure/repositories/parquet_storage.py).  The row of  *)
(* a cell (run, phase, base, llm, seed, question) is a file of its own, so *)
(* the store is a function from cells to rows.  The module has no state:   *)
(* the specifications that read and write the store extend it.             *)
(***************************************************************************)

CONSTANTS
  NaN,       \* a metric or a score that could not be computed (Parquet NULL)
  None,      \* an annotation column nobody filled in (int8 / string NULL)
  Answers,   \* generated texts
  Blank,     \* the empty text, what is left of an answer that was all <think>
  Scores,    \* values a metric can take
  Notes,     \* texts of a reviewer's justification
  Weighted   \* the metrics the configured weights make count (weight > 0)

Layer1 == {"answer_correctness", "faithfulness"}
Rubric == "rubric_biomed_score"
Metrics == Layer1 \cup {Rubric}

ASSUME SentinelAssumption ==
  /\ Blank \in Answers
  /\ NaN \notin Scores
  /\ None \notin Notes \cup {0, 1}
  /\ Weighted \subseteq Metrics
  /\ NaN \notin [Weighted -> Scores]

Values == Scores \cup {NaN}
Layer1Vector == [Layer1 -> Values]
MetricVector == [Metrics -> Values]
AllNaN == [m \in Metrics |-> NaN]
AllNaNLayer1 == [m \in Layer1 |-> NaN]

(***************************************************************************)
(* FinalScoreCalculator.compute: NaN as soon as one weighted metric is     *)
(* NaN, else a sum of the weighted metrics, represented by the values it   *)
(* is a function of, so that a score computed from other values shows.     *)
(***************************************************************************)
FinalScores == [Weighted -> Scores] \cup {NaN}
FinalOf(mv) == IF \E m \in Weighted : mv[m] = NaN
                 THEN NaN
                 ELSE [m \in Weighted |-> mv[m]]

(***************************************************************************)
(* The file of a cell is absent, whole, or torn: pq.write_table truncates  *)
(* and rewrites it in place, so a process killed during the write leaves a *)
(* file no reader can open.  Only a whole file has a content.              *)
(***************************************************************************)
Row == [file    : {"absent", "whole", "torn"},
        answer  : Answers,
        metrics : MetricVector,
        final   : FinalScores,
        regime  : {"generator", "judge"},
        flag    : {None, 0, 1},
        note    : Notes \cup {None}]

RowOf(file, a) == [file |-> file, answer |-> a, metrics |-> AllNaN,
                   final |-> FinalOf(AllNaN), regime |-> "generator",
                   flag |-> None, note |-> None]
AbsentRow == RowOf("absent", Blank)
TornRow == RowOf("torn", Blank)

Whole(r) == r.file = "whole"

\* append of a result straight out of the generation pass.
Generated(a) == RowOf("whole", a)

\* Variant of UpdateMetrics: annotation columns are replaced like the others.
UpdateEveryColumn(r, mv, final, regime, flag, note) ==
  [r EXCEPT !.metrics = mv, !.final = final, !.regime = regime, !.flag = flag, !.note = note]

\* update_metrics: the metric columns, final_score and batch_invariant are
\* replaced; the annotation columns only where a value is given.
UpdateMetrics(r, mv, final, regime, flag, note) ==
  [r EXCEPT !.metrics = mv,
            !.final = final,
            !.regime = regime,
            !.flag = IF flag = None THEN @ ELSE flag,
            !.note = IF note = None THEN @ ELSE note]

\* update_annotation: both annotation columns, an empty note as NULL.
UpdateAnnotation(r, flag, note) == [r EXCEPT !.flag = flag, !.note = note]

\* The vectors the passes write: Layer 1 as scored with the rubric always
\* NaN, and the metrics a row was loaded with plus the judge's rubric.
Layer1Only(scores) == [m \in Metrics |-> IF m \in Layer1 THEN scores[m] ELSE NaN]
WithRubric(mv, rubric) == [mv EXCEPT ![Rubric] = rubric]

(***************************************************************************)
(* What a write that raises can leave of the file: the old row (the error  *)
(* came before the file was opened), a torn file, or no file (pyarrow      *)
(* removes what it could not finish).                                      *)
(***************************************************************************)
FailedWrite(r) == {r, TornRow, AbsentRow}

(***************************************************************************)
(* Which rows the passes still have to work on.                            *)
(***************************************************************************)
Answered(r) == Whole(r) /\ r.answer # Blank
Unmeasured(r) == r.metrics["answer_correctness"] = NaN
Unjudged(r) == r.metrics[Rubric] = NaN

(***************************************************************************)
(* What holds of every whole row: the final score is the one its metrics   *)
(* give, a rubric is only found with the judge's regime (batch_invariant), *)
(* and a blank answer was never given to a metric.                         *)
(***************************************************************************)
Coherent(r) ==
  /\ r.final = FinalOf(r.metrics)
  /\ ~Unjudged(r) => r.regime = "judge"
  /\ r.answer = Blank => r.metrics = AllNaN

=============================================================================
