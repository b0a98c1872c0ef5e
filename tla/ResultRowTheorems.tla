------------------------- MODULE ResultRowTheorems -------------------------
(* What the operations on one row of the store return and preserve.        *)
EXTENDS ResultRow, TLAPS

\* A field set by the passes is well typed: FinalScoreCalculator.compute
\* returns a score or NaN for every vector of metrics.
LEMMA FinalOfType ==
  ASSUME NEW mv \in MetricVector
  PROVE  FinalOf(mv) \in FinalScores
<1>1. CASE \E m \in Weighted : mv[m] = NaN
  BY <1>1 DEF FinalOf, FinalScores
<1>2. CASE ~ \E m \in Weighted : mv[m] = NaN
  <2>1. \A m \in Weighted : mv[m] \in Scores
    BY <1>2, SentinelAssumption DEF MetricVector, Values
  <2>2. [m \in Weighted |-> mv[m]] \in [Weighted -> Scores]
    BY <2>1
  <2>. QED BY <1>2, <2>2 DEF FinalOf, FinalScores
<1>. QED BY <1>1, <1>2

\* A score exists exactly when no weighted metric is NaN.
LEMMA FinalOfNaN ==
  ASSUME NEW mv \in MetricVector
  PROVE  FinalOf(mv) = NaN <=> \E m \in Weighted : mv[m] = NaN
<1>1. CASE ~ \E m \in Weighted : mv[m] = NaN
  <2>1. [m \in Weighted |-> mv[m]] \in [Weighted -> Scores]
    BY <1>1, SentinelAssumption DEF MetricVector, Values
  <2>. QED BY <1>1, <2>1, SentinelAssumption DEF FinalOf
<1>. QED BY <1>1 DEF FinalOf

LEMMA AllNaNType == AllNaN \in MetricVector /\ AllNaNLayer1 \in Layer1Vector
BY DEF AllNaN, MetricVector, AllNaNLayer1, Layer1Vector, Values

\* What append and a failed write leave is a row.
LEMMA RowOfType ==
  ASSUME NEW a \in Answers, NEW file \in {"absent", "whole", "torn"}
  PROVE  RowOf(file, a) \in Row
<1>1. FinalOf(AllNaN) \in FinalScores
  BY AllNaNType, FinalOfType
<1>. QED BY <1>1, AllNaNType DEF RowOf, Row

LEMMA FailedWriteType ==
  ASSUME NEW r \in Row, NEW left \in FailedWrite(r)
  PROVE  /\ left \in Row
         /\ Whole(left) => left = r
<1>1. Blank \in Answers
  BY SentinelAssumption
<1>2. AbsentRow \in Row /\ TornRow \in Row
  BY <1>1, RowOfType DEF AbsentRow, TornRow
<1>3. ~Whole(AbsentRow) /\ ~Whole(TornRow)
  BY DEF AbsentRow, TornRow, RowOf, Whole
<1>. QED BY <1>2, <1>3 DEF FailedWrite

\* update_metrics called by a pass replaces what the pass computed and keeps
\* the answer and the annotation.
LEMMA UpdateMetricsType ==
  ASSUME NEW r \in Row, NEW mv \in MetricVector, NEW regime \in {"generator", "judge"}
  PROVE  LET u == UpdateMetrics(r, mv, FinalOf(mv), regime, None, None)
         IN  /\ u \in Row
             /\ u.file = r.file /\ u.answer = r.answer
             /\ u.metrics = mv /\ u.final = FinalOf(mv) /\ u.regime = regime
             /\ u.flag = r.flag /\ u.note = r.note
BY FinalOfType DEF UpdateMetrics, Row

\* update_annotation keeps everything but the annotation.
LEMMA UpdateAnnotationType ==
  ASSUME NEW r \in Row, NEW flag \in {0, 1}, NEW note \in Notes \cup {None}
  PROVE  LET u == UpdateAnnotation(r, flag, note)
         IN  /\ u \in Row
             /\ u.file = r.file /\ u.answer = r.answer /\ u.metrics = r.metrics
             /\ u.final = r.final /\ u.regime = r.regime
BY DEF UpdateAnnotation, Row

\* The vector the metrics pass writes, and the one the judge pass writes.
LEMMA VectorType ==
  /\ \A scores \in Layer1Vector : Layer1Only(scores) \in MetricVector
  /\ \A mv \in MetricVector, rubric \in Values : WithRubric(mv, rubric) \in MetricVector
BY DEF Layer1Only, WithRubric, Layer1Vector, MetricVector, Metrics, Values

\* What an append writes.
LEMMA GeneratedType ==
  ASSUME NEW a \in Answers
  PROVE  /\ Generated(a) \in Row
         /\ Whole(Generated(a)) /\ Generated(a).answer = a
         /\ Coherent(Generated(a))
<1>1. Generated(a) \in Row
  BY RowOfType DEF Generated
<1>. QED BY <1>1 DEF Generated, RowOf, Whole, Coherent, Unjudged, AllNaN, Metrics, Rubric

\* update_metrics called by annotate writes back what it is given, and keeps
\* the answer.
LEMMA UpdateMetricsGeneralType ==
  ASSUME NEW r \in Row, NEW mv \in MetricVector, NEW final \in FinalScores,
         NEW regime \in {"generator", "judge"},
         NEW flag \in {None, 0, 1}, NEW note \in Notes \cup {None}
  PROVE  LET u == UpdateMetrics(r, mv, final, regime, flag, note)
         IN  /\ u \in Row
             /\ u.file = r.file /\ u.answer = r.answer
             /\ u.metrics = mv /\ u.final = final /\ u.regime = regime
BY DEF UpdateMetrics, Row

=============================================================================
