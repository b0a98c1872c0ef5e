----------------------- MODULE EvaluationPassesProofs -----------------------
(***************************************************************************)
(* Proofs about the three passes, for every set of cells, every batch size *)
(* and every number of attempts.                                           *)
(***************************************************************************)
EXTENDS EvaluationPasses, ResultRowTheorems, FiniteSetTheorems

-----------------------------------------------------------------------------
(* Type correctness.                                                       *)

\* The counters start from numbers of rows.
LEMMA CountType ==
  ASSUME NEW S \in SUBSET Cells
  PROVE  Cardinality(S) \in Nat
BY FS_Subset, FS_CardinalityType, CellsAssumption

LEMMA NoneType ==
  /\ NoTally \in [Outcomes -> Nat]
  /\ NoRows \in [Cells -> Row]
  /\ NoLayer1 \in [Cells -> Layer1Vector]
<1>1. AbsentRow \in Row
  BY RowOfType, SentinelAssumption DEF AbsentRow
<1>. QED BY <1>1, AllNaNType DEF NoTally, NoRows, NoLayer1

\* A counter is incremented.
LEMMA CountStep ==
  ASSUME tally \in [Outcomes -> Nat], NEW o \in Outcomes, Count(o)
  PROVE  tally' \in [Outcomes -> Nat]
BY DEF Count

\* One row of the store is replaced.
LEMMA StoreStep ==
  ASSUME disk \in [Cells -> Row], NEW c \in Cells, NEW r \in Row, Store(c, r)
  PROVE  /\ disk' \in [Cells -> Row]
         /\ disk'[c] = r
         /\ \A d \in Cells \ {c} : disk'[d] = disk[d]
BY DEF Store

\* The row in hand is finished.
LEMMA ReleaseStep ==
  ASSUME TypeOK, NEW c \in Cells, Release(c)
  PROVE  /\ work' \in SUBSET Cells
         /\ attempt' \in 0..MaxAttempts
         /\ layer1' \in [Cells -> Layer1Vector]
BY AllNaNType, CellsAssumption DEF TypeOK, Release

\* A run ends, whatever it leaves in the store.
LEMMA EndRunStep ==
  ASSUME NEW how \in Exits, EndRun(how), disk' \in [Cells -> Row]
  PROVE  TypeOK'
BY NoneType, CellsAssumption DEF EndRun, TypeOK, Stages

\* A metrics or judge pass begins.
LEMMA BeginPassStep ==
  ASSUME TypeOK, NEW pass \in Stages, NEW pending \in SUBSET Cells, BeginPass(pass, pending)
  PROVE  TypeOK'
<1>1. Cardinality({c \in Cells \ pending : Whole(disk[c])}) \in Nat
  BY CountType
<1>2. Cardinality({c \in pending : disk[c].answer = Blank}) \in Nat
  BY CountType
<1>3. tally' \in [Outcomes -> Nat]
  BY <1>1, <1>2 DEF BeginPass, NoTally, Outcomes
<1>. QED BY <1>3 DEF BeginPass, TypeOK

\* What the metrics pass writes over the row of c.
MeasuredRow(c) ==
  UpdateMetrics(disk[c], Layer1Only(layer1[c]), FinalOf(Layer1Only(layer1[c])),
                "generator", None, None)

\* What the judge pass writes over the row of c.
JudgedRow(c, rubric) ==
  UpdateMetrics(disk[c], WithRubric(snap[c].metrics, rubric),
                FinalOf(WithRubric(snap[c].metrics, rubric)), "judge", None, None)

LEMMA MeasuredRowType ==
  ASSUME TypeOK, NEW c \in Cells
  PROVE  /\ MeasuredRow(c) \in Row
         /\ MeasuredRow(c).file = disk[c].file
         /\ MeasuredRow(c).answer = disk[c].answer
         /\ MeasuredRow(c).metrics = Layer1Only(layer1[c])
         /\ MeasuredRow(c).final = FinalOf(Layer1Only(layer1[c]))
         /\ MeasuredRow(c).flag = disk[c].flag
         /\ MeasuredRow(c).note = disk[c].note
         /\ Unjudged(MeasuredRow(c))
<1>1. disk[c] \in Row /\ Layer1Only(layer1[c]) \in MetricVector
  BY VectorType DEF TypeOK
<1>2. Layer1Only(layer1[c])[Rubric] = NaN
  BY DEF Layer1Only, Metrics, Layer1, Rubric
<1>. QED BY <1>1, <1>2, UpdateMetricsType DEF MeasuredRow, Unjudged

LEMMA JudgedRowType ==
  ASSUME TypeOK, NEW c \in Cells, NEW rubric \in Values
  PROVE  /\ JudgedRow(c, rubric) \in Row
         /\ JudgedRow(c, rubric).file = disk[c].file
         /\ JudgedRow(c, rubric).answer = disk[c].answer
         /\ JudgedRow(c, rubric).metrics = WithRubric(snap[c].metrics, rubric)
         /\ JudgedRow(c, rubric).final = FinalOf(WithRubric(snap[c].metrics, rubric))
         /\ JudgedRow(c, rubric).regime = "judge"
         /\ JudgedRow(c, rubric).flag = disk[c].flag
         /\ JudgedRow(c, rubric).note = disk[c].note
<1>1. disk[c] \in Row /\ WithRubric(snap[c].metrics, rubric) \in MetricVector
  BY VectorType DEF TypeOK, Row
<1>. QED BY <1>1, UpdateMetricsType DEF JudgedRow

LEMMA TypeInit == Init => TypeOK
BY NoneType, CellsAssumption DEF Init, TypeOK, Stages, Exits

LEMMA TypeStep == TypeOK /\ [Next]_vars => TypeOK'
<1>. SUFFICES ASSUME TypeOK, [Next]_vars PROVE TypeOK'
  OBVIOUS
<1>. USE CellsAssumption
<1>1. ASSUME NEW c \in Cells, SkipExisting(c) PROVE TypeOK'
  BY <1>1, CountStep DEF SkipExisting, TypeOK, Outcomes
<1>2. ASSUME NEW c \in Cells, MeetTornCell(c) PROVE TypeOK'
  BY <1>2, EndRunStep DEF MeetTornCell, TypeOK, Exits
<1>3. ASSUME NEW c \in Cells, TakeCell(c) PROVE TypeOK'
  BY <1>3 DEF TakeCell, TypeOK
<1>4. ASSUME NEW c \in Cells, GiveUpCell(c) PROVE TypeOK'
  BY <1>4, CountStep, ReleaseStep DEF GiveUpCell, TypeOK, Outcomes
<1>5. ASSUME NEW c \in Cells, NEW a \in Answers, Generate(c, a) PROVE TypeOK'
  BY <1>5, GeneratedType, StoreStep, CountStep, ReleaseStep DEF Generate, TypeOK, Outcomes
<1>6. ASSUME Retry PROVE TypeOK'
  BY <1>6 DEF Retry, TypeOK
<1>7. ASSUME StartMetrics PROVE TypeOK'
  BY <1>7, BeginPassStep DEF StartMetrics, Stages
<1>8. ASSUME NEW batch \in SUBSET Cells, TakeBatch(batch) PROVE TypeOK'
  BY <1>8 DEF TakeBatch, TypeOK
<1>9. ASSUME NEW scores \in [work -> Layer1Vector], ScoreBatch(scores) PROVE TypeOK'
  <2>1. layer1' \in [Cells -> Layer1Vector]
    BY <1>9, AllNaNType DEF ScoreBatch
  <2>. QED BY <1>9, <2>1 DEF ScoreBatch, TypeOK
<1>10. ASSUME GiveUpBatch PROVE TypeOK'
  BY <1>10, NoneType DEF GiveUpBatch, TypeOK
<1>11. ASSUME NEW c \in Cells, PersistMetrics(c) PROVE TypeOK'
  <2>1. Store(c, MeasuredRow(c)) /\ Release(c)
    BY <1>11 DEF PersistMetrics, MeasuredRow
  <2>2. tally' \in [Outcomes -> Nat]
    BY <1>11, CountStep DEF PersistMetrics, TypeOK, Outcomes
  <2>. QED BY <1>11, <2>1, <2>2, MeasuredRowType, StoreStep, ReleaseStep DEF PersistMetrics, TypeOK
<1>12. ASSUME NEW c \in Cells, NEW left \in FailedWrite(disk[c]), FailPersistMetrics(c, left)
       PROVE  TypeOK'
  <2>1. left \in Row
    BY FailedWriteType DEF TypeOK
  <2>. QED
    BY <1>12, <2>1, StoreStep, CountStep, ReleaseStep DEF FailPersistMetrics, TypeOK, Outcomes
<1>13. ASSUME StartJudge PROVE TypeOK'
  BY <1>13, BeginPassStep DEF StartJudge, Stages
<1>14. ASSUME NEW c \in Cells, TakeRow(c) PROVE TypeOK'
  BY <1>14 DEF TakeRow, TypeOK
<1>15. ASSUME NEW c \in Cells, NEW rubric \in Values, PersistRubric(c, rubric) PROVE TypeOK'
  <2>1. Store(c, JudgedRow(c, rubric)) /\ Release(c)
    BY <1>15 DEF PersistRubric, JudgedRow
  <2>2. tally' \in [Outcomes -> Nat]
    BY <1>15, CountStep DEF PersistRubric, TypeOK, Outcomes
  <2>. QED BY <1>15, <2>1, <2>2, JudgedRowType, StoreStep, ReleaseStep DEF PersistRubric, TypeOK
<1>16. ASSUME Complete PROVE TypeOK'
  BY <1>16, EndRunStep DEF Complete, TypeOK, Exits
<1>17. ASSUME FailLoad PROVE TypeOK'
  BY <1>17, EndRunStep DEF FailLoad, TypeOK, Exits
<1>18. ASSUME StopEarly PROVE TypeOK'
  BY <1>18, EndRunStep DEF StopEarly, TypeOK, Exits
<1>19. ASSUME ServiceRaises PROVE TypeOK'
  BY <1>19, EndRunStep DEF ServiceRaises, TypeOK, Exits
<1>20. ASSUME NEW c \in Cells, NEW left \in FailedWrite(disk[c]), FailWrite(c, left) PROVE TypeOK'
  <2>1. left \in Row
    BY FailedWriteType DEF TypeOK
  <2>. QED BY <1>20, <2>1, StoreStep, EndRunStep DEF FailWrite, TypeOK, Exits
<1>21. ASSUME Crash PROVE TypeOK'
  BY <1>21, EndRunStep DEF Crash, TypeOK, Exits
<1>22. ASSUME NEW c \in Cells, CrashInWrite(c) PROVE TypeOK'
  <2>1. TornRow \in Row
    BY RowOfType, SentinelAssumption DEF TornRow
  <2>. QED BY <1>22, <2>1, StoreStep, EndRunStep DEF CrashInWrite, TypeOK, Exits
<1>23. ASSUME NEW served \in SUBSET Cells, Launch(served) PROVE TypeOK'
  BY <1>23 DEF Launch, TypeOK, Stages, Exits
<1>24. ASSUME NEW c \in Cells, NEW flag \in {0, 1}, NEW note \in Notes \cup {None},
              NEW force \in BOOLEAN, Ingest(c, flag, note, force)
       PROVE  TypeOK'
  <2>1. UpdateAnnotation(disk[c], flag, note) \in Row
    BY UpdateAnnotationType DEF TypeOK
  <2>2. \A left \in FailedWrite(disk[c]) : left \in Row
    BY FailedWriteType DEF TypeOK
  <2>3. disk' \in [Cells -> Row]
    BY <1>24, <2>1, <2>2, StoreStep DEF Ingest, TypeOK
  <2>. QED BY <1>24, <2>3 DEF Ingest, TypeOK
<1>25. ASSUME NEW c \in Cells, DeleteTorn(c) PROVE TypeOK'
  <2>1. AbsentRow \in Row
    BY RowOfType, SentinelAssumption DEF AbsentRow
  <2>. QED BY <1>25, <2>1, StoreStep DEF DeleteTorn, TypeOK
<1>26. ASSUME UNCHANGED vars PROVE TypeOK'
  BY <1>26 DEF vars, TypeOK
<1>. QED
  BY <1>1, <1>2, <1>3, <1>4, <1>5, <1>6, <1>7, <1>8, <1>9, <1>10, <1>11, <1>12, <1>13, <1>14,
     <1>15, <1>16, <1>17, <1>18, <1>19, <1>20, <1>21, <1>22, <1>23, <1>24, <1>25, <1>26
  DEF Next, Progress, GenerationStep, MetricsStep, JudgeStep, Interruption, BetweenRuns,
      RetryGeneration, RetryBatch, RetryJudge

\* Every variable of the passes keeps its type, through any number of runs,
\* interruptions and annotations.
THEOREM TypeCorrect == Spec => []TypeOK
<1>. QED BY TypeInit, TypeStep, PTL DEF Spec

-----------------------------------------------------------------------------
(* The inductive invariant.                                                *)

\* The conjuncts that a step which leaves the store alone can still disturb.
Due == WorkIsFresh /\ WorkIsDue /\ JudgePassCovers /\ CompletedRunJudgedAll
         /\ MetricsPassScoresNothing

\* The rows stay coherent when one of them is replaced by a coherent one.
LEMMA StoreCoherent ==
  ASSUME TypeOK, RowsCoherent, NEW c \in Cells, NEW r \in Row, Store(c, r),
         Whole(r) => Coherent(r)
  PROVE  RowsCoherent'
BY StoreStep DEF TypeOK, RowsCoherent

\* A row a failed write may leave is coherent if the row before it was.
LEMMA FailedWriteCoherent ==
  ASSUME TypeOK, RowsCoherent, NEW c \in Cells, NEW left \in FailedWrite(disk[c])
  PROVE  left \in Row /\ (Whole(left) => Coherent(left) /\ left = disk[c])
BY FailedWriteType DEF TypeOK, RowsCoherent

LEMMA LostFileType ==
  /\ TornRow \in Row /\ ~Whole(TornRow)
  /\ AbsentRow \in Row /\ ~Whole(AbsentRow)
BY RowOfType, SentinelAssumption DEF TornRow, AbsentRow, RowOf, Whole

\* After the end of a run that does not claim completion nothing is due.
LEMMA EndRunDue ==
  ASSUME NEW how \in Exits \ {"completed"}, EndRun(how)
  PROVE  Due'
BY DEF EndRun, Due, WorkIsFresh, WorkIsDue, JudgePassCovers, CompletedRunJudgedAll,
       MetricsPassScoresNothing

\* Taking up work of the pass leaves what is due and what is covered alone.
LEMMA TakeDue ==
  ASSUME Due, NEW batch \in SUBSET todo, todo' = todo \ batch, work = {}, work' = batch,
         stage # "generation", stage # "down", UNCHANGED <<disk, stage, snap, tally, exit>>
  PROVE  Due'
<1>1. todo' \cup work' = todo \cup work
  OBVIOUS
<1>2. WorkIsDue'
  BY <1>1 DEF Due, WorkIsDue, Answered, Whole, Unmeasured, Unjudged
<1>. QED
  BY <1>1, <1>2 DEF Due, WorkIsFresh, JudgePassCovers, CompletedRunJudgedAll,
                    MetricsPassScoresNothing, Answered, Whole

\* A measured row is coherent: it has no rubric and the generator's regime.
LEMMA MeasuredRowCoherent ==
  ASSUME TypeOK, NEW c \in Cells, disk[c].answer # Blank
  PROVE  Coherent(MeasuredRow(c))
BY MeasuredRowType DEF Coherent

\* A judged row is coherent: its score is that of the vector it was given.
LEMMA JudgedRowCoherent ==
  ASSUME TypeOK, NEW c \in Cells, NEW rubric \in Values, disk[c].answer # Blank
  PROVE  Coherent(JudgedRow(c, rubric))
BY JudgedRowType DEF Coherent

\* While the rubric counts, what the metrics pass writes has no final score.
LEMMA MeasuredRowUnscored ==
  ASSUME TypeOK, NEW c \in Cells, Rubric \in Weighted
  PROVE  FinalOf(Layer1Only(layer1[c])) = NaN
<1>1. Layer1Only(layer1[c]) \in MetricVector
  BY VectorType DEF TypeOK
<1>2. Layer1Only(layer1[c])[Rubric] = NaN
  BY DEF Layer1Only, Metrics, Layer1, Rubric
<1>. QED BY <1>1, <1>2, FinalOfNaN

LEMMA InvInit == Init => IInv
<1>. SUFFICES ASSUME Init PROVE IInv
  OBVIOUS
<1>1. TypeOK
  BY TypeInit
<1>2. \A c \in Cells : ~Whole(disk[c])
  BY LostFileType DEF Init, NoRows
<1>. QED
  BY <1>1, <1>2 DEF Init, IInv, RowsCoherent, WorkIsFresh, WorkIsDue, JudgePassCovers,
                    CompletedRunJudgedAll, MetricsPassScoresNothing

LEMMA InvStep == IInv /\ [Next]_vars => IInv'
<1>. SUFFICES ASSUME IInv, [Next]_vars PROVE IInv'
  OBVIOUS
<1>t. TypeOK /\ TypeOK' /\ RowsCoherent /\ Due
  BY TypeStep DEF IInv, Due
<1>. SUFFICES RowsCoherent' /\ Due'
  BY <1>t DEF IInv, Due
\* Steps that leave the store alone keep its rows coherent.
<1>s. disk' = disk => RowsCoherent'
  BY <1>t DEF RowsCoherent, Whole, Coherent, Unjudged
<1>1. ASSUME NEW c \in Cells, SkipExisting(c) PROVE RowsCoherent' /\ Due'
  BY <1>1, <1>s, <1>t DEF SkipExisting, Due, WorkIsFresh, WorkIsDue, JudgePassCovers,
                          CompletedRunJudgedAll, MetricsPassScoresNothing
<1>2. ASSUME NEW c \in Cells, MeetTornCell(c) PROVE RowsCoherent' /\ Due'
  BY <1>2, <1>s, EndRunDue DEF MeetTornCell, Exits
<1>3. ASSUME NEW c \in Cells, TakeCell(c) PROVE RowsCoherent' /\ Due'
  BY <1>3, <1>s DEF TakeCell, Due, WorkIsFresh, WorkIsDue, JudgePassCovers,
                    CompletedRunJudgedAll, MetricsPassScoresNothing
<1>4. ASSUME NEW c \in Cells, GiveUpCell(c) PROVE RowsCoherent' /\ Due'
  BY <1>4, <1>s, <1>t DEF GiveUpCell, Release, Due, WorkIsFresh, WorkIsDue, JudgePassCovers,
                          CompletedRunJudgedAll, MetricsPassScoresNothing
<1>5. ASSUME NEW c \in Cells, NEW a \in Answers, Generate(c, a) PROVE RowsCoherent' /\ Due'
  <2>1. RowsCoherent'
    BY <1>5, <1>t, GeneratedType, StoreCoherent DEF Generate
  <2>2. \A d \in work' : d \in work /\ disk'[d] = disk[d]
    BY <1>5, <1>t, GeneratedType, StoreStep DEF Generate, Release, TypeOK
  <2>. QED
    BY <1>5, <1>t, <2>1, <2>2 DEF Generate, Release, Due, WorkIsFresh, WorkIsDue,
         JudgePassCovers, CompletedRunJudgedAll, MetricsPassScoresNothing
<1>6. ASSUME Retry PROVE RowsCoherent' /\ Due'
  BY <1>6, <1>s, <1>t DEF Retry, Due, WorkIsFresh, WorkIsDue, JudgePassCovers, CompletedRunJudgedAll,
       MetricsPassScoresNothing, Answered, Whole, Unmeasured, Unjudged
<1>7. ASSUME StartMetrics PROVE RowsCoherent' /\ Due'
  <2>1. Due'
    BY <1>7, <1>t DEF StartMetrics, BeginPass, PassIdle, NoTally, Outcomes, Due, WorkIsFresh,
         WorkIsDue, JudgePassCovers, CompletedRunJudgedAll, MetricsPassScoresNothing,
         Answered, Whole, Unmeasured
  <2>. QED BY <1>7, <1>s, <2>1 DEF StartMetrics, BeginPass
<1>8. ASSUME NEW batch \in SUBSET Cells, TakeBatch(batch) PROVE RowsCoherent' /\ Due'
  BY <1>8, <1>s, <1>t, TakeDue DEF TakeBatch
<1>9. ASSUME NEW scores \in [work -> Layer1Vector], ScoreBatch(scores) PROVE RowsCoherent' /\ Due'
  BY <1>9, <1>s, <1>t DEF ScoreBatch, Due, WorkIsFresh, WorkIsDue, JudgePassCovers,
       CompletedRunJudgedAll, MetricsPassScoresNothing, Answered, Whole, Unmeasured, Unjudged
<1>10. ASSUME GiveUpBatch PROVE RowsCoherent' /\ Due'
  BY <1>10, <1>s, <1>t DEF GiveUpBatch, Due, WorkIsFresh, WorkIsDue, JudgePassCovers,
       CompletedRunJudgedAll, MetricsPassScoresNothing, Answered, Whole, Unmeasured, Unjudged
<1>11. ASSUME NEW c \in Cells, PersistMetrics(c) PROVE RowsCoherent' /\ Due'
  <2>1. Store(c, MeasuredRow(c)) /\ Release(c) /\ stage = "metrics" /\ c \in work
    BY <1>11 DEF PersistMetrics, MeasuredRow
  <2>2. RowsCoherent'
    BY <1>t, <2>1, MeasuredRowType, MeasuredRowCoherent, StoreCoherent DEF Due, WorkIsDue, Answered
  <2>3. \A d \in todo' \cup work' : d \in todo \cup work /\ disk'[d] = disk[d]
    BY <1>11, <1>t, <2>1, MeasuredRowType, StoreStep
    DEF PersistMetrics, Release, TypeOK, Due, WorkIsDue
  <2>4. MetricsPassScoresNothing'
    BY <1>11, <1>t, MeasuredRowUnscored
    DEF PersistMetrics, Count, TypeOK, Outcomes, Due, MetricsPassScoresNothing
  <2>. QED
    BY <1>11, <1>t, <2>1, <2>2, <2>3, <2>4 DEF PersistMetrics, Release, Due, WorkIsFresh,
         WorkIsDue, JudgePassCovers, CompletedRunJudgedAll, Answered, Whole, Unmeasured
<1>12. ASSUME NEW c \in Cells, NEW left \in FailedWrite(disk[c]), FailPersistMetrics(c, left)
       PROVE  RowsCoherent' /\ Due'
  <2>1. Store(c, left) /\ Release(c) /\ stage = "metrics" /\ c \in work
    BY <1>12 DEF FailPersistMetrics
  <2>2. RowsCoherent'
    BY <1>t, <2>1, FailedWriteCoherent, StoreCoherent
  <2>3. \A d \in todo' \cup work' : d \in todo \cup work /\ disk'[d] = disk[d]
    BY <1>12, <1>t, <2>1, FailedWriteCoherent, StoreStep
    DEF FailPersistMetrics, Release, TypeOK, Due, WorkIsDue
  <2>4. MetricsPassScoresNothing'
    BY <1>12, <1>t DEF FailPersistMetrics, Count, TypeOK, Outcomes, Due, MetricsPassScoresNothing
  <2>. QED
    BY <1>12, <1>t, <2>1, <2>2, <2>3, <2>4 DEF FailPersistMetrics, Release, Due, WorkIsFresh,
         WorkIsDue, JudgePassCovers, CompletedRunJudgedAll, Answered, Whole, Unmeasured
<1>13. ASSUME StartJudge PROVE RowsCoherent' /\ Due'
  <2>1. \A c \in Cells \ todo' : Answered(disk[c]) => disk[c].regime = "judge"
    BY <1>13, <1>t DEF StartJudge, BeginPass, RowsCoherent, Coherent, Answered
  <2>2. Due'
    BY <1>13, <1>t, <2>1 DEF StartJudge, BeginPass, PassIdle, Due, WorkIsFresh, WorkIsDue,
         JudgePassCovers, CompletedRunJudgedAll, MetricsPassScoresNothing,
         Answered, Whole, Unjudged
  <2>. QED BY <1>13, <1>s, <2>2 DEF StartJudge, BeginPass
<1>14. ASSUME NEW c \in Cells, TakeRow(c) PROVE RowsCoherent' /\ Due'
  BY <1>14, <1>s, <1>t, TakeDue DEF TakeRow
<1>15. ASSUME NEW c \in Cells, NEW rubric \in Values, PersistRubric(c, rubric)
       PROVE  RowsCoherent' /\ Due'
  <2>1. Store(c, JudgedRow(c, rubric)) /\ Release(c) /\ stage = "judge" /\ c \in work
    BY <1>15 DEF PersistRubric, JudgedRow
  <2>2. RowsCoherent'
    BY <1>t, <2>1, JudgedRowType, JudgedRowCoherent, StoreCoherent DEF Due, WorkIsDue, Answered
  <2>3. \A d \in todo' \cup work' : d \in todo \cup work /\ disk'[d] = disk[d]
    BY <1>15, <1>t, <2>1, JudgedRowType, StoreStep
    DEF PersistRubric, Release, TypeOK, Due, WorkIsDue
  <2>4. disk'[c].regime = "judge" /\ \A d \in Cells \ {c} : disk'[d] = disk[d]
    BY <1>t, <2>1, JudgedRowType, StoreStep DEF TypeOK
  <2>5. JudgePassCovers'
    BY <1>15, <1>t, <2>1, <2>4 DEF PersistRubric, Release, Due, JudgePassCovers, Answered, Whole
  <2>. QED
    BY <1>15, <1>t, <2>1, <2>2, <2>3, <2>5 DEF PersistRubric, Release, Due, WorkIsFresh,
         WorkIsDue, CompletedRunJudgedAll, MetricsPassScoresNothing, Answered, Whole, Unjudged
<1>16. ASSUME Complete PROVE RowsCoherent' /\ Due'
  BY <1>16, <1>s, <1>t DEF Complete, PassIdle, EndRun, Due, WorkIsFresh, WorkIsDue,
       JudgePassCovers, CompletedRunJudgedAll, MetricsPassScoresNothing, Answered, Whole
<1>17. ASSUME FailLoad PROVE RowsCoherent' /\ Due'
  BY <1>17, <1>s, EndRunDue DEF FailLoad, Exits
<1>18. ASSUME StopEarly PROVE RowsCoherent' /\ Due'
  BY <1>18, <1>s, EndRunDue DEF StopEarly, Exits
<1>19. ASSUME ServiceRaises PROVE RowsCoherent' /\ Due'
  BY <1>19, <1>s, EndRunDue DEF ServiceRaises, Exits
<1>20. ASSUME NEW c \in Cells, NEW left \in FailedWrite(disk[c]), FailWrite(c, left)
       PROVE  RowsCoherent' /\ Due'
  BY <1>20, <1>t, FailedWriteCoherent, StoreCoherent, EndRunDue DEF FailWrite, Exits
<1>21. ASSUME Crash PROVE RowsCoherent' /\ Due'
  BY <1>21, <1>s, EndRunDue DEF Crash, Exits
<1>22. ASSUME NEW c \in Cells, CrashInWrite(c) PROVE RowsCoherent' /\ Due'
  BY <1>22, <1>t, LostFileType, StoreCoherent, EndRunDue DEF CrashInWrite, Exits
<1>23. ASSUME NEW served \in SUBSET Cells, Launch(served) PROVE RowsCoherent' /\ Due'
  BY <1>23, <1>s, <1>t DEF Launch, Due, WorkIsFresh, WorkIsDue, JudgePassCovers,
                           CompletedRunJudgedAll, MetricsPassScoresNothing
<1>24. ASSUME NEW c \in Cells, NEW flag \in {0, 1}, NEW note \in Notes \cup {None},
              NEW force \in BOOLEAN, Ingest(c, flag, note, force)
       PROVE  RowsCoherent' /\ Due'
  <2>1. PICK r \in Row : /\ Store(c, r)
                         /\ Whole(r) => /\ Coherent(r)
                                        /\ r.answer = disk[c].answer /\ r.regime = disk[c].regime
    <3>1. disk[c] \in Row /\ Whole(disk[c]) /\ Coherent(disk[c])
      BY <1>24, <1>t DEF Ingest, TypeOK, RowsCoherent
    <3>2. CASE Store(c, UpdateAnnotation(disk[c], flag, note))
      <4>. DEFINE u == UpdateAnnotation(disk[c], flag, note)
      <4>1. /\ u \in Row /\ u.answer = disk[c].answer /\ u.metrics = disk[c].metrics
            /\ u.final = disk[c].final /\ u.regime = disk[c].regime
        BY <3>1, UpdateAnnotationType
      <4>2. Coherent(u)
        BY <3>1, <4>1 DEF Coherent, Unjudged
      <4>. QED BY <3>2, <4>1, <4>2
    <3>3. CASE \E left \in FailedWrite(disk[c]) : Store(c, left)
      BY <3>3, <1>t, FailedWriteCoherent
    <3>. QED BY <1>24, <3>2, <3>3 DEF Ingest
  <2>2. RowsCoherent'
    BY <1>t, <2>1, StoreCoherent
  <2>3. disk'[c] = r /\ \A d \in Cells \ {c} : disk'[d] = disk[d]
    BY <1>t, <2>1, StoreStep DEF TypeOK
  <2>4. CompletedRunJudgedAll'
    BY <1>24, <1>t, <2>1, <2>3 DEF Ingest, Due, CompletedRunJudgedAll, Answered, Whole
  <2>. QED
    BY <1>24, <1>t, <2>2, <2>4 DEF Ingest, Due, WorkIsFresh, WorkIsDue, JudgePassCovers,
         MetricsPassScoresNothing
<1>25. ASSUME NEW c \in Cells, DeleteTorn(c) PROVE RowsCoherent' /\ Due'
  <2>1. RowsCoherent'
    BY <1>25, <1>t, LostFileType, StoreCoherent DEF DeleteTorn
  <2>2. disk'[c] = AbsentRow /\ \A d \in Cells \ {c} : disk'[d] = disk[d]
    BY <1>25, <1>t, LostFileType, StoreStep DEF DeleteTorn, TypeOK
  <2>3. CompletedRunJudgedAll'
    BY <1>25, <1>t, <2>2, LostFileType DEF DeleteTorn, Due, CompletedRunJudgedAll, Answered, Whole
  <2>. QED
    BY <1>25, <1>t, <2>1, <2>3 DEF DeleteTorn, Due, WorkIsFresh, WorkIsDue, JudgePassCovers,
         MetricsPassScoresNothing
<1>26. ASSUME UNCHANGED vars PROVE RowsCoherent' /\ Due'
  BY <1>26, <1>s, <1>t DEF vars, Due, WorkIsFresh, WorkIsDue, JudgePassCovers,
       CompletedRunJudgedAll, MetricsPassScoresNothing, Answered, Whole, Unmeasured, Unjudged
<1>. QED
  BY <1>1, <1>2, <1>3, <1>4, <1>5, <1>6, <1>7, <1>8, <1>9, <1>10, <1>11, <1>12, <1>13, <1>14,
     <1>15, <1>16, <1>17, <1>18, <1>19, <1>20, <1>21, <1>22, <1>23, <1>24, <1>25, <1>26
  DEF Next, Progress, GenerationStep, MetricsStep, JudgeStep, Interruption, BetweenRuns,
      RetryGeneration, RetryBatch, RetryJudge

\* The inductive invariant holds in every reachable state.
THEOREM Invariant == Spec => []IInv
<1>. QED BY InvInit, InvStep, PTL DEF Spec

\* Whatever pass wrote a row last, and wherever a run was cut short, the
\* score, the rubric and the regime found in the row agree.
THEOREM RowsAlwaysCoherent == Spec => []RowsCoherent
<1>1. IInv => RowsCoherent
  BY DEF IInv
<1>. QED BY <1>1, Invariant, PTL

\* The metrics and judge passes never write over a row that changed after
\* they loaded it.
THEOREM WorkAlwaysFresh == Spec => []WorkIsFresh
<1>1. IInv => WorkIsFresh
  BY DEF IInv
<1>. QED BY <1>1, Invariant, PTL

\* A run that reports completion leaves no answer without a verdict.
THEOREM CompletionIsTotal == Spec => []CompletedRunJudgedAll
<1>1. IInv => CompletedRunJudgedAll
  BY DEF IInv
<1>. QED BY <1>1, Invariant, PTL

\* The metrics pass cannot score a row while the rubric has a weight.
THEOREM MetricsPassNeverScores == Spec => []MetricsPassScoresNothing
<1>1. IInv => MetricsPassScoresNothing
  BY DEF IInv
<1>. QED BY <1>1, Invariant, PTL

-----------------------------------------------------------------------------
(* What a step may never do to a row.                                      *)

\* How one step can change the row of a cell: its file is lost or damaged, it
\* gets its first row, or a pass or the reviewer replaces a row by another.
RowStep(c) ==
  \/ disk'[c] = disk[c]
  \/ ~Whole(disk'[c])
  \/ /\ disk[c].file = "absent"
     /\ \E a \in Answers : disk'[c] = Generated(a)
  \/ /\ stage = "metrics" /\ c \in work
     /\ disk'[c] = MeasuredRow(c)
  \/ /\ stage = "judge" /\ c \in work
     /\ \E rubric \in Values : disk'[c] = JudgedRow(c, rubric)
  \/ /\ stage = "down"
     /\ \E flag \in {0, 1}, note \in Notes \cup {None} :
          disk'[c] = UpdateAnnotation(disk[c], flag, note)

LEMMA EveryRowStep == IInv /\ [Next]_vars => \A d \in Cells : RowStep(d)
<1>. SUFFICES ASSUME IInv, [Next]_vars, NEW d \in Cells PROVE RowStep(d)
  OBVIOUS
<1>t. TypeOK /\ RowsCoherent /\ WorkIsDue
  BY DEF IInv
\* A write to one cell is a row step if it is one for that cell.
<1>s. ASSUME NEW c \in Cells, NEW r \in Row, Store(c, r), c = d => RowStep(d)
      PROVE  RowStep(d)
  BY <1>s, <1>t, StoreStep DEF TypeOK, RowStep
<1>u. ASSUME NEW c \in Cells, NEW left \in FailedWrite(disk[c]), Store(c, left)
      PROVE  RowStep(d)
  <2>1. left \in Row /\ (Whole(left) => left = disk[c])
    BY FailedWriteType, <1>t DEF TypeOK
  <2>2. c = d => RowStep(d)
    BY <1>u, <2>1, <1>t, StoreStep DEF RowStep, TypeOK
  <2>. QED BY <1>u, <2>1, <2>2, <1>s
<1>1. ASSUME NEW c \in Cells, NEW a \in Answers, Generate(c, a) PROVE RowStep(d)
  <2>1. disk[c].file = "absent"
    BY <1>1, <1>t DEF Generate, WorkIsDue
  <2>2. disk'[c] = Generated(a)
    BY <1>1, <1>t, GeneratedType, StoreStep DEF Generate, TypeOK
  <2>. QED BY <1>1, <2>1, <2>2, <1>s, GeneratedType DEF Generate, RowStep
<1>2. ASSUME NEW c \in Cells, PersistMetrics(c) PROVE RowStep(d)
  <2>1. Store(c, MeasuredRow(c)) /\ stage = "metrics" /\ c \in work
    BY <1>2 DEF PersistMetrics, MeasuredRow
  <2>2. MeasuredRow(c) \in Row
    BY <1>t, MeasuredRowType
  <2>3. disk'[c] = MeasuredRow(c)
    BY <2>1, <2>2, <1>t, StoreStep DEF TypeOK
  <2>. QED BY <2>1, <2>2, <2>3, <1>s DEF RowStep
<1>3. ASSUME NEW c \in Cells, NEW rubric \in Values, PersistRubric(c, rubric) PROVE RowStep(d)
  <2>1. Store(c, JudgedRow(c, rubric)) /\ stage = "judge" /\ c \in work
    BY <1>3 DEF PersistRubric, JudgedRow
  <2>2. JudgedRow(c, rubric) \in Row
    BY <1>t, JudgedRowType
  <2>3. disk'[c] = JudgedRow(c, rubric)
    BY <2>1, <2>2, <1>t, StoreStep DEF TypeOK
  <2>. QED BY <2>1, <2>2, <2>3, <1>s DEF RowStep
<1>4. ASSUME NEW c \in Cells, NEW left \in FailedWrite(disk[c]), FailPersistMetrics(c, left)
      PROVE  RowStep(d)
  BY <1>4, <1>u DEF FailPersistMetrics
<1>5. ASSUME NEW c \in Cells, NEW left \in FailedWrite(disk[c]), FailWrite(c, left)
      PROVE  RowStep(d)
  BY <1>5, <1>u DEF FailWrite
<1>6. ASSUME NEW c \in Cells, CrashInWrite(c) PROVE RowStep(d)
  <2>1. disk'[c] = TornRow
    BY <1>6, <1>t, LostFileType, StoreStep DEF CrashInWrite, TypeOK
  <2>. QED BY <1>6, <2>1, <1>s, LostFileType DEF CrashInWrite, RowStep
<1>7. ASSUME NEW c \in Cells, NEW flag \in {0, 1}, NEW note \in Notes \cup {None},
             NEW force \in BOOLEAN, Ingest(c, flag, note, force)
      PROVE  RowStep(d)
  <2>1. CASE Store(c, UpdateAnnotation(disk[c], flag, note))
    <3>1. UpdateAnnotation(disk[c], flag, note) \in Row
      BY <1>t, UpdateAnnotationType DEF TypeOK
    <3>2. disk'[c] = UpdateAnnotation(disk[c], flag, note)
      BY <2>1, <3>1, <1>t, StoreStep DEF TypeOK
    <3>. QED BY <1>7, <2>1, <3>1, <3>2, <1>s DEF Ingest, RowStep
  <2>2. CASE \E left \in FailedWrite(disk[c]) : Store(c, left)
    BY <2>2, <1>u
  <2>. QED BY <1>7, <2>1, <2>2 DEF Ingest
<1>8. ASSUME NEW c \in Cells, DeleteTorn(c) PROVE RowStep(d)
  <2>1. disk'[c] = AbsentRow
    BY <1>8, <1>t, LostFileType, StoreStep DEF DeleteTorn, TypeOK
  <2>. QED BY <1>8, <2>1, <1>s, LostFileType DEF DeleteTorn, RowStep
<1>9. ASSUME disk' = disk PROVE RowStep(d)
  BY <1>9 DEF RowStep
<1>10. CASE UNCHANGED vars
  BY <1>9, <1>10 DEF vars
<1>11. CASE Progress
  BY <1>1, <1>2, <1>3, <1>4, <1>9, <1>11
  DEF Progress, GenerationStep, MetricsStep, JudgeStep, SkipExisting, MeetTornCell, TakeCell,
      GiveUpCell, RetryGeneration, RetryBatch, RetryJudge, Retry, StartMetrics, StartJudge,
      BeginPass, TakeBatch, ScoreBatch, GiveUpBatch, TakeRow, Complete, FailLoad
<1>12. CASE Interruption
  BY <1>5, <1>6, <1>9, <1>12 DEF Interruption, StopEarly, ServiceRaises, Crash
<1>13. CASE BetweenRuns
  BY <1>7, <1>8, <1>9, <1>13 DEF BetweenRuns, Launch
<1>. QED BY <1>10, <1>11, <1>12, <1>13 DEF Next

\* An answer, once persisted, is what every later pass and run works with.
THEOREM AnswersKept == Spec => AnswerKept
<1>1. ASSUME IInv, [Next]_vars
      PROVE  [\A c \in Cells : (Whole(disk[c]) /\ Whole(disk'[c])) =>
                disk'[c].answer = disk[c].answer]_vars
  <2>. SUFFICES ASSUME NEW c \in Cells, Whole(disk[c]), Whole(disk'[c])
                PROVE  disk'[c].answer = disk[c].answer
    OBVIOUS
  <2>1. TypeOK /\ RowStep(c)
    BY <1>1, EveryRowStep DEF IInv
  <2>. QED
    BY <2>1, MeasuredRowType, JudgedRowType, UpdateAnnotationType DEF RowStep, TypeOK, Whole
<1>. QED BY <1>1, Invariant, PTL DEF Spec, AnswerKept

\* The expensive Layer 1 metrics are never recomputed over a value, and a row
\* with its verdict too is final.
THEOREM SettledRowsKept == Spec => SettledKept
<1>1. ASSUME IInv, [Next]_vars
      PROVE  [\A c \in Cells : (Whole(disk[c]) /\ Whole(disk'[c]) /\ ~Unmeasured(disk[c])) =>
                /\ \A m \in Layer1 : disk'[c].metrics[m] = disk[c].metrics[m]
                /\ ~Unjudged(disk[c]) => /\ disk'[c].metrics = disk[c].metrics
                                         /\ disk'[c].final = disk[c].final
                                         /\ disk'[c].regime = disk[c].regime]_vars
  <2>. SUFFICES ASSUME NEW c \in Cells, Whole(disk[c]), Whole(disk'[c]), ~Unmeasured(disk[c])
                PROVE  /\ \A m \in Layer1 : disk'[c].metrics[m] = disk[c].metrics[m]
                       /\ ~Unjudged(disk[c]) => /\ disk'[c].metrics = disk[c].metrics
                                                /\ disk'[c].final = disk[c].final
                                                /\ disk'[c].regime = disk[c].regime
    OBVIOUS
  <2>1. TypeOK /\ WorkIsDue /\ WorkIsFresh /\ RowStep(c)
    BY <1>1, EveryRowStep DEF IInv
  <2>2. CASE stage = "judge" /\ c \in work /\ \E rubric \in Values : disk'[c] = JudgedRow(c, rubric)
    <3>1. PICK rubric \in Values : disk'[c].metrics = WithRubric(disk[c].metrics, rubric)
      BY <2>1, <2>2, JudgedRowType DEF WorkIsFresh
    <3>2. disk[c].metrics \in MetricVector
      BY <2>1 DEF TypeOK, Row
    <3>3. \A m \in Layer1 : disk'[c].metrics[m] = disk[c].metrics[m]
      BY <3>1, <3>2 DEF WithRubric, MetricVector, Metrics, Layer1, Rubric
    <3>4. Unjudged(disk[c])
      BY <2>1, <2>2 DEF WorkIsDue
    <3>. QED BY <3>3, <3>4
  <2>3. ~(stage = "metrics" /\ c \in work)
    BY <2>1 DEF WorkIsDue
  <2>. QED BY <2>1, <2>2, <2>3, UpdateAnnotationType DEF RowStep, TypeOK, Whole
<1>. QED BY <1>1, Invariant, PTL DEF Spec, SettledKept

\* The passes write whole rows without touching the reviewer's columns.
THEOREM AnnotationsKept == Spec => AnnotationKept
<1>1. ASSUME IInv, [Next]_vars
      PROVE  [\A c \in Cells : (stage # "down" /\ Whole(disk[c]) /\ Whole(disk'[c])) =>
                /\ disk'[c].flag = disk[c].flag
                /\ disk'[c].note = disk[c].note]_vars
  <2>. SUFFICES ASSUME NEW c \in Cells, stage # "down", Whole(disk[c]), Whole(disk'[c])
                PROVE  disk'[c].flag = disk[c].flag /\ disk'[c].note = disk[c].note
    OBVIOUS
  <2>1. TypeOK /\ RowStep(c)
    BY <1>1, EveryRowStep DEF IInv
  <2>. QED BY <2>1, MeasuredRowType, JudgedRowType DEF RowStep, Whole
<1>. QED BY <1>1, Invariant, PTL DEF Spec, AnnotationKept

-----------------------------------------------------------------------------
(* The passes implement the abstract life cycle of a cell.                 *)

\* A step writes the row of one cell at most.
LEMMA OneRowAtATime ==
  ASSUME IInv, Next
  PROVE  \/ disk' = disk
         \/ \E c \in Cells : disk' = [disk EXCEPT ![c] = disk'[c]]
<1>t. disk \in [Cells -> Row]
  BY DEF IInv, TypeOK
<1>s. ASSUME NEW c \in Cells, NEW r, Store(c, r)
      PROVE  disk' = [disk EXCEPT ![c] = disk'[c]]
  BY <1>s, <1>t DEF Store
<1>1. CASE Progress
  BY <1>s, <1>1
  DEF Progress, GenerationStep, MetricsStep, JudgeStep, SkipExisting, MeetTornCell, TakeCell,
      GiveUpCell, Generate, RetryGeneration, RetryBatch, RetryJudge, Retry, StartMetrics,
      StartJudge, BeginPass, TakeBatch, ScoreBatch, GiveUpBatch, PersistMetrics,
      FailPersistMetrics, TakeRow, PersistRubric, Complete, FailLoad
<1>2. CASE Interruption
  BY <1>s, <1>2 DEF Interruption, StopEarly, ServiceRaises, FailWrite, Crash, CrashInWrite
<1>3. CASE BetweenRuns
  BY <1>s, <1>3 DEF BetweenRuns, Launch, Ingest, DeleteTorn
<1>. QED BY <1>1, <1>2, <1>3 DEF Next

\* The life of a row, condition by condition.
LEMMA LifeCases ==
  ASSUME NEW r \in Row
  PROVE  /\ r.file = "absent" => LifeOf(r) = "missing"
         /\ r.file = "torn" => LifeOf(r) = "damaged"
         /\ Whole(r) /\ r.answer = Blank => LifeOf(r) = "blank"
         /\ Answered(r) /\ Unmeasured(r) /\ Unjudged(r) => LifeOf(r) = "answered"
         /\ Answered(r) /\ ~Unmeasured(r) /\ Unjudged(r) => LifeOf(r) = "measured"
         /\ Answered(r) /\ Unmeasured(r) /\ ~Unjudged(r) => LifeOf(r) = "judged"
         /\ Answered(r) /\ ~Unmeasured(r) /\ ~Unjudged(r) => LifeOf(r) = "settled"
BY DEF LifeOf, Row, Whole, Answered

\* Where one step of the life of a cell can lead.
LifeStep(from, to) ==
  \/ to = from
  \/ to \in {"damaged", "missing"}
  \/ from = "missing" /\ to \in {"answered", "blank"}
  \/ from \in {"answered", "judged"} /\ to = "measured"
  \/ from = "judged" /\ to = "answered"
  \/ from = "answered" /\ to = "judged"
  \/ from = "measured" /\ to = "settled"

LEMMA RowStepIsLifeStep ==
  ASSUME IInv, NEW c \in Cells, RowStep(c), disk'[c] \in Row
  PROVE  LifeStep(LifeOf(disk[c]), LifeOf(disk'[c]))
<1>t. TypeOK /\ WorkIsDue /\ WorkIsFresh /\ disk[c] \in Row
  BY DEF IInv, TypeOK
<1>1. CASE disk'[c] = disk[c]
  BY <1>1 DEF LifeStep
<1>2. CASE ~Whole(disk'[c])
  <2>1. disk'[c].file \in {"absent", "torn"}
    BY <1>2 DEF Row, Whole
  <2>. QED BY <2>1, LifeCases DEF LifeStep
<1>3. CASE disk[c].file = "absent" /\ \E a \in Answers : disk'[c] = Generated(a)
  <2>1. LifeOf(disk[c]) = "missing"
    BY <1>3, <1>t, LifeCases
  <2>2. PICK a \in Answers : disk'[c] = Generated(a)
    BY <1>3
  <2>3. Whole(disk'[c]) /\ disk'[c].metrics = AllNaN
    BY <2>2 DEF Generated, RowOf, Whole
  <2>4. Unmeasured(disk'[c]) /\ Unjudged(disk'[c])
    BY <2>3 DEF Unmeasured, Unjudged, AllNaN, Metrics, Layer1, Rubric
  <2>5. LifeOf(disk'[c]) \in {"answered", "blank"}
    BY <2>3, <2>4, LifeCases DEF Answered
  <2>. QED BY <2>1, <2>5 DEF LifeStep
<1>4. CASE stage = "metrics" /\ c \in work /\ disk'[c] = MeasuredRow(c)
  <2>1. Answered(disk[c]) /\ Unmeasured(disk[c])
    BY <1>4, <1>t DEF WorkIsDue
  <2>2. LifeOf(disk[c]) \in {"answered", "judged"}
    BY <2>1, <1>t, LifeCases
  <2>3. Answered(disk'[c]) /\ Unjudged(disk'[c])
    BY <1>4, <1>t, <2>1, MeasuredRowType DEF Answered, Whole
  <2>4. LifeOf(disk'[c]) \in {"answered", "measured"}
    BY <2>3, LifeCases
  <2>. QED BY <2>2, <2>4 DEF LifeStep
<1>5. CASE stage = "judge" /\ c \in work /\ \E rubric \in Values : disk'[c] = JudgedRow(c, rubric)
  <2>1. Answered(disk[c]) /\ Unjudged(disk[c])
    BY <1>5, <1>t DEF WorkIsDue
  <2>2. PICK rubric \in Values : disk'[c] = JudgedRow(c, rubric)
    BY <1>5
  <2>3. Answered(disk'[c]) /\ disk'[c].metrics = WithRubric(disk[c].metrics, rubric)
    BY <1>5, <1>t, <2>1, <2>2, JudgedRowType DEF Answered, Whole, WorkIsFresh
  <2>4. Unmeasured(disk'[c]) <=> Unmeasured(disk[c])
    BY <2>3, <1>t DEF Unmeasured, WithRubric, Row, MetricVector, Metrics, Layer1, Rubric
  <2>. QED BY <1>t, <2>1, <2>3, <2>4, LifeCases DEF LifeStep
<1>6. CASE \E flag \in {0, 1}, note \in Notes \cup {None} :
             disk'[c] = UpdateAnnotation(disk[c], flag, note)
  <2>1. /\ disk'[c].file = disk[c].file /\ disk'[c].answer = disk[c].answer
        /\ disk'[c].metrics = disk[c].metrics
    BY <1>6, <1>t, UpdateAnnotationType
  <2>2. LifeOf(disk'[c]) = LifeOf(disk[c])
    BY <1>t, <2>1, LifeCases DEF Row, Whole, Answered, Unmeasured, Unjudged
  <2>. QED BY <2>2 DEF LifeStep
<1>. QED BY <1>1, <1>2, <1>3, <1>4, <1>5, <1>6 DEF RowStep

Lives == [c \in Cells |-> LifeOf(disk[c])]

LEMMA LifeType ==
  ASSUME NEW r \in Row
  PROVE  LifeOf(r) \in Lifecycle!Stages
<1>1. Whole(r) => r.answer = Blank \/ Answered(r)
  BY DEF Answered
<1>. QED BY <1>1, LifeCases DEF Lifecycle!Stages, Row, Whole

\* A step of one cell's life is a step of the abstract specification.
LEMMA LifeStepIsMove ==
  ASSUME NEW c \in Cells, NEW from \in Lifecycle!Stages, NEW to \in Lifecycle!Stages,
         LifeStep(from, to), Lives[c] = from, Lives' = [Lives EXCEPT ![c] = to]
  PROVE  Lifecycle!Next \/ Lives' = Lives
<1>1. CASE to = from
  BY <1>1 DEF Lives
<1>2. ASSUME NEW S, from \in S PROVE Lifecycle!Move(c, S, to)
  BY <1>2 DEF Lifecycle!Move, Lives
<1>3. CASE to # from
  BY <1>2, <1>3 DEF LifeStep, Lifecycle!Next, Lifecycle!Answer, Lifecycle!Measure,
       Lifecycle!Withdraw, Lifecycle!Judge, Lifecycle!Damage, Lifecycle!Lose
<1>. QED BY <1>1, <1>3

\* Every behaviour of the three passes, with its crashes, failed writes,
\* relaunches and annotations, is a behaviour of the abstract life cycle.
THEOREM PassesImplementLifecycle == Spec => ImplementsLifecycle
<1>1. Init => Lifecycle!Init
  <2>. SUFFICES ASSUME Init PROVE Lifecycle!Init
    OBVIOUS
  <2>1. AbsentRow \in Row /\ AbsentRow.file = "absent"
    BY LostFileType DEF AbsentRow, RowOf
  <2>2. \A c \in Cells : LifeOf(disk[c]) = "missing"
    BY <2>1, LifeCases DEF Init, NoRows
  <2>. QED BY <2>2 DEF Lifecycle!Init
<1>2. IInv /\ [Next]_vars => [Lifecycle!Next]_Lives
  <2>. SUFFICES ASSUME IInv, [Next]_vars PROVE Lifecycle!Next \/ Lives' = Lives
    OBVIOUS
  <2>1. TypeOK /\ TypeOK'
    BY TypeStep DEF IInv
  <2>2. CASE disk' = disk
    BY <2>2 DEF Lives
  <2>3. ASSUME NEW c \in Cells, disk' = [disk EXCEPT ![c] = disk'[c]]
        PROVE  Lifecycle!Next \/ Lives' = Lives
    <3>1. Lives' = [Lives EXCEPT ![c] = LifeOf(disk'[c])]
      BY <2>1, <2>3 DEF Lives, TypeOK
    <3>2. LifeStep(LifeOf(disk[c]), LifeOf(disk'[c]))
      BY <2>1, EveryRowStep, RowStepIsLifeStep DEF TypeOK
    <3>3. LifeOf(disk[c]) \in Lifecycle!Stages /\ LifeOf(disk'[c]) \in Lifecycle!Stages
      BY <2>1, LifeType DEF TypeOK
    <3>. QED BY <3>1, <3>2, <3>3, LifeStepIsMove DEF Lives
  <2>4. CASE UNCHANGED vars
    BY <2>2, <2>4 DEF vars
  <2>. QED BY <2>2, <2>3, <2>4, OneRowAtATime
<1>. QED BY <1>1, <1>2, Invariant, PTL DEF Spec, ImplementsLifecycle, Lifecycle!Spec, Lives

-----------------------------------------------------------------------------
(* The stages of an experiment.                                            *)

\* Every way of leaving a run is one the abstract experiment allows.
LEMMA LeavingIsAStage ==
  ASSUME stage # "down", NEW how \in {"unreadable", "storage_error", "service_error", "crash"},
         EndRun(how)
  PROVE  Experiment!Next
BY DEF EndRun, ExitOf, Experiment!Next, Experiment!Fail, Experiment!Leave

\* The passes of a run come in the order of the abstract experiment, which
\* nothing but the end of a pass and the end of the run moves along.
THEOREM PassesImplementStages == Spec => ImplementsStages
<1>1. Init => Experiment!Init
  BY DEF Init, ExitOf, Experiment!Init
<1>2. [Next]_vars => [Experiment!Next]_<<stage, ExitOf(exit)>>
  <2>. SUFFICES ASSUME [Next]_vars
                PROVE  Experiment!Next \/ (stage' = stage /\ ExitOf(exit)' = ExitOf(exit))
    OBVIOUS
  <2>1. CASE GenerationStep
    <3>1. ASSUME NEW c \in Cells, MeetTornCell(c) PROVE Experiment!Next
      BY <3>1, LeavingIsAStage DEF MeetTornCell
    <3>. QED BY <2>1, <3>1 DEF GenerationStep, SkipExisting, TakeCell, Generate, GiveUpCell,
               RetryGeneration, Retry, ExitOf
  <2>2. CASE MetricsStep
    <3>1. CASE StartMetrics
      BY <3>1 DEF StartMetrics, BeginPass, ExitOf, Experiment!Next, Experiment!NextPass
    <3>. QED BY <2>2, <3>1 DEF MetricsStep, TakeBatch, ScoreBatch, RetryBatch, Retry, GiveUpBatch,
               PersistMetrics, FailPersistMetrics, ExitOf
  <2>3. CASE JudgeStep
    <3>1. CASE StartJudge
      BY <3>1 DEF StartJudge, BeginPass, ExitOf, Experiment!Next, Experiment!NextPass
    <3>2. CASE Complete
      BY <3>2 DEF Complete, EndRun, ExitOf, Experiment!Next, Experiment!Complete, Experiment!Leave
    <3>. QED BY <2>3, <3>1, <3>2 DEF JudgeStep, TakeRow, RetryJudge, Retry, PersistRubric, ExitOf
  <2>4. CASE FailLoad
    BY <2>4, LeavingIsAStage DEF FailLoad
  <2>5. CASE StopEarly
    BY <2>5 DEF StopEarly, EndRun, ExitOf, Experiment!Next, Experiment!StopEarly, Experiment!Leave
  <2>6. CASE ServiceRaises \/ Crash \/ \E c \in Cells : CrashInWrite(c)
    BY <2>6, LeavingIsAStage DEF ServiceRaises, Crash, CrashInWrite
  <2>7. ASSUME NEW c \in Cells, NEW left \in FailedWrite(disk[c]), FailWrite(c, left)
        PROVE  Experiment!Next
    BY <2>7, LeavingIsAStage DEF FailWrite
  <2>8. CASE BetweenRuns
    <3>1. ASSUME NEW served \in SUBSET Cells, Launch(served) PROVE Experiment!Next
      BY <3>1 DEF Launch, ExitOf, Experiment!Next, Experiment!Launch
    <3>. QED BY <2>8, <3>1 DEF BetweenRuns, Ingest, DeleteTorn, ExitOf
  <2>9. CASE UNCHANGED vars
    BY <2>9 DEF vars, ExitOf
  <2>. QED BY <2>1, <2>2, <2>3, <2>4, <2>5, <2>6, <2>7, <2>8, <2>9
           DEF Next, Progress, Interruption
<1>. QED BY <1>1, <1>2, PTL DEF Spec, ImplementsStages, Experiment!Spec

-----------------------------------------------------------------------------
(* The reports.                                                            *)

\* What makes ReportMatchesStore inductive: a run starts counting from zero,
\* and generation loses no row that was there at launch.
CountInv ==
  /\ ReportMatchesStore
  /\ stage = "down" => tally["done"] = 0
  /\ stage = "generation" => \A c \in Cells : Whole(snap[c]) => Whole(disk[c])

GeneratedCells == {c \in Cells : Whole(disk[c]) /\ ~Whole(snap[c])}
JudgedCells == {c \in Cells : /\ Whole(disk[c]) /\ ~Unjudged(disk[c])
                              /\ Unjudged(snap[c])}

LEMMA CountInvParts ==
  CountInv <=> /\ stage = "generation" => tally["done"] = Cardinality(GeneratedCells)
               /\ stage = "judge" => tally["done"] = Cardinality(JudgedCells)
               /\ stage = "down" => tally["done"] = 0
               /\ stage = "generation" => \A c \in Cells : Whole(snap[c]) => Whole(disk[c])
BY DEF CountInv, ReportMatchesStore, GeneratedCells, JudgedCells

\* Steps that change neither the store nor the counter.
LEMMA SameCount ==
  ASSUME CountInv, UNCHANGED <<disk, stage, snap>>, tally'["done"] = tally["done"]
  PROVE  CountInv'
BY DEF CountInv, ReportMatchesStore

LEMMA EndRunCount ==
  ASSUME NEW how, EndRun(how)
  PROVE  CountInv'
BY DEF EndRun, CountInv, ReportMatchesStore, NoTally, Outcomes

\* A set of cells gains one.
LEMMA OneMore ==
  ASSUME NEW A \in SUBSET Cells, NEW B \in SUBSET Cells, NEW c \in Cells, c \notin A, B = A \cup {c}
  PROVE  Cardinality(B) = Cardinality(A) + 1
BY CountType, FS_Subset, CellsAssumption, FS_AddElement

LEMMA CountInit == Init => CountInv
BY DEF Init, CountInv, ReportMatchesStore, NoTally, Outcomes

LEMMA LaunchCount ==
  ASSUME IInv, CountInv, NEW served \in SUBSET Cells, Launch(served)
  PROVE  CountInv'
<1>1. stage' = "generation" /\ snap' = disk /\ disk' = disk /\ tally' = tally /\ tally["done"] = 0
  BY DEF Launch, CountInv
<1>2. GeneratedCells' = {}
  BY <1>1 DEF GeneratedCells
<1>3. tally'["done"] = Cardinality(GeneratedCells)'
  BY <1>1, <1>2, FS_EmptySet
<1>. QED BY <1>1, <1>3 DEF CountInv, ReportMatchesStore, GeneratedCells

LEMMA GenerateCount ==
  ASSUME IInv, CountInv, NEW c \in Cells, NEW a \in Answers, Generate(c, a)
  PROVE  CountInv'
<1>1. /\ stage = "generation" /\ stage' = stage /\ snap' = snap /\ c \in work
      /\ Store(c, Generated(a)) /\ Count("done")
  BY DEF Generate
<1>2. TypeOK /\ WorkIsDue
  BY DEF IInv
<1>3. /\ Whole(disk'[c])
      /\ \A d \in Cells \ {c} : disk'[d] = disk[d]
  BY <1>1, <1>2, GeneratedType, StoreStep DEF TypeOK
<1>4. ~Whole(disk[c]) /\ ~Whole(snap[c])
  BY <1>1, <1>2 DEF WorkIsDue, Whole, CountInv
<1>5. GeneratedCells' = GeneratedCells \cup {c} /\ c \notin GeneratedCells
  BY <1>1, <1>3, <1>4 DEF GeneratedCells
<1>6. Cardinality(GeneratedCells') = Cardinality(GeneratedCells) + 1
  BY <1>5, OneMore DEF GeneratedCells
<1>7. tally'["done"] = tally["done"] + 1
  BY <1>1, <1>2 DEF Count, TypeOK, Outcomes
<1>8. tally["done"] = Cardinality(GeneratedCells)
  BY <1>1, CountInvParts
<1>9. \A d \in Cells : Whole(snap'[d]) => Whole(disk'[d])
  BY <1>1, <1>3, <1>4 DEF CountInv
<1>. QED BY <1>1, <1>6, <1>7, <1>8, <1>9 DEF CountInv, ReportMatchesStore, GeneratedCells

LEMMA JudgeCount ==
  ASSUME IInv, CountInv, NEW c \in Cells, NEW rubric \in Values, PersistRubric(c, rubric)
  PROVE  CountInv'
<1>1. /\ stage = "judge" /\ stage' = stage /\ snap' = snap /\ c \in work
      /\ Count(IF rubric = NaN THEN "nan" ELSE "done")
  BY DEF PersistRubric
<1>2. TypeOK /\ WorkIsDue /\ WorkIsFresh
  BY DEF IInv
<1>3. disk[c] = snap[c] /\ Answered(disk[c]) /\ Unjudged(disk[c])
  BY <1>1, <1>2 DEF WorkIsDue, WorkIsFresh
<1>4. Store(c, JudgedRow(c, rubric))
  BY DEF PersistRubric, JudgedRow
<1>5. /\ disk'[c] = JudgedRow(c, rubric)
      /\ \A d \in Cells \ {c} : disk'[d] = disk[d]
  BY <1>2, <1>4, JudgedRowType, StoreStep DEF TypeOK
<1>6. Whole(disk'[c]) /\ (Unjudged(disk'[c]) <=> rubric = NaN)
  <2>1. snap[c].metrics \in MetricVector
    BY <1>2 DEF TypeOK, Row
  <2>2. WithRubric(snap[c].metrics, rubric)[Rubric] = rubric
    BY <2>1 DEF WithRubric, MetricVector, Metrics
  <2>. QED BY <1>2, <1>3, <1>5, <2>2, JudgedRowType DEF Whole, Unjudged, Answered
<1>7. c \notin JudgedCells
  BY <1>3 DEF JudgedCells
<1>8. tally["done"] = Cardinality(JudgedCells)
  BY <1>1, CountInvParts
<1>9. tally'["done"] = Cardinality(JudgedCells')
  <2>1. CASE rubric = NaN
    <3>1. JudgedCells' = JudgedCells
      BY <1>1, <1>5, <1>6, <1>7, <2>1 DEF JudgedCells
    <3>2. tally'["done"] = tally["done"]
      BY <1>1, <1>2, <2>1 DEF Count, TypeOK, Outcomes
    <3>. QED BY <1>8, <3>1, <3>2
  <2>2. CASE rubric # NaN
    <3>1. JudgedCells' = JudgedCells \cup {c}
      BY <1>1, <1>3, <1>5, <1>6, <2>2 DEF JudgedCells
    <3>2. tally'["done"] = tally["done"] + 1
      BY <1>1, <1>2, <2>2 DEF Count, TypeOK, Outcomes
    <3>3. Cardinality(JudgedCells') = Cardinality(JudgedCells) + 1
      BY <1>7, <3>1, OneMore DEF JudgedCells
    <3>. QED BY <1>8, <3>2, <3>3
  <2>. QED BY <2>1, <2>2
<1>. QED BY <1>1, <1>9 DEF CountInv, ReportMatchesStore, JudgedCells

LEMMA BeginPassCount ==
  ASSUME IInv, StartMetrics \/ StartJudge
  PROVE  CountInv'
<1>1. tally'["done"] = 0
  BY DEF StartMetrics, StartJudge, BeginPass, NoTally, Outcomes
<1>2. CASE StartMetrics
  BY <1>2 DEF StartMetrics, BeginPass, CountInv, ReportMatchesStore
<1>3. CASE StartJudge
  <2>1. stage' = "judge" /\ snap' = disk /\ disk' = disk
    BY <1>3 DEF StartJudge, BeginPass
  <2>2. JudgedCells' = {}
    BY <2>1 DEF JudgedCells
  <2>3. tally'["done"] = Cardinality(JudgedCells')
    BY <1>1, <2>2, FS_EmptySet
  <2>. QED BY <2>1, <2>3 DEF CountInv, ReportMatchesStore, JudgedCells
<1>. QED BY <1>2, <1>3

LEMMA CountingStep == IInv /\ CountInv /\ [Next]_vars => CountInv'
<1>. SUFFICES ASSUME IInv, CountInv, [Next]_vars PROVE CountInv'
  OBVIOUS
<1>1. CASE \E c \in Cells : SkipExisting(c) \/ TakeCell(c) \/ GiveUpCell(c) \/ TakeRow(c)
  <2>1. tally \in [Outcomes -> Nat]
    BY DEF IInv, TypeOK
  <2>. QED BY <1>1, <2>1, SameCount
           DEF SkipExisting, TakeCell, GiveUpCell, TakeRow, Count, Outcomes
<1>2. CASE RetryGeneration \/ RetryBatch \/ RetryJudge \/ GiveUpBatch \/ UNCHANGED vars
             \/ (\E batch \in SUBSET Cells : TakeBatch(batch))
             \/ (\E scores \in [work -> Layer1Vector] : ScoreBatch(scores))
  BY <1>2, SameCount DEF RetryGeneration, RetryBatch, RetryJudge, Retry, GiveUpBatch, vars,
     TakeBatch, ScoreBatch
<1>3. CASE (\E c \in Cells : MeetTornCell(c) \/ CrashInWrite(c)) \/ FailLoad \/ Complete
             \/ Interruption
  BY <1>3, EndRunCount DEF MeetTornCell, CrashInWrite, FailLoad, Complete, Interruption, StopEarly,
     ServiceRaises, FailWrite, Crash
<1>4. CASE \E c \in Cells, a \in Answers : Generate(c, a)
  BY <1>4, GenerateCount
<1>5. CASE StartMetrics \/ StartJudge
  BY <1>5, BeginPassCount
<1>6. CASE \E c \in Cells : PersistMetrics(c) \/ \E left \in FailedWrite(disk[c]) : FailPersistMetrics(c, left)
  BY <1>6 DEF PersistMetrics, FailPersistMetrics, CountInv, ReportMatchesStore
<1>7. CASE \E c \in Cells, rubric \in Values : PersistRubric(c, rubric)
  BY <1>7, JudgeCount
<1>8. CASE \E served \in SUBSET Cells : Launch(served)
  BY <1>8, LaunchCount
<1>9. CASE \/ \E c \in Cells, flag \in {0, 1}, note \in Notes \cup {None}, force \in BOOLEAN :
                Ingest(c, flag, note, force)
           \/ \E c \in Cells : DeleteTorn(c)
  BY <1>9 DEF Ingest, DeleteTorn, CountInv, ReportMatchesStore
<1>. QED BY <1>1, <1>2, <1>3, <1>4, <1>5, <1>6, <1>7, <1>8, <1>9
         DEF Next, Progress, GenerationStep, MetricsStep, JudgeStep, BetweenRuns

\* What a pass reports as generated or judged is what its run has added to the
\* store, whatever was retried, given up or skipped.
THEOREM ReportsMatchTheStore == Spec => []ReportMatchesStore
<1>1. Spec => []CountInv
  BY CountInit, CountingStep, Invariant, PTL DEF Spec
<1>2. CountInv => ReportMatchesStore
  BY DEF CountInv
<1>. QED BY <1>1, <1>2, PTL

=============================================================================
