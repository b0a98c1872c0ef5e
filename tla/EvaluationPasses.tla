-------------------------- MODULE EvaluationPasses --------------------------
(***************************************************************************)
(* The three passes of an experiment over one round of the store           *)
(* (application/use_cases/run_generation_pass.py, run_metrics_pass.py,     *)
(* run_judge_pass.py, in the order run_experiment.py runs them), with the  *)
(* retries of each call, the crash of the process at any point, a write    *)
(* that fails half-way, a graceful stop, and the relaunch that resumes     *)
(* from what the store holds.  Between runs a reviewer annotates rows and  *)
(* an operator deletes files that cannot be read.                          *)
(*                                                                         *)
(* Cells are natural numbers in the order of their row ids (SHA-256        *)
(* digests), the order the judge pass sorts by.                            *)
(***************************************************************************)
EXTENDS ResultRow, Naturals, FiniteSets

CONSTANTS
  Cells,        \* the cells of the round, those of every run id
  BatchSize,    \* rows per score_batch call of the metrics pass
  MaxAttempts   \* max_retries, max_metric_retries, max_judge_retries

ASSUME CellsAssumption ==
  /\ Cells \subseteq Nat /\ IsFiniteSet(Cells)
  /\ BatchSize \in Nat \ {0}
  /\ MaxAttempts \in Nat \ {0}

VARIABLES
  disk,      \* [Cells -> Row]: the store, all that survives the process
  stage,     \* the pass the process is in, "down" when there is no process
  todo,      \* cells the pass has not taken up yet
  work,      \* cells in hand: one, or a batch in the metrics pass
  attempt,   \* number of the service call under way for the work in hand,
             \* 0 when no call is under way
  layer1,    \* Layer 1 metrics of the batch, once score_batch returned
  snap,      \* what the pass loaded from the store when it began
  tally,     \* the counters of the pass's report
  exit       \* how the last run ended, "running" while one is under way

vars == <<disk, stage, todo, work, attempt, layer1, snap, tally, exit>>

Stages == {"down", "generation", "metrics", "judge"}
Exits == {"none", "running", "completed", "partial", "unreadable",
          "storage_error", "service_error", "crash"}
Outcomes == {"done", "nan", "skipped", "missing", "error"}

TypeOK ==
  /\ disk \in [Cells -> Row]
  /\ stage \in Stages
  /\ todo \in SUBSET Cells
  /\ work \in SUBSET Cells
  /\ attempt \in 0..MaxAttempts
  /\ layer1 \in [Cells -> Layer1Vector]
  /\ snap \in [Cells -> Row]
  /\ tally \in [Outcomes -> Nat]
  /\ exit \in Exits

NoTally == [o \in Outcomes |-> 0]
NoLayer1 == [c \in Cells |-> AllNaNLayer1]
NoRows == [c \in Cells |-> AbsentRow]

Init ==
  /\ disk = NoRows
  /\ stage = "down"
  /\ todo = {}
  /\ work = {}
  /\ attempt = 0
  /\ layer1 = NoLayer1
  /\ snap = NoRows
  /\ tally = NoTally
  /\ exit = "none"

-----------------------------------------------------------------------------
(* The process ends: everything but the store is lost.                     *)
EndRun(how) ==
  /\ stage' = "down"
  /\ todo' = {}
  /\ work' = {}
  /\ attempt' = 0
  /\ layer1' = NoLayer1
  /\ snap' = NoRows
  /\ tally' = NoTally
  /\ exit' = how

Count(outcome) == tally' = [tally EXCEPT ![outcome] = @ + 1]

\* Variants of Retry: without the limit; starting over instead of giving up.
RetryWithoutLimit ==
  /\ attempt > 0
  /\ attempt' = attempt + 1
  /\ UNCHANGED <<disk, stage, todo, work, layer1, snap, tally, exit>>
RetryForever ==
  /\ attempt > 0
  /\ attempt' = (attempt % MaxAttempts) + 1
  /\ UNCHANGED <<disk, stage, todo, work, layer1, snap, tally, exit>>

\* The call under way failed in a way that is retried, with attempts left.
Retry ==
  /\ attempt \in 1..(MaxAttempts - 1)
  /\ attempt' = attempt + 1
  /\ UNCHANGED <<disk, stage, todo, work, layer1, snap, tally, exit>>

Store(c, r) == disk' = [disk EXCEPT ![c] = r]

\* The work in hand c is finished.
Release(c) ==
  /\ work' = work \ {c}
  /\ attempt' = 0
  /\ layer1' = [layer1 EXCEPT ![c] = AllNaNLayer1]

-----------------------------------------------------------------------------
(* Launch and the generation pass.                                         *)

\* A run starts and generates for the cells of its own run id whose model
\* server comes up: any set of cells.  snap remembers the store at launch;
\* no generation step reads it.
Launch(served) ==
  /\ stage = "down"
  /\ stage' = "generation"
  /\ todo' = served
  /\ snap' = disk
  /\ exit' = "running"
  /\ UNCHANGED <<disk, work, attempt, layer1, tally>>

\* writer.exists answers True: the cell is skipped, whatever its answer.
SkipExisting(c) ==
  /\ stage = "generation"
  /\ work = {}
  /\ c \in todo
  /\ Whole(disk[c])
  /\ todo' = todo \ {c}
  /\ Count("skipped")
  /\ UNCHANGED <<disk, stage, work, attempt, layer1, snap, exit>>

\* writer.exists cannot open the file: StorageError ends the run.
MeetTornCell(c) ==
  /\ stage = "generation"
  /\ work = {}
  /\ c \in todo
  /\ disk[c].file = "torn"
  /\ EndRun("unreadable")
  /\ UNCHANGED disk

\* Variant of TakeCell: exists is not consulted.
TakeAnyCell(c) ==
  /\ stage = "generation"
  /\ work = {}
  /\ c \in todo
  /\ todo' = todo \ {c}
  /\ work' = {c}
  /\ attempt' = 1
  /\ UNCHANGED <<disk, stage, layer1, snap, tally, exit>>

\* writer.exists answers False: the context is retrieved once and the
\* generator is called for the first time.
TakeCell(c) ==
  /\ stage = "generation"
  /\ work = {}
  /\ c \in todo
  /\ disk[c].file = "absent"
  /\ todo' = todo \ {c}
  /\ work' = {c}
  /\ attempt' = 1
  /\ UNCHANGED <<disk, stage, layer1, snap, tally, exit>>

\* The generator answers a and the row is appended, every metric NaN.
Generate(c, a) ==
  /\ stage = "generation"
  /\ c \in work
  /\ Store(c, Generated(a))
  /\ Release(c)
  /\ Count("done")
  /\ UNCHANGED <<stage, todo, snap, exit>>

RetryGeneration == stage = "generation" /\ Retry

\* Variant of GiveUpCell: the cell is reported as generated.
GiveUpSilently(c) ==
  /\ stage = "generation"
  /\ c \in work
  /\ attempt = MaxAttempts
  /\ Release(c)
  /\ Count("done")
  /\ UNCHANGED <<disk, stage, todo, snap, exit>>

\* GenerationError on the last attempt: the cell is left without a row.
GiveUpCell(c) ==
  /\ stage = "generation"
  /\ c \in work
  /\ attempt = MaxAttempts
  /\ Release(c)
  /\ Count("error")
  /\ UNCHANGED <<disk, stage, todo, snap, exit>>

\* Variant of StopEarly: the request ends any pass.
StopAnyPass ==
  /\ stage # "down"
  /\ EndRun("partial")
  /\ UNCHANGED disk

\* Shutdown was requested during generation: the run returns its partial
\* report and never reaches the other passes.
StopEarly ==
  /\ stage = "generation"
  /\ EndRun("partial")
  /\ UNCHANGED disk

-----------------------------------------------------------------------------
(* The metrics pass.                                                       *)

Readable == \A c \in Cells : disk[c].file # "torn"
PassIdle == todo = {} /\ work = {}

\* A pass begins on what the store holds: the rows it has not filled in yet
\* are its work, unless they have no answer; the others are skipped.
BeginPass(pass, pending) ==
  /\ PassIdle
  /\ Readable
  /\ stage' = pass
  /\ snap' = disk
  /\ todo' = {c \in pending : Answered(disk[c])}
  /\ tally' = [NoTally EXCEPT
       !["skipped"] = Cardinality({c \in Cells \ pending : Whole(disk[c])}),
       !["missing"] = Cardinality({c \in pending : disk[c].answer = Blank})]
  /\ UNCHANGED <<disk, work, attempt, layer1, exit>>

\* reader.load reads every file of the round; one torn file is enough for it
\* to raise StorageError.
FailLoad ==
  /\ stage \in {"generation", "metrics"}
  /\ PassIdle
  /\ ~Readable
  /\ EndRun("unreadable")
  /\ UNCHANGED disk

\* Variant of StartMetrics: every row of the round is measured again.
StartMetricsAfresh ==
  /\ stage = "generation"
  /\ BeginPass("metrics", {c \in Cells : Whole(disk[c])})

\* Rows whose answer_correctness is set are skipped.
StartMetrics ==
  /\ stage = "generation"
  /\ BeginPass("metrics", {c \in Cells : Whole(disk[c]) /\ Unmeasured(disk[c])})

\* Variant of TakeBatch: the batch is not taken off the list.
TakeBatchAgain(batch) ==
  /\ stage = "metrics"
  /\ work = {}
  /\ todo # {}
  /\ batch \subseteq todo
  /\ \/ Cardinality(batch) = BatchSize
     \/ batch = todo /\ Cardinality(batch) < BatchSize
  /\ work' = batch
  /\ attempt' = 1
  /\ UNCHANGED <<disk, stage, todo, layer1, snap, tally, exit>>

\* The next batch_size rows, or the last ones.
TakeBatch(batch) ==
  /\ stage = "metrics"
  /\ work = {}
  /\ todo # {}
  /\ batch \subseteq todo
  /\ \/ Cardinality(batch) = BatchSize
     \/ batch = todo /\ Cardinality(batch) < BatchSize
  /\ todo' = todo \ batch
  /\ work' = batch
  /\ attempt' = 1
  /\ UNCHANGED <<disk, stage, layer1, snap, tally, exit>>

\* score_batch returns; each field of each sample may have degraded to NaN.
ScoreBatch(scores) ==
  /\ stage = "metrics"
  /\ attempt > 0
  /\ layer1' = [c \in Cells |-> IF c \in work THEN scores[c] ELSE AllNaNLayer1]
  /\ attempt' = 0
  /\ UNCHANGED <<disk, stage, todo, work, snap, tally, exit>>

RetryBatch == stage = "metrics" /\ Retry

\* MetricComputationError on the last attempt: the batch is all NaN.
GiveUpBatch ==
  /\ stage = "metrics"
  /\ attempt = MaxAttempts
  /\ layer1' = NoLayer1
  /\ attempt' = 0
  /\ UNCHANGED <<disk, stage, todo, work, snap, tally, exit>>

\* Variant of PersistMetrics: the rubric in the store is kept.
PersistMetricsKeepingRubric(c) ==
  /\ stage = "metrics"
  /\ c \in work
  /\ attempt = 0
  /\ LET mv == [Layer1Only(layer1[c]) EXCEPT ![Rubric] = disk[c].metrics[Rubric]]
     IN  /\ Store(c, UpdateMetrics(disk[c], mv, FinalOf(mv), "generator", None, None))
         /\ Count(IF FinalOf(mv) = NaN THEN "nan" ELSE "done")
  /\ Release(c)
  /\ UNCHANGED <<stage, todo, snap, exit>>

\* One row of the batch is persisted, with the generator's regime.
PersistMetrics(c) ==
  /\ stage = "metrics"
  /\ c \in work
  /\ attempt = 0
  /\ LET mv == Layer1Only(layer1[c])
     IN  /\ Store(c, UpdateMetrics(disk[c], mv, FinalOf(mv), "generator", None, None))
         /\ Count(IF FinalOf(mv) = NaN THEN "nan" ELSE "done")
  /\ Release(c)
  /\ UNCHANGED <<stage, todo, snap, exit>>

\* The deterministic metric or the write of one row raises: it is counted
\* and the pass goes on with the next row.
FailPersistMetrics(c, left) ==
  /\ stage = "metrics"
  /\ c \in work
  /\ attempt = 0
  /\ Store(c, left)
  /\ Release(c)
  /\ Count("error")
  /\ UNCHANGED <<stage, todo, snap, exit>>

-----------------------------------------------------------------------------
(* The judge pass.                                                         *)

\* Variants of StartJudge: rows without Layer 1 are left aside; every row of
\* the round is judged again.
StartJudgeMeasured ==
  /\ stage = "metrics"
  /\ BeginPass("judge", {c \in Cells : Whole(disk[c]) /\ Unjudged(disk[c]) /\ ~Unmeasured(disk[c])})
StartJudgeAfresh ==
  /\ stage = "metrics"
  /\ BeginPass("judge", {c \in Cells : Whole(disk[c])})

\* Rows with a rubric are skipped; rows with a NaN final score are not.
StartJudge ==
  /\ stage = "metrics"
  /\ BeginPass("judge", {c \in Cells : Whole(disk[c]) /\ Unjudged(disk[c])})

\* Rows are judged one by one in the order of their row ids.
TakeRow(c) ==
  /\ stage = "judge"
  /\ work = {}
  /\ c \in todo
  /\ \A d \in todo : c <= d
  /\ todo' = todo \ {c}
  /\ work' = {c}
  /\ attempt' = 1
  /\ UNCHANGED <<disk, stage, layer1, snap, tally, exit>>

RetryJudge == stage = "judge" /\ Retry

\* Variant of PersistRubric: the score is that of the vector loaded.
PersistStaleScore(c, rubric) ==
  /\ stage = "judge"
  /\ c \in work
  /\ Store(c, UpdateMetrics(disk[c], WithRubric(snap[c].metrics, rubric),
                            FinalOf(snap[c].metrics), "judge", None, None))
  /\ Count(IF rubric = NaN THEN "nan" ELSE "done")
  /\ Release(c)
  /\ UNCHANGED <<stage, todo, snap, exit>>

\* The judge's verdict is persisted with the judge's regime: a score, or NaN
\* when its text could not be parsed or (attempts exhausted) it never came.
PersistRubric(c, rubric) ==
  /\ stage = "judge"
  /\ c \in work
  /\ LET mv == WithRubric(snap[c].metrics, rubric)
     IN  Store(c, UpdateMetrics(disk[c], mv, FinalOf(mv), "judge", None, None))
  /\ Count(IF rubric = NaN THEN "nan" ELSE "done")
  /\ Release(c)
  /\ UNCHANGED <<stage, todo, snap, exit>>

\* The final load and the aggregation, which write nothing.
Complete ==
  /\ stage = "judge"
  /\ PassIdle
  /\ Readable
  /\ EndRun("completed")
  /\ UNCHANGED disk

-----------------------------------------------------------------------------
(* What ends a run from outside.                                           *)

\* RetrievalError, an error of a service that is not retried, a server that
\* does not start, a store that cannot be read.
ServiceRaises ==
  /\ stage # "down"
  /\ EndRun("service_error")
  /\ UNCHANGED disk

\* append, or the judge pass's update_metrics, raises.
FailWrite(c, left) ==
  /\ stage \in {"generation", "judge"}
  /\ c \in work
  /\ Store(c, left)
  /\ EndRun("storage_error")

\* The process is killed; if it was writing the row of c the file is torn.
Crash ==
  /\ stage # "down"
  /\ EndRun("crash")
  /\ UNCHANGED disk

CrashInWrite(c) ==
  /\ stage # "down"
  /\ c \in work
  /\ stage = "metrics" => attempt = 0
  /\ Store(c, TornRow)
  /\ EndRun("crash")

-----------------------------------------------------------------------------
(* Between runs: the reviewer and the operator.                            *)

\* ingest of one JSONL line: a row already annotated is only overwritten with
\* --force.  The annotation process may be killed in its write too.
Ingest(c, flag, note, force) ==
  /\ stage = "down"
  /\ Whole(disk[c])
  /\ disk[c].flag = None \/ force
  /\ \/ Store(c, UpdateAnnotation(disk[c], flag, note))
     \/ \E left \in FailedWrite(disk[c]) : Store(c, left)
  /\ UNCHANGED <<stage, todo, work, attempt, layer1, snap, tally, exit>>

\* The manual's remedy for a file that cannot be read: delete it.
DeleteTorn(c) ==
  /\ stage = "down"
  /\ disk[c].file = "torn"
  /\ Store(c, AbsentRow)
  /\ UNCHANGED <<stage, todo, work, attempt, layer1, snap, tally, exit>>

-----------------------------------------------------------------------------
GenerationStep ==
  \/ \E c \in Cells : SkipExisting(c) \/ MeetTornCell(c) \/ TakeCell(c) \/ GiveUpCell(c)
  \/ \E c \in Cells, a \in Answers : Generate(c, a)
  \/ RetryGeneration

MetricsStep ==
  \/ StartMetrics
  \/ \E batch \in SUBSET Cells : TakeBatch(batch)
  \/ \E scores \in [work -> Layer1Vector] : ScoreBatch(scores)
  \/ RetryBatch
  \/ GiveUpBatch
  \/ \E c \in Cells : PersistMetrics(c)
  \/ \E c \in Cells : \E left \in FailedWrite(disk[c]) : FailPersistMetrics(c, left)

JudgeStep ==
  \/ StartJudge
  \/ \E c \in Cells : TakeRow(c)
  \/ RetryJudge
  \/ \E c \in Cells, rubric \in Values : PersistRubric(c, rubric)
  \/ Complete

\* What the process does on its own; it is scheduled as long as it lives, and
\* every client call it waits for has a timeout.
Progress == GenerationStep \/ MetricsStep \/ JudgeStep \/ FailLoad

Interruption ==
  \/ StopEarly
  \/ ServiceRaises
  \/ \E c \in Cells : \E left \in FailedWrite(disk[c]) : FailWrite(c, left)
  \/ Crash
  \/ \E c \in Cells : CrashInWrite(c)

BetweenRuns ==
  \/ \E served \in SUBSET Cells : Launch(served)
  \/ \E c \in Cells, flag \in {0, 1}, note \in Notes \cup {None}, force \in BOOLEAN :
       Ingest(c, flag, note, force)
  \/ \E c \in Cells : DeleteTorn(c)

Next == Progress \/ Interruption \/ BetweenRuns

Spec == Init /\ [][Next]_vars

FairSpec == Spec /\ WF_vars(Progress)

-----------------------------------------------------------------------------
(* Safety.                                                                 *)

\* What the store holds is coherent whatever pass wrote it last and wherever
\* a run stopped.
RowsCoherent == \A c \in Cells : Whole(disk[c]) => Coherent(disk[c])

\* The metrics and judge passes write what they computed from the rows they
\* loaded when they began: those rows have not changed in the store since.
WorkIsFresh ==
  stage \in {"metrics", "judge"} => \A c \in todo \cup work : disk[c] = snap[c]

\* Once a run reports completion no answer of the round, its own or left by
\* an interrupted run, is without the judge's verdict (a score or NaN).
CompletedRunJudgedAll ==
  (stage = "down" /\ exit = "completed") =>
    \A c \in Cells : Answered(disk[c]) => disk[c].regime = "judge"

\* In the metrics pass no final score is a number while the rubric counts: it
\* is only known after the judge, so the pass reports every row as NaN.
MetricsPassScoresNothing ==
  (stage = "metrics" /\ Rubric \in Weighted) => tally["done"] = 0

\* The work of a pass is what the pass is for: cells without a row, answers
\* without Layer 1, answers without a rubric.
WorkIsDue ==
  /\ todo \cap work = {}
  /\ stage = "down" => todo \cup work = {}
  /\ stage = "generation" => \A c \in work : disk[c].file = "absent"
  /\ stage = "metrics" => \A c \in todo \cup work : Answered(disk[c]) /\ Unmeasured(disk[c])
  /\ stage = "judge" => \A c \in todo \cup work : Answered(disk[c]) /\ Unjudged(disk[c])

\* What the judge pass does not have to do, it or an earlier run has done.
JudgePassCovers ==
  stage = "judge" =>
    \A c \in Cells \ (todo \cup work) : Answered(disk[c]) => disk[c].regime = "judge"

\* The inductive invariant of the specification.
IInv == /\ TypeOK
        /\ RowsCoherent
        /\ WorkIsFresh
        /\ WorkIsDue
        /\ JudgePassCovers
        /\ CompletedRunJudgedAll
        /\ MetricsPassScoresNothing

\* The report of a pass agrees with what the pass changed in the store: the
\* cells generated are those that had no row at launch, the rows judged those
\* that gained a rubric.
ReportMatchesStore ==
  /\ stage = "generation" =>
       tally["done"] = Cardinality({c \in Cells : Whole(disk[c]) /\ ~Whole(snap[c])})
  /\ stage = "judge" =>
       tally["done"] = Cardinality({c \in Cells : /\ Whole(disk[c]) /\ ~Unjudged(disk[c])
                                                  /\ Unjudged(snap[c])})

\* A persisted answer is never replaced by another one, whatever run resumes
\* over it: only the loss of its file makes the cell be generated again.
AnswerKept ==
  [][\A c \in Cells : (Whole(disk[c]) /\ Whole(disk'[c])) =>
        disk'[c].answer = disk[c].answer]_vars

\* A row with answer_correctness keeps its Layer 1 metrics, and with a rubric
\* as well it keeps everything a pass writes, through every later run.
SettledKept ==
  [][\A c \in Cells : (Whole(disk[c]) /\ Whole(disk'[c]) /\ ~Unmeasured(disk[c])) =>
        /\ \A m \in Layer1 : disk'[c].metrics[m] = disk[c].metrics[m]
        /\ ~Unjudged(disk[c]) => /\ disk'[c].metrics = disk[c].metrics
                                 /\ disk'[c].final = disk[c].final
                                 /\ disk'[c].regime = disk[c].regime]_vars

\* No pass touches what a reviewer wrote.
AnnotationKept ==
  [][\A c \in Cells : (stage # "down" /\ Whole(disk[c]) /\ Whole(disk'[c])) =>
        /\ disk'[c].flag = disk[c].flag
        /\ disk'[c].note = disk[c].note]_vars

\* Each cell goes through the life the abstract specification describes.
LifeOf(r) ==
  CASE r.file = "absent" -> "missing"
    [] r.file = "torn" -> "damaged"
    [] Whole(r) /\ r.answer = Blank -> "blank"
    [] Answered(r) /\ Unmeasured(r) /\ Unjudged(r) -> "answered"
    [] Answered(r) /\ ~Unmeasured(r) /\ Unjudged(r) -> "measured"
    [] Answered(r) /\ Unmeasured(r) /\ ~Unjudged(r) -> "judged"
    [] OTHER -> "settled"

Lifecycle == INSTANCE CellLifecycle WITH life <- [c \in Cells |-> LifeOf(disk[c])]

\* The passes, their interruptions and what happens between runs implement
\* the life cycle of every cell.
ImplementsLifecycle == Lifecycle!Spec

\* A run goes through its passes as the abstract experiment does.
ExitOf(how) == IF how \in {"unreadable", "storage_error", "service_error", "crash"}
                 THEN "failed" ELSE how

Experiment == INSTANCE ExperimentStages WITH exit <- ExitOf(exit)

\* The passes, one after the other, implement the stages of an experiment.
ImplementsStages == Experiment!Spec

-----------------------------------------------------------------------------
(* What the documents say and the code does not do.                        *)

\* ADR-009: "Idempotência total; relançar é seguro".  A run never dies on
\* what an earlier interruption left in the store.
RelaunchIsSafe == exit # "unreadable"

\* RF7: "uma execução interrompida retoma sem reprocessar o que já foi
\* persistido".  A persisted verdict of the judge stays.
VerdictKept ==
  [][\A c \in Cells : (Whole(disk[c]) /\ Whole(disk'[c]) /\ ~Unjudged(disk[c])) =>
        disk'[c].metrics[Rubric] = disk[c].metrics[Rubric]]_vars

-----------------------------------------------------------------------------
(* Liveness: a run that is not interrupted ends, whatever its services do. *)

RunEnds == (stage # "down") ~> (stage = "down")

=============================================================================
