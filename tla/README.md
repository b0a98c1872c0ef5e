# A TLA+ model of inteligenciomica_eval

`inteligenciomica_eval` evaluates retrieval-augmented answers of several language models. A *run* generates an
answer for every cell of an experiment (phase, knowledge base, generator, seed, question), measures each
answer with automatic metrics, has another model judge it, and aggregates the scores; reviewers annotate
answers, and statistics are made of everything. A run takes many hours, on a node with four GPUs or against
endpoints somebody else operates, is interrupted, and is launched again: everything it has done must be found
in its store. These modules describe how the store comes to be and what is made of it, the runs model-check
them on small instances, and the proofs hold for every instance.

Paths below are relative to `src/inteligenciomica_eval/` in the repository.

## 1. The system

### Components

| Component | State | Operations | Hard to get right |
|---|---|---|---|
| Result store, `infrastructure/repositories/parquet_storage.py` | one Parquet file per row, written in place | `append`, `update_metrics`, `update_annotation`, `exists`, `load` | a write cut short; one bad file for all readers; which columns an update replaces |
| Generation pass, `application/use_cases/run_generation_pass.py` | counters | `execute` | resume by `exists`, bounded retries, blank answers |
| Metrics pass, `run_metrics_pass.py` | rows loaded at its start, batch, counters | `execute` | resume by one column, batches partly written, rows that fail alone |
| Judge pass, `run_judge_pass.py` | rows loaded at its start, counters | `execute` | writes vectors loaded hours before |
| Orchestrator, `run_experiment.py` | shutdown flag, failed waves, reports, server in hand | `execute`, signal handlers | order of the passes on every path, who stops the server, when the flag is looked at |
| Managed servers, `infrastructure/adapters/vllm_server_manager.py` | handles of processes | `start`, `wait_healthy`, `stop` | processes that survive the program, ports in TIME_WAIT, health of a port and not of a process |
| External endpoints, `external_vllm_server_manager.py`, `provenance/endpoint_probe.py`, `infrastructure/wiring.py` | URLs and served names | the same port, `probe` | an endpoint that is down, names that are stale by the time they are used |
| Wave scheduler, `application/services/wave_scheduler.py` | none | `plan` | grouping under VRAM, order |
| Annotation, `ingest_annotation.py`, `annotation_workflow.py`, `annotation_reader.py`, `annotate` of `cli.py` | the queue of a session, the sheet sent to a specialist | `execute`, `annotate`, queue, CSV, export | read-modify-write beside a running pass, copies that come back late |
| Scores, `domain/services/final_score.py`, `rank_score.py`, `aggregation.py`, `application/aggregate_results.py` | none | pure functions | NaN, empty groups, ties |
| Statistics, `application/statistical_analysis.py`, `infrastructure/adapters/stats_adapters.py`, `application/judge_validation.py` | none | tests, their correction, agreement of judge and reviewers | too little data, NaN, positions |
| Metric adapters, `compute_metrics_use_case.py`, `retryable_metric_adapter.py`, `ragas_metrics.py`, `deterministic_metrics.py` | the list of rows, the counters of the report | `execute`, `score`, `score_batch` | retries inside retries, NaN per metric, one row failing alone |
| Judge adapters, `prometheus_judge.py`, `prometheus_rubric_judge.py` | none | `score` | retries, parsing of a model's text |
| Generator, retriever, wiring, `vllm_generator.py`, `qdrant_retriever.py`, `wiring.py` | name by port, by URL | HTTP calls | which name is asked on which port |
| Entities, values, ports, `domain/` | none | construction | the regime of a row |
| Command line, `cli.py` | options, exit code | `run`, `annotate`, `analyze`, `report`, `status`, `validate-judge` | what is checked before a run and what is relied on in it; which configuration is called the best |
| Reports, `visualization/` | none | tables, figures | sorting ranks that may be NaN |
| Configuration, registry, prompts, benchmark loader, masking | none after start | parsing, formatting | nothing a model checker reaches |

### Interactions

The CLI wires one orchestrator. Everything in a run happens in one asyncio task: the orchestrator calls the
server manager and the passes and awaits them one at a time. What interleaves with it is

* the signal handlers of SIGTERM and SIGINT, which the event loop runs while the task is suspended in an
  await, and which set a flag;
* the vLLM processes, which load, listen, die and leave ports behind on their own, and which outlive the
  Python process;
* the death of the Python process at any instruction, the middle of a file write included;
* other invocations of the CLI: a relaunch of the run, an annotation session, an ingestion, a report, an
  operator who deletes a file;
* in external mode, whoever operates the endpoints: a server goes down, comes back, or serves another model
  between the probe of it and the requests that rely on the probe;
* the specialist who edits an exported sheet for weeks while all this goes on.

The passes never talk to each other. Each finds its work in the store: a cell without a file is to be
generated, a row whose `answer_correctness` is NULL is to be measured, a row whose `rubric_biomed_score` is
NULL is to be judged. The whole resumption protocol is in these three tests, and what they miss is lost or
done twice.

### What makes each component correct

* **Store and passes.** A row is coherent whoever wrote it last: the final score is the one its metrics give,
  `batch_invariant` is true exactly when the judge has written it, a blank answer is never scored. A pass
  writes nothing computed from a row somebody changed since. A run that completes has left no answer unjudged.
  Answers are never replaced, settled rows never touched, annotations never overwritten by a pass. The reports
  agree with the store.
* **Orchestrator and servers.** One server at a time on the orchestrator's account; it is stopped on every
  path; every generator is either done or in a failed wave; after a stop request no wave begins; the passes
  come in order; a run ends.
* **External endpoints.** A row tells which model answered it, although the id was probed long before. Success
  means that every endpoint was reached. An outage costs a run, never a row.
* **Metric services.** Retries nested in retries stay within their product. A row that fails costs no other
  row; the report says what became of each; a row that was scored is left alone.
* **Annotation.** Nothing a pass or a reviewer writes is lost to the other. A sheet that comes back delivers
  every decision and nothing else.
* **Scores.** The ranking answers to the rows: better answers never rank a configuration lower or a rival
  higher. Rates are shares, ties included. The configuration called best has the highest rank. A corrected
  p-value belongs to its test.

## 2. The modules

| Module | What it is | Code |
|---|---|---|
| `ResultRow` | a row of the store and what the storage operations make of it; no variables | `parquet_storage.py`, `final_score.py`, the filters of the passes |
| `CellLifecycle` | abstract: the life of one cell | |
| `ExperimentStages` | abstract: the passes of a run and how it ends | |
| `EvaluationPasses` | the three passes over one round, crashes, relaunches, annotations between runs | `run_*_pass.py`, `ingest_annotation.py` |
| `ConcurrentAnnotation` | a run, `annotate` and the ingestion on one store at the same time, read by read and write by write | `annotation_workflow.py`, `ingest_annotation.py`, `parquet_storage.py`, the loads and updates of the passes |
| `VLLMServers` | the processes of the node and the server adapter, as operators on its three variables | `vllm_server_manager.py` |
| `RunExperiment` | the orchestrator as a client of `VLLMServers` | `run_experiment.py`, the waves of `wave_scheduler.py`, the port map of `wiring.py` |
| `ExternalRun` | the `run` command on endpoints somebody else operates: probes, gate, the three passes, exit codes | `cli.py`, `wiring.py`, `endpoint_probe.py`, `external_vllm_server_manager.py`, `run_experiment.py` |
| `ServiceCalls` | one call to a model server with the loops around it | the generator, judge and RAGAS adapters, the retrying adapters, the retry loops of the passes |
| `ComputeMetrics` | the metrics use case, a client of `ServiceCalls` | `compute_metrics_use_case.py` |
| `AnnotationSession` | the review of a round: session, CSV, sheet and its ingestion | `annotate` of `cli.py`, `annotation_workflow.py`, `ingest_annotation.py` |
| `Analysis` | the commands that read the store | `aggregation.py`, `rank_score.py`, `aggregate_results.py`, `statistical_analysis.py`, `stats_adapters.py`, `judge_validation.py`, `html_report.py`, `cli.py` |
| `ResultRowTheorems` | lemmas on a row | |
| `EvaluationPassesProofs`, `ConcurrentAnnotationProofs`, `RunExperimentProofs`, `ExternalRunProofs`, `ComputeMetricsProofs`, `AnnotationSessionProofs`, `AnalysisProofs` | theorems and proofs | |
| `MCEvaluationPasses`, `MCConcurrentAnnotation`, `MCRunExperiment`, `MCExternalRun`, `MCComputeMetrics`, `MCAnnotationSession`, `MCAnalysis` | instances for TLC | |

`RunExperiment` treats a pass as one await that returns or raises; `EvaluationPasses` opens the same passes up
and treats servers as calls that answer or fail; `ServiceCalls` opens the calls up. `ExternalRun` is the
orchestrator with the other implementation of the server port, and with the command around it. They meet in
`ExperimentStages`: all three are shown to implement it, so the order of the passes that `EvaluationPasses`
takes for granted is the one the orchestrator establishes in either mode. `ComputeMetrics` uses the rows of
`ResultRow`, as the passes do.

### `EvaluationPasses`

`disk` is the store, `[Cells -> Row]`, the only variable that survives the process. `stage` is the pass the
process is in; `todo`, `work`, `attempt`, `layer1`, `tally` are the local variables of its loop (the rows
still to come, the row or batch in hand, the number of the call under way, the scores of the batch, the
counters); `snap` is the list of rows it loaded when it began.

* *Generation.* `Launch` takes any set of cells, since which cells a run generates depends on its own run id
  and on the servers that come up. `exists` is `SkipExisting`, `MeetTornCell` or `TakeCell` by the state of
  the file. `Generate`, `RetryGeneration` and `GiveUpCell` are the outcomes of `_try_generate`; an appended
  row is `Generated(a)`, every metric NaN.
* *Metrics.* `StartMetrics` loads (`FailLoad` when a file cannot be read) and filters; `TakeBatch`, then
  `ScoreBatch`, `RetryBatch` or `GiveUpBatch`, then one `PersistMetrics` or `FailPersistMetrics` per row. The
  vector written has the rubric NaN whatever the store holds, as in the code.
* *Judge.* `StartJudge`, `TakeRow` in the order of row ids, `RetryJudge`, and `PersistRubric` with the metrics
  of `snap`. An exhausted retry is the verdict NaN.
* *Ends.* `Complete`, `StopEarly` (the flag, seen after generation), `ServiceRaises`, `FailWrite`, `Crash`,
  `CrashInWrite`. A write that raises leaves the old file, a torn one or none; a crash in the middle leaves a
  torn one.
* *Between runs.* `Ingest` (one JSONL line; the row's annotation is only overwritten with `--force`) and
  `DeleteTorn` (the remedy of `docs/operations_manual.md:825`).

Metric values are a small set and NaN. A final score is the function of the weighted metrics it was computed
from: two scores are equal exactly when they come from the same values, which is what a stale or misplaced
score would violate. Layer 1 is two metrics, the one the filter looks at and one more.

### `ConcurrentAnnotation`

`EvaluationPasses` takes an update of a row for one step and puts annotations between runs. Here three
processes share the files and an update is four steps: read the row (`AnnotateLoad`, `IngestLook`,
`LoadPass`), read the file again and replace columns in memory (`MergePass`, `AnnotateMerge`, `IngestMerge`),
truncate the file (`Truncate`), write it (`Fill`). Nothing locks a file. `buf` is the content in hand, `snap`
and `seen` what was read before. A file that is being rewritten cannot be read: `FailPass` and
`FailAnnotation` are what its readers do then. Two writes of the same file that overlap (`mixed`) leave the
content of the one that ends last or a file nobody can read. `Kill` stops a process anywhere. `missed` records
history: whether another process has rewritten the row since this one read it (`"load"`) or since it read the
file for the update (`"read"`); the properties say what holds where nothing was missed.

What each update takes from which read is the question, and the three differ. A pass takes the annotation from
the file at the time of the update, so an annotation made in the hours since `load` survives. `ingest` takes
everything from that read but decides on an earlier one whether the row is annotated. `annotate` takes the
metrics, the score and the regime from the round it loaded: a pass that writes in between loses its work,
although the row stays coherent, as the three columns are of one moment.

Services that fail, retries, batches and writes that raise are left to `EvaluationPasses`: a pass here loads,
updates rows in any order, or is killed. Since nobody can have read a row that is not there, an append is one
step.

### `VLLMServers` and `RunExperiment`

`proc` is the process table: `loading`, then `serving` (it holds its port), `exited` (dead, its handle not yet
dropped). `tracked` is the adapter's handles, `lingering` the ports in TIME_WAIT. `Start` has the guard of
`_assert_port_available`; `HealthyPort` answers for whichever process listens, as the probe of `/health` does;
`End(p, gone)` is the SIGTERM, SIGKILL and bounded wait of `stop` and of a failed `wait_healthy`, after which
the handle is dropped whether the process is gone or not.

`pc` is the await the orchestrator is suspended in, `next` the position in the plan, `handle` the server in
hand, `shutdown` the flag, `failed` and `done` what the report is made of. `barrier` and `orphans` record
history: the wave a stop was requested in, and the processes a dead orchestrator left. A signal is
`RequestShutdown`, possible wherever the task is suspended in an await. Exceptions that are caught are
distinguished from those that are not: `GeneratorTimeout` (caught, next generator of the wave) against
`RefuseGenerator`, `StartRaises`, `GenerationRaises`, `JudgeTimeout` and `JudgeHealthRaises` (the run raises).
The judge's wait stands outside the `try` that stops it, so `JudgeHealthRaises` may leave the server running;
asyncio may still kill it while the interpreter exits, hence its two disjuncts.

### `ExternalRun`

`served` is what each endpoint serves, which `Operate` changes at any moment; `rows`, one cell for each
generator, is the part of the store the properties speak of; `exit` and `code` are how the last experiment and
the last command ended. Everything else is the memory of one command, cleared by `EndCommand`: `opts` are
`--dry-run` and the gate's option, `probed` the id each endpoint gave when the container was built, `verified`
the outcome of the container's probe of the judge, `reached` the models whose `/health` answered (history, for
`SuccessIsComplete`).

* *Before the run.* `RejectConfig`, `AcceptConfig`, `DryRun`, `MissingEndpoint`, `LoadRegistry`;
  `ProbeGenerator`, which never fails, and `ProbeJudge`; `Gate`, which probes the judge anew; `PlanFails`,
  `Plan`. Any of these may be interrupted (`Interrupt`, exit code 130).
* *The experiment.* `BuildContexts`; then `wait_healthy` of the endpoint in hand as `Healthy`, `Poll` and
  `Unreachable`, whose error is not the one the orchestrator catches; `Generate` with the name `Name(g)` (the
  id probed at the URL, the last one when models share it, else the model the port layout names),
  `SkipExisting` or `GenerationFails`. A call fails whether its endpoint serves the model or not, and an
  answer may be blank: that row is never generated again, measured or judged. The metrics pass takes the rows
  without `answer_correctness` and writes each anew, with metrics (`MeasureRow`) or without (`MeasureInVain`),
  its verdict set back to NaN either way, or fails on it (`MeasureFails`). The judge is waited for like a
  generator; its pass takes the rows without a verdict (`JudgeRow`, `JudgeInVain`, `JudgeRefuses`). `todo` is
  what a pass has left of the rows it loaded, and `Complete` comes when that is nothing.
* *Surroundings.* `Signal` sets the flag, `Kill` ends the process, `PassRaises` stands for the retriever, the
  store and the aggregation.

### `ServiceCalls` and `ComputeMetrics`

A call is made by one of five callers (`chain`), each a loop (`outer`) around an adapter that may loop too
(`inner`). RAGAS adds two loops that the code does not spell: a metric sends several prompts (`prompt`), and the
client of `openai`, built without `max_retries=0` for RAGAS alone (`ragas_metrics.py:180-185`), sends a request
again by itself (`client`, `Resend`). RAGAS' own tries of a prompt are its `inner` loop. What these libraries do
is taken as constants, for any values of which the proofs hold: `MaxPrompts`, `RagasTries`, `RagasRepeats`,
`SdkRetries`. By their defaults a client sends a request 3 times; RAGAS tries a prompt 10 times, but again only
after a 429; a metric sends one prompt or several, up to one for each chunk retrieved. Requests for embeddings
count among those of a metric. A request brings a value or one of five failures; `RepeatedInside`,
`RepeatedOutside`, `TakenAsNaN` and `Escaping` say what each caller and its adapter do with each, and they
differ for every pair. A try of the outer loop begins the work again, so `got` records of which try a value is.
`ComputeMetrics` loads the rows (`Execute`), and for each asks for Layer 1 (`StartRow`), takes it and asks for
the rubric (`TakeLayer1`), and writes (`Persist`) or gives the row up (`RowFails`, `WriteFails`). `before` is
the list of rows as it was loaded, which the filter worked on. `PassAsks` (for a row that lacks what the pass
makes) and `PassTakes` are the passes of a run calling through the same adapters; what they do with the result
is in `EvaluationPasses`.

### `AnnotationSession`

`rows` is the store, `queue` the rows the interactive session has still to ask about, in the order of when it
was opened, `sheet` the exported JSONL on its way, `line` and `force` the ingestion under way. `edited` and
`others` record history: what the specialist decided since the export, and what somebody else wrote since the
ingestion began. `Answer`, `Skip` and `Quit` are the prompts, `CsvLine` a line of a CSV, `Decide` and `Spoil`
what the specialist does to a line, and a session, a CSV and an ingestion interleave line by line. `annotate`
keeps an old note when the new one is empty, the ingestion replaces both columns. The order of queue and sheet
is stated by `Listings`, which has one element.

### `Analysis`

A row is whether it has its Layer 1 metrics, a rubric and a flag; the final score is the rubric, or NaN.
Scores are integers in units of `1 / Scale`. The aggregates, the rank and the shared wins are the functions of
the code on these. Two sorts are modelled as they are because NaN spoils a comparison: `Ranking` has NaN as
the lowest key, `SortedByRawRank` (the HTML table and the summary of a run) is `list.sort` on raw ranks,
`MaxByRawRank` (`status`) is `max` on raw ranks. `ListSort` is what CPython does to a list of fewer than 64
elements: a first run, kept or turned round, and the rest inserted by halving. Nothing here is declared
RECURSIVE: orders are stated by the number of elements before a place (`InOrder`), sums and insertions are
folds, halving is a recursive function, so that everything can be proved about. A statistical test either has
too little data, p = 1, or returns any p-value or NaN: what the model keeps is when it has too little data,
and what becomes of the p-value. `report` loads the store twice, and rows may be written in between.

## 3. The runs

All passing runs explore the whole state space of their instance.

| Run | Instance | Shows |
|---|---|---|
| `passes_safety` | 2 cells, batches of 2, 2 attempts, 2 metric values | the store is coherent (`RowsCoherent`), passes work on fresh rows (`WorkIsFresh`), a completed run judged everything (`CompletedRunJudgedAll`), reports match the store (`ReportMatchesStore`), answers, settled rows and annotations are kept (`AnswerKept`, `SettledKept`, `AnnotationKept`), and the inductive invariant `IInv` |
| `passes_refinement` | 2 cells, batches of 1, 2 attempts | `ImplementsLifecycle`, `ImplementsStages`, and every uninterrupted run ends (`RunEnds`) |
| `annotation_safety` | 1 row, a run, an `annotate` session and an ingestion | every interleaving leaves the row coherent (in `IInv`) and its answer (`AnswerKept`); a pass can only undo an annotation written between its own read and write of the file (`PassKeepsAnnotation`), likewise the ingestion and metrics (`IngestKeepsMetrics`); an update nothing came in between of changes its own columns only (`AtomicUnlessOverlapped`); and `IInv` |
| `experiment_safety` | 3 generators in waves of 2, two of them on one GPU, 2 processes | `NoStrayServer`, `ReportAccounts`, `ShutdownBarrier`, `GeneratorNeverLeft`, `IInv`, the refinement `ImplementsStages`, and every run ends (`RunEnds`) |
| `external_run` | 2 generators and a judge; two endpoints that go down, come back and serve another model | provenance tells who answered (`RowOrigin`), success means every endpoint was reached (`SuccessIsComplete`), later runs keep what was answered, and the verdict of what was measured (`OriginKept`), `ImplementsStages`, outages and failing calls cost runs and no rows (`EventuallySettled`), and `IInv` |
| `compute_metrics` | 2 cells, each with a settled row or none, 2 tries of each loop, 2 prompts of a metric | retries stay within their product (`RequestsBounded`), the report accounts for every row (`ReportAccounts`), scored rows are left alone (`ScoredKept`), an execution ends (`ExecutionEnds`), and `IInv` |
| `annotation_session` | 2 rows, a session, CSVs, a sheet, the judge | a sheet delivers every decision (`DecisionsArrive`) and nothing else (`OnlyDecisionsIngested`) |
| `analysis` | 3 configurations, 2 questions, 2 phases, 2 runs | the rank answers to rows that improve (`RankAnswersToRows`), rates are shares (`RatesAreShares`), a command calls best the best it could know (`ShownBestIsBest`), corrected p-values belong to their tests and a kappa never flatters the judge (`StatisticsAreSound`) |

The other four runs each show one statement of the repository that the code does not keep; see section 6.
`TypeOK` of each module is the first conjunct of its `IInv`.

### Bounds

* *Two cells.* Rows only interact through the unreadable file that stops a pass, the batch that is partly
  written, and the counters: two rows show all three. Batches of two have a row persisted and a row not;
  batches of one have a batch done and a batch to come.
* *Attempts.* Two attempts per call have a retry and a give-up. The three limits of the code are one constant,
  since only one call is under way at a time.
* *Runs, crashes, failed writes, annotations, requests* are not bounded.
* *One row for the three processes of `ConcurrentAnnotation`.* An update touches one file, and what processes
  do to different files does not meet except in a `load` that fails; the proofs cover any number of cells. One
  metric value and NaN, no note: a row with the flag changed and a row with metrics changed are told apart.
* *Three generators in waves of two* have a full wave, a short last one, and two models with one port, as in
  `config/model_registry.yaml`. *Two processes* are the one in hand and an orphan of an earlier run, or one
  that outlives its SIGKILL. When every process id is in use `Start` waits for one: this bound restricts which
  overlaps of processes are explored, not what the orchestrator does, and the proofs have any number of them.
* *Two generators on endpoints* have one whose endpoint changes and one that stays, on a port the layout gives
  to the first, so that a name by port would be wrong. A model of no round (`other`) may come to be served in
  place of the first generator and of the judge. `MaxPolls` is 1: one health check that fails, and one that was
  the last. Each generator has one cell and a batch of the metrics pass one row; what many cells do is in
  `EvaluationPasses`.
* *Calls.* Two tries of each loop, RAGAS' and the client's included, have a first and a last one: all four
  loops are nested in the metrics, and each can be spent while those outside it go on. A batch is one sample,
  and two metrics make two values, of which the first is lost when the batch is tried again. A cell starts
  without a row or with a settled one; `force` and the passes bring about the rows in between. The run may
  stop: a round with a torn file in it is loaded by nobody.
* *The review.* Two rows have an order in the queue and a line before and after a bad one; two levels of the
  scores lie on both sides of each threshold. Commands, decisions and judgements are not bounded.
* *The analysis* scales the limits of the tests to its instance: a Friedman test needs 2 models (3 in the
  code), a Wilcoxon test 1 pair (5), the validation 2 rows (10). Three configurations of two bases and two
  models have a tie, a winner and a configuration with no rank; levels 24 and 48 lie on both sides of both
  thresholds. `Scale` = 60 makes every share an integer. `MaxWrites` = 1 row is written during one report, any
  number between two.
* *Contexts.* `BuildContexts` is a step of every run: the rounds of interest have experiment B, whose
  canonical contexts are retrieved before the waves.

### Fairness

`FairSpec` is `WF_vars(Progress)`: the process does something as long as it lives. The code justifies it: the
task is the only one of its event loop, no lock is awaited, `wait_healthy` has a deadline, `stop` has two
bounded waits, and the HTTP clients have timeouts. Nothing is assumed of servers, signals, crashes, the
operator or which outcome a call has; a call that fails every time and a process that never dies are allowed.
A crash ends a run too, but `RunEnds` does not rely on one: crashes are not among the fair steps.

In `ExternalRun` the weakly fair action is `Command`, every step of the command that is not the death of it;
nothing is assumed of those who type commands or operate servers. `EventuallySettled` has its assumptions in its
statement: from some point on the endpoints serve their models, nobody stops a run (`Calm`) and no call comes to
nothing (`Mishap`), and runs complete again and again. A server that fails the same request for ever is left out
by `Mishap`, as it must be: its row is tried anew by every run, and stays as it is. What the property says is
that nothing that went wrong *before* leaves a row behind: no outage, failing call, verdict erased by the
metrics pass or regime of an earlier judge, unless its answer is blank (`Settled`). In `ComputeMetrics` it is
`Progress`, the coroutine going on and a request in flight coming to an end, for which the clients have
timeouts; what a request brings is not assumed. `AnnotationSession` and `Analysis` state no fairness: people and
commands owe nobody a step.

## 4. The proofs

TLAPS proves the following for any finite set of cells, any batch size, any number of attempts, any sets of
scores and notes; any plan, any wave size, any assignment of ports or URLs and any set of processes. The
assumptions are those declared in the modules: `SentinelAssumption` (NaN and NULL are no values),
`CellsAssumption`, `ServersAssumption`, `ExperimentAssumption` (the plan is a finite sequence of models other
than the judge), `ExternalRunAssumption` (the same of distinct generators, and that an endpoint which is down
serves no model), `ServiceCallsAssumption` (limits are positive), `RoundAssumption` (finitely many rows,
coherent at the start), `SessionAssumption`, and
`AnalysisAssumption`. The last one says that configurations are listed once, since groups are the keys of a
dict; that scores lie in 0..1, p-values too, and what earlier commands left in the store are rows; and that
`Scale` is a multiple of every product of a number of tied configurations and a number of questions, which is
a choice of units: a share of a win, averaged over the questions, is then exact, as it would be in the reals.
Means and rates are rounded down to a unit; as the theorems hold for every `Scale` that satisfies the
assumption, they hold in units fine enough for a given store that nothing is rounded.

* **Passes** (`EvaluationPassesProofs`). `TypeCorrect`, `Invariant`, `RowsAlwaysCoherent`, `WorkAlwaysFresh`,
  `CompletionIsTotal`, `MetricsPassNeverScores`, `AnswersKept`, `SettledRowsKept`, `AnnotationsKept`,
  `ReportsMatchTheStore`, `PassesImplementLifecycle`, `PassesImplementStages`.
* **Concurrent annotation** (`ConcurrentAnnotationProofs`). `TypeCorrect`, `Invariant`, `RowsAlwaysCoherent`,
  `AnswersKept`, `PassesKeepAnnotations`, `IngestionsKeepMetrics`, `UpdatesAreAtomic`.
* **Orchestrator** (`RunExperimentProofs`). `TypeCorrect`, `Invariant`, `NoServerStrays`,
  `ReportAlwaysAccounts`, `ShutdownStopsTheWaves`, `GeneratorsAreStopped`, `OrchestratorImplementsStages`.
* **External run** (`ExternalRunProofs`). `Invariant`, `RowsTellTheirOrigin`, `SuccessReachesAll`,
  `OriginsAreKept`, `ExternalRunImplementsStages`.
* **Metrics use case** (`ComputeMetricsProofs`). `Invariant`, `RequestsAlwaysBounded`, `ReportAlwaysAccounts`,
  `ScoredRowsKept`.
* **Review** (`AnnotationSessionProofs`). `Invariant`, `DecisionsAlwaysArrive`, `OnlyDecisionsAreIngested`.
* **Analysis** (`AnalysisProofs`). `Invariant`, `ShownBestIsAlwaysBest`, `CorrectionAlwaysFollowsTests`,
  `StatisticsAlwaysSound`, `RatesAlwaysShares`, `RankAlwaysAnswers`, `RankingAlwaysListsTheRows` (an action
  property no run lists; with `ListsRows` it says that the ranking neither loses nor repeats a configuration),
  and two facts about the sorts: `RankingRearranges` (`sorted` by a key, stable, highest first) and `ListSorts`
  (`list.sort` of aggregates that have a rank).

*Why the passes' invariant is what it is.* None of the safety properties is inductive. `RowsCoherent` depends
on `WorkIsFresh`: the judge writes the metrics of `snap`, and only if the row in the store still has them does
it write something coherent. `SettledKept` and the refinement depend on `WorkIsDue`: a row in hand is still
one the filter selected, which relates `todo` and `work` to `disk` throughout the pass.
`CompletedRunJudgedAll` depends on `JudgePassCovers`: what is not on the list of the judge pass has the
judge's regime. A failed write keeps it because the row it leaves is torn, gone, or, being the old row, ends
the run without completing it. `ResultRowTheorems` holds the facts about rows: updates keep the type, the
answer and the annotation, and the score written is the score of the vector written.

*Why the annotation's invariant is what it is.* That rows are coherent depends on what everybody has in hand
being coherent (`RowInHand`). The judge puts a rubric computed from `snap` on a row it reads again: that it is
not the row of a blank answer depends on `OneAnswer`, one answer per cell that the store and everything in
hand agree on. An answer can only appear where nobody works (`NoFileNoWork`). `ReadIsCurrent` relates each
buffer to the store unless a write was missed; it is what the three properties about lost updates are read
off.

*Why the orchestrator's invariant is what it is.* `NoStrayServer` needs `HandleInHand`: when a step starts or
ends a server the handle is exactly the server of the position in hand. `ReportAccounts` needs `PlaceInPlan`:
the position moves on only past a generator that is done or whose wave has failed. `ShutdownBarrier` needs
`BarrierSet`: inside a wave the loop does not look at the flag when a server fails to start, yet positions
stay in the wave up to its end, an argument on integer division proved as lemmas about `Wave` and
`FirstOfWave`.

*The counters of the passes.* `ReportsMatchTheStore` says that a counter equals the number of rows that
changed since the pass began. `CountInv` adds that the row in hand is one that has not changed yet, so that a
step which counts one adds exactly one row to the set that is counted (`GeneratedCells`, `JudgedCells`).

*Why the external run's invariant is what it is.* `RowOrigin` depends on the name a request is sent with being
the id that was probed (`NameIsProbed`): the name is that of the *last* generator at a URL, and that a last
one exists among any number is an induction, by the least element of a well-founded order (`LastPosition`).
`SuccessIsComplete` needs `ReachedSoFar`: the endpoints before the position in the plan have been found
healthy, in this command. `OriginKept` needs `WorkIsDue`: what is left of a pass's list still lacks what the
pass brings, so that the metrics pass, which sets a verdict back, never does so to a row that has metrics.

*Why the use case's invariant is what it is.* The bound on requests is not inductive. The loops are digits of a
number in mixed radix, the try of the caller the first and that of the client the last: `Turn` is the place of a
request in that order. `CallInv` says that a call in `Turn` t has sent t requests at most. Each way a request
may end moves on one digit and sets those after it back, which raises `Turn` by one at least (`NextTurn`, by
`Carry` for each digit); a metric that sends fewer prompts or needs fewer tries skips places. No `Turn` is
beyond the product of the loops (`RoomForARequest`), for all limits of each. The report is accounted for all
along, for the rows that are done with (`Accounts(rest)` for any `rest`); that no row is counted twice depends
on the row in hand being still as it was loaded (`WorkIsDue`).

*Why the review's invariant is what it is.* `DecisionsArrive` speaks of the end of an ingestion;
`TakenArrived` says it of the lines taken so far. A later line could undo an earlier one if a row had two:
`SheetIsEdited` says it has one, as the listing of a set has each element once.

*Why the analysis' invariant is what it is.* What is shown must be related to the table it came from while its
user reads it, and the table of a report was made of rows that others have rewritten since. `IInv` therefore
speaks of the table: once aggregated it is `Ranked`, in the order of `_rank_key`, which puts NaN last. That is
what `ReportMarksTheBest` rests on, since the sort of the report, on raw ranks, only keeps the order it is
given when no rank comes after NaN (`RankedListKept`: the list is one run, so nothing is inserted). `status` and
the summary have no such table, and what holds of them is weaker: the first aggregate has a rank, or all of
them have (`StatusFollowsTheFirst`, `SummaryNamesTheBest`, both in `ShownBestIsBest`).

*How the analysis is proved without induction over data.* The provers take no induction principle, but the
naturals have least elements, and that is enough for what the code computes with loops. A property of a fold
is shown at its least counterexample: the fold is a recursive function of which every value follows from the
one before. This gives the sums (`SumFunction` splits off an element, is monotone, and may be exchanged with
another sum), `list.sort` (every insertion keeps a list in order; the halving ends at a place with nothing
greater before it and nothing smaller after it) and `max`. That `InOrder` gives each place one element
is a pigeonhole argument on the numbers of elements before each. With these,

* `RatesAlwaysShares` sums a matrix of win shares both ways: over the configurations a question that was won
  gives `Scale`, however many tied;
* `RankAlwaysAnswers` compares two frames that differ by an improvement (`Better`): the k-th score of the
  configuration does not fall, so its median does not, its failures are fewer, its mean of a question rises, so
  that it wins whatever it won before, with no more rivals to share with; a rival's shares only fall;
* `CorrectionAlwaysFollowsTests` has the adjusted value of a place be the least over later places, of which
  a greater p-value has fewer.

`StatisticsAlwaysSound` adds the kappa of `validate-judge`. With the labels of both sides counted, what kappa
is divided by is a sum of two products that vanish only when all labels are the same (`BeyondChance`), and
chance agreement only lowers the observed one, so that kappa times the rows compared is at most the rows
agreed on (`KappaFacts`).

`IInv` and `RankingListsTheRows` were checked with TLC on the instance of `analysis` before they were proved.

*Only model-checked*: `RunEnds` in both modules, `ExecutionEnds` and `EventuallySettled` (liveness under
fairness is out of the prover's reach), and the runs of section 6. Every other property of a passing run is a
theorem.

## 5. What is not modelled

* *Store.* Schema validation, hive partitions and most provenance columns: they change no control. Two rounds
  in one store: row ids do not depend on the round and `_find_file` ignores it, so that a second round may
  find and replace a row of the first; every module here has one round.
* *Scheduler.* The sort of the plan by VRAM and the totals of the plan, which the loop does not use; the plan
  is any order of the generators. The command line of vLLM and the drains of its pipes.
* *Retriever.* One query to Qdrant and the conversion of its points, without state; that it raises is a step
  of the passes.
* *Configuration and registry.* Validation of files at start-up; that it fails is `RejectConfig`,
  `MissingEndpoint`, `PlanFails`.
* *Judge's parser.* Which texts it takes for a score is left to its unit tests; here an answer can be read or
  cannot (`garbled`).
* *Statistics.* The tests themselves are library calls; the mixed linear model decides nothing. *Figures,
  templates, prompts, the benchmark loader, masking*: formatting and reading of files, without state.
* The arithmetic of the final score of a row: the properties compare scores for equality.

## 6. Where the code and its documents disagree

Each of four is a run that TLC finds violated, its property quoting the sentence.

* `passes_relaunch`. "Relançar é seguro" (ADR-009). A file torn by a crash raises StorageError in `exists` and
  `load` of every later run of the round, until somebody deletes it.
* `passes_verdict`. "Retoma sem reprocessar o que já foi persistido" (RF7). A row that was judged without
  `answer_correctness` (the batch had failed) is measured again by the next run, which writes a NaN rubric
  over the verdict.
* `experiment_ports`. A managed URL resolves to the name of the registry. With two models on a port the map
  keeps the last one.
* `analysis_status`. "Melhor config — tenta calcular agregados; N/A se não disponível" (`cli.py:1782`). `max`
  over raw ranks keeps a NaN that comes first: a configuration nobody has annotated is named the best, with a
  rank of nan, over those that have one.

Others are visible in the model without a run of their own.

*Orchestrator and servers.*
* "O loop de ondas completa a onda corrente e para": the loop stops after the generator under way.
* "`ServerStartTimeoutError`: se o processo morrer antes de ficar saudável": the probe asks the port first,
  and an orphan that binds it before the new process does answers in its place (`HealthyPort`).
* "`ModelSwitchError` recuperável": only `ServerStartTimeoutError` is caught around `start`, and the second
  model of a GPU asks for the port the first has just left (`RefuseGenerator`).
* "O juiz fica residente durante toda a rodada": the metrics pass, whose RAGAS metrics call the judge, runs
  before the judge is started.
* "Se shutdown solicitado antes da conclusão, n_evaluated e n_judged são 0" (`run_experiment.py:234`): the
  flag is not looked at after generation, so `RequestShutdown` in the metrics or the judge pass changes
  nothing.
* `JudgeHealthRaises` can leave the judge's server behind, although the module docstring promises a `finally`;
  `GeneratorNeverLeft` says that nothing else but a crash can. A process that survives SIGKILL beyond the
  grace period is forgotten (`End(p, FALSE)`), and the next model may be loaded on the GPU it still holds.

*External endpoints and the command.*
* A stop request during the experiment ends with exit code 0, where `docs/m3_tarefas_309_310.md:324-325` has
  130 for SIGINT (`NextModel`; 130 is `Interrupt`, before the experiment).
* One endpoint that is down ends the run: its error is not the one a wave is skipped for.
* The gate decides on a probe of its own (`cli.py:371`); the rows record that of the container, which may
  disagree.
* `determinism_verified` is written with the answer and kept by `JudgeRow`, although the judge of a later run
  may give the verdict, where `docs/prompts_m3_tarefa_311.md:100-102` has the row certify the regime of the
  judge that scored it.
* A blank answer is final: `exists` keeps it from being generated again (`run_generation_pass.py:221`), and
  neither the metrics pass (`run_metrics_pass.py:166`) nor the judge's (`run_judge_pass.py:168`) takes its row.
  A run that completes may leave such rows, and rows with a NaN for want of a text that can be read.
* The verdict on a row without `answer_correctness` lasts until the next metrics pass, here as in
  `passes_verdict`; `OriginKept` therefore keeps a verdict only where there are metrics.
* When two models share a URL the id probed last is the name for both (`Alone` in `RowOrigin`).

*Metrics.*
* The RAGAS adapter leaves the retries of its client on, where the adapters of the generator and the judges set
  `max_retries=0` (`vllm_generator.py:99`, `prometheus_judge.py:91`, `prometheus_rubric_judge.py:112`) to
  avoid what `docs/dev-log/M1_TAREFA-014_E_avaliacao-conformidade-spec-v11.md:107` calls "multiplicação
  3 × 3 = 9 chamadas": its requests multiply so (`RequestsBounded`).
* `ComputeMetricsUseCase` and the retrying adapters are not wired by the command line: a run uses the passes.
  The use case writes a row whole, so that a row without a final score that is tried again while a service is
  down loses the Layer 1 metrics it had.

*Review.*
* `AtomicUnlessOverlapped` cannot be strengthened to all updates: `annotate` undoes what a pass wrote since
  its load, and the ingestion without `--force` replaces an annotation made since its look.
* The documentation of the queue gives NaN the top priority, but a row with neither a score nor a rubric is
  not queued (`OpenQueue`): only the sheet has it.

*Analysis.*
* The summary at the end of a run mixes all the runs and phases of the round, `status` all phases, the report
  has phase A only and a threshold of its own: the three may name three configurations.
* The table of the report is sorted again by raw ranks; it is right because it arrives sorted with NaN last
  (`ReportMarksTheBest` has no other reason to hold).
* The flags of the report come from corrected p-values, `top_llm_by_friedman` from the raw one
  (`docs/m4_tarefa_404.md:159`): a top model may stand beside a flag that says there is no difference.
* The pairs of the Wilcoxon test are by question and seed, and the models overwrite each other (`Pairs`). A
  kappa of 0/0 is read as "fraca" (`InterpretKappa`). An empty phase A ends the report with a traceback, and
  the figures come from a frame loaded before the ranking.

## 7. Plan

1. **Done**: `ResultRow`, `EvaluationPasses`, `VLLMServers`, `RunExperiment`, the two abstract specifications,
   their refinement and their proofs.
2. **Done**: `ConcurrentAnnotation`, `annotate` and `ingest` as processes of their own beside the passes, and
   its proofs.
3. **Done**: `ExternalRun`, the second implementation of the server port under the command and the
   orchestrator's loop, and its proofs.
4. **Done**: `ServiceCalls` and `ComputeMetrics`, the nested retries and the use case that makes them, and
   their proofs.
5. **Done**: `AnnotationSession`, queue, CSV, sheet and ingestion, and its proofs.
6. **Done**: `Analysis`, aggregation, rank, statistics and the reports made of them, and its
   proofs.
7. **Done**: `ReportMatchesStore`, proved by finite-set lemmas.
8. Remaining: two rounds in one store, as an extension of `EvaluationPasses` with a key that has the round and
   a row id that has not.
9. Remaining: the plan of the scheduler from a registry with VRAM, against the contract `RunExperiment`
   assumes of `Generators`.
10. Remaining: that an update nothing came in between of in `ConcurrentAnnotation` is a step `CellLifecycle`
    allows, so that the life of a cell is promised beside annotations too.

## 8. Running it

    tlc -workers 2 -config passes_safety.cfg MCEvaluationPasses.tla
    tlc -workers 2 -config passes_refinement.cfg MCEvaluationPasses.tla
    tlc -workers 2 -config annotation_safety.cfg MCConcurrentAnnotation.tla
    tlc -workers 2 -config experiment_safety.cfg MCRunExperiment.tla
    tlc -workers 2 -config external_run.cfg MCExternalRun.tla
    tlc -workers 2 -config compute_metrics.cfg MCComputeMetrics.tla
    tlc -workers 2 -config annotation_session.cfg MCAnnotationSession.tla
    tlc -workers 2 -config analysis.cfg MCAnalysis.tla
    tlapm EvaluationPassesProofs.tla
    tlapm ConcurrentAnnotationProofs.tla
    tlapm RunExperimentProofs.tla
    tlapm ExternalRunProofs.tla
    tlapm ComputeMetricsProofs.tla
    tlapm AnnotationSessionProofs.tla
    tlapm ResultRowTheorems.tla
    tlapm AnalysisProofs.tla

`PROJECT.json` lists components, runs, the mutant that shows each property can fail, the lines each definition
stands for, hazards and theorems. Definitions commented as *variant* are those mutants: plausible errors in
the code, in no specification of their own.
