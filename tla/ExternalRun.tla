---------------------------- MODULE ExternalRun ----------------------------
(***************************************************************************)
(* The run command against servers somebody else operates (cli.run with    *)
(* server_mode "external"): the configuration is read, the endpoints are   *)
(* found and probed (wiring.build_container), the judge is probed again    *)
(* for the determinism gate, and the experiment goes through the           *)
(* generators in order, then the metrics, then the judge, asking each      *)
(* endpoint for its health first (external_vllm_server_manager).  An       *)
(* endpoint may go down, come back or serve another model at any moment,   *)
(* between a probe and the requests that rely on it included.              *)
(*                                                                         *)
(* A generator has one cell here, and a batch of the metrics pass one row. *)
(* A call stands for all its tries, those that fail although the endpoint  *)
(* serves its model included; the tries are in ServiceCalls, the batches   *)
(* and the columns of a row in EvaluationPasses, the managed servers in    *)
(* RunExperiment.                                                          *)
(***************************************************************************)
EXTENDS Integers, Sequences

CONSTANTS
  Generators,  \* the models to be asked, in the order of the waves
  Judge,       \* the model that judges
  Others,      \* models an endpoint may serve that are not of the round
  UrlOf,       \* the endpoint of each model, from its environment variable
  Serves,      \* per endpoint, what it may be found to serve, Down included
  PortModel,   \* per endpoint, the model the port layout gives to its port
  MaxPolls,    \* health checks that fit in the start-up timeout
  Down,        \* what an endpoint that does not answer serves
  Unknown      \* the served id of an endpoint that did not answer a probe

N == Len(Generators)
GeneratorSet == {Generators[k] : k \in 1..N}
Models == GeneratorSet \cup {Judge}
Ids == Models \cup Others
Urls == {UrlOf[m] : m \in Models}

ASSUME ExternalRunAssumption ==
  /\ Generators \in Seq(GeneratorSet)
  /\ N \in Nat \ {0}
  /\ \A j, k \in 1..N : Generators[j] = Generators[k] => j = k
  /\ Judge \notin GeneratorSet
  /\ MaxPolls \in Nat \ {0}
  /\ PortModel \in [Urls -> Ids]
  /\ Serves \in [Urls -> SUBSET (Ids \cup {Down})]
  /\ Down \notin Ids
  /\ Unknown \notin Ids

VARIABLES
  served,    \* what each endpoint serves
  pc,        \* where the command is
  opts,      \* the options of the command
  registry,  \* the model registry was found
  pos,       \* position in Generators, while probing and while generating
  probed,    \* per generator, the model id its endpoint gave to the probe
  verified,  \* the judge answered the container's probe twice the same
  polls,     \* health checks made of the endpoint in hand
  stop,      \* SIGINT or SIGTERM came while the experiment ran
  rows,      \* the row of each generator
  todo,      \* rows the metrics pass, or the judge's, has not come to
  asked,     \* the command has sent a request to an endpoint
  reached,   \* models whose endpoint was found healthy by this command
  exit,      \* how the last experiment ended
  code       \* exit code of the last command

vars == <<served, pc, opts, registry, pos, probed, verified, polls, stop, rows,
          todo, asked, reached, exit, code>>

\* What the command keeps in memory, and what is outside of it.
memory == <<opts, registry, pos, probed, verified, polls, stop, todo, asked, reached>>

NoCode == -1
Options == [dry : BOOLEAN, require : BOOLEAN]
NoOptions == [dry |-> FALSE, require |-> FALSE]

\* The row of a cell nobody has answered.  by: the model that answered; id and
\* det: the served_model_id and determinism_verified columns; blank: the answer
\* has no text; measured: answer_correctness is there; judged: the verdict is.
NoRow == [by |-> Unknown, id |-> Unknown, det |-> FALSE, blank |-> FALSE,
          measured |-> FALSE, judged |-> FALSE]
Row == [by : Ids \cup {Unknown}, id : Ids \cup {Unknown}, det : BOOLEAN, blank : BOOLEAN,
        measured : BOOLEAN, judged : BOOLEAN]

Stages == {"contexts", "wait", "generate", "metrics", "judgewait", "judge"}

TypeOK ==
  /\ served \in [Urls -> Ids \cup {Down}]
  /\ pc \in {"idle", "config", "registry", "probe", "probejudge", "gate", "plan"} \cup Stages
  /\ opts \in Options
  /\ registry \in BOOLEAN
  /\ pos \in 1..(N + 1)
  /\ probed \in [GeneratorSet -> Ids \cup {Unknown}]
  /\ verified \in BOOLEAN
  /\ polls \in 0..MaxPolls
  /\ stop \in BOOLEAN
  /\ rows \in [GeneratorSet -> Row]
  /\ todo \in SUBSET GeneratorSet
  /\ asked \in BOOLEAN
  /\ reached \in SUBSET Models
  /\ exit \in {"none", "running", "completed", "partial", "failed"}
  /\ code \in {NoCode, 0, 1, 130}

NoIds == [g \in GeneratorSet |-> Unknown]

Init ==
  /\ served \in {f \in [Urls -> Ids \cup {Down}] : \A url \in Urls : f[url] \in Serves[url]}
  /\ pc = "idle"
  /\ opts = NoOptions
  /\ registry = FALSE
  /\ pos = 1
  /\ probed = NoIds
  /\ verified = FALSE
  /\ polls = 0
  /\ stop = FALSE
  /\ rows = [g \in GeneratorSet |-> NoRow]
  /\ todo = {}
  /\ asked = FALSE
  /\ reached = {}
  /\ exit = "none"
  /\ code = NoCode

-----------------------------------------------------------------------------
(* The command.                                                            *)

\* The process ends with an exit code; its memory is gone with it.
EndCommand(c, how) ==
  /\ pc' = "idle"
  /\ code' = c
  /\ exit' = how
  /\ registry' = FALSE
  /\ pos' = 1
  /\ probed' = NoIds
  /\ verified' = FALSE
  /\ polls' = 0
  /\ todo' = {}
  /\ opts' = NoOptions
  /\ stop' = FALSE
  /\ asked' = FALSE
  /\ reached' = {}
  /\ UNCHANGED served

Type(o) ==
  /\ pc = "idle"
  /\ pc' = "config"
  /\ opts' = o
  /\ code' = NoCode
  /\ UNCHANGED <<served, registry, pos, probed, verified, polls, stop, rows, todo, asked,
                 reached, exit>>

\* The configuration is not there or not valid, or --run-id is missing.
RejectConfig ==
  /\ pc = "config"
  /\ EndCommand(1, exit)
  /\ UNCHANGED rows

\* Variant of AcceptConfig: --dry-run is not looked at.
AcceptAnyConfig ==
  /\ pc = "config"
  /\ pc' = "registry"
  /\ UNCHANGED <<served, memory, rows, exit, code>>

AcceptConfig ==
  /\ pc = "config"
  /\ ~opts.dry
  /\ pc' = "registry"
  /\ UNCHANGED <<served, memory, rows, exit, code>>

\* --dry-run prints the plan; a model that is not in the registry is an error,
\* and so is a file of questions that cannot be read.
DryRun(c) ==
  /\ pc = "config"
  /\ opts.dry
  /\ EndCommand(c, exit)
  /\ UNCHANGED rows

-----------------------------------------------------------------------------
(* build_container.                                                        *)

\* Each model of the registry must name its environment variable, and the
\* variable must be set.
MissingEndpoint ==
  /\ pc = "registry"
  /\ EndCommand(1, exit)
  /\ UNCHANGED rows

\* Without a registry there are no endpoints, hence nothing to probe.
LoadRegistry(found) ==
  /\ pc = "registry"
  /\ registry' = found
  /\ pc' = IF found THEN "probe" ELSE "gate"
  /\ UNCHANGED <<served, opts, pos, probed, verified, polls, stop, rows, todo, asked,
                 reached, exit, code>>

Answer(url) == IF served[url] = Down THEN Unknown ELSE served[url]

\* A probe never fails: an endpoint that does not answer has no id.
ProbeGenerator ==
  /\ pc = "probe"
  /\ LET g == Generators[pos] IN probed' = [probed EXCEPT ![g] = Answer(UrlOf[g])]
  /\ pos' = IF pos = N THEN 1 ELSE pos + 1
  /\ pc' = IF pos = N THEN "probejudge" ELSE "probe"
  /\ asked' = TRUE
  /\ UNCHANGED <<served, opts, registry, verified, polls, stop, rows, todo, reached, exit, code>>

\* The judge is asked the same thing twice; same says whether it answered the
\* same, which it cannot have done when it is down.
ProbeJudge(same) ==
  /\ pc = "probejudge"
  /\ same => served[UrlOf[Judge]] # Down
  /\ verified' = same
  /\ pc' = "gate"
  /\ UNCHANGED <<served, opts, registry, pos, probed, polls, stop, rows, todo, asked,
                 reached, exit, code>>

\* The benchmark's questions cannot be loaded.
MissingQuestions ==
  /\ pc = "gate"
  /\ EndCommand(1, exit)
  /\ UNCHANGED rows

-----------------------------------------------------------------------------
(* The determinism gate: run probes the judge once more, and the outcome of *)
(* this probe decides; the container keeps that of its own.                 *)
Gate(same) ==
  /\ pc = "gate"
  /\ same => served[UrlOf[Judge]] # Down
  /\ IF opts.require /\ ~same
     THEN EndCommand(1, exit)
     ELSE /\ pc' = "plan"
          /\ asked' = TRUE
          /\ UNCHANGED <<served, opts, registry, pos, probed, verified, polls, stop, todo,
                         reached, exit, code>>
  /\ UNCHANGED rows

-----------------------------------------------------------------------------
(* The experiment.                                                         *)

\* Planning the waves: a model that is not in the registry ends the run.
PlanFails ==
  /\ pc = "plan"
  /\ EndCommand(1, exit)
  /\ UNCHANGED rows

Plan ==
  /\ pc = "plan"
  /\ registry
  /\ pc' = "contexts"
  /\ exit' = "running"
  /\ UNCHANGED <<served, memory, rows, code>>

\* The contexts of experiment B are retrieved, then comes the first wave.
BuildContexts ==
  /\ pc = "contexts"
  /\ UNCHANGED rows
  /\ \/ stop /\ EndCommand(0, "partial")
     \/ ~stop /\ pc' = "wait" /\ UNCHANGED <<served, memory, exit, code>>

\* The signal handlers only set the flag.
Signal ==
  /\ pc \in Stages
  /\ ~stop
  /\ stop' = TRUE
  /\ UNCHANGED <<served, pc, opts, registry, pos, probed, verified, polls, rows, todo,
                 asked, reached, exit, code>>

\* The model in hand: start only looks up its endpoint.
InHand == IF pc = "wait" THEN Generators[pos] ELSE Judge
Waiting == pc \in {"wait", "judgewait"}

\* The rows the passes load: neither takes a row whose answer is blank.
Answered == {g \in GeneratorSet : rows[g] # NoRow /\ ~rows[g].blank}
Unmeasured == {g \in Answered : ~rows[g].measured}
Unjudged == {g \in Answered : ~rows[g].judged}

\* Variant of Healthy: the judge's pass takes the rows that claim what this run
\* knows of its judge.
HealthySameRegime ==
  /\ Waiting
  /\ served[UrlOf[InHand]] # Down
  /\ reached' = reached \cup {InHand}
  /\ polls' = 0
  /\ pc' = IF pc = "wait" THEN "generate" ELSE "judge"
  /\ todo' = IF pc = "wait" THEN {} ELSE {g \in Unjudged : rows[g].det = verified}
  /\ UNCHANGED <<served, opts, registry, pos, probed, verified, stop, rows, asked, exit, code>>

\* /health answers, whatever the endpoint serves.  The judge's pass then loads
\* the rows without a verdict.
Healthy ==
  /\ Waiting
  /\ served[UrlOf[InHand]] # Down
  /\ reached' = reached \cup {InHand}
  /\ polls' = 0
  /\ pc' = IF pc = "wait" THEN "generate" ELSE "judge"
  /\ todo' = IF pc = "wait" THEN {} ELSE Unjudged
  /\ UNCHANGED <<served, opts, registry, pos, probed, verified, stop, rows, asked, exit, code>>

\* A health check fails, and the deadline has not come.
Poll ==
  /\ Waiting
  /\ served[UrlOf[InHand]] = Down
  /\ polls < MaxPolls
  /\ polls' = polls + 1
  /\ UNCHANGED <<served, pc, opts, registry, pos, probed, verified, stop, rows, todo,
                 asked, reached, exit, code>>

\* Variants of Unreachable: the wave is skipped, as with a managed server; the
\* error is taken for the end of the run.
SkipUnreachable ==
  /\ Waiting
  /\ polls = MaxPolls
  /\ polls' = 0
  /\ pos' = IF pc = "wait" THEN pos + 1 ELSE pos
  /\ pc' = IF pc = "wait" /\ pos < N THEN "wait" ELSE IF pc = "wait" THEN "metrics" ELSE "judge"
  /\ UNCHANGED <<served, opts, registry, probed, verified, stop, rows, todo, asked,
                 reached, exit, code>>
CompleteUnreachable ==
  /\ Waiting
  /\ polls = MaxPolls
  /\ EndCommand(0, "completed")
  /\ UNCHANGED rows

\* EndpointUnreachableError is not the timeout the orchestrator catches: it
\* ends the run, for a generator as for the judge.
Unreachable ==
  /\ Waiting
  /\ polls = MaxPolls
  /\ EndCommand(1, "failed")
  /\ UNCHANGED rows

\* Generators with an endpoint of their own.
Alone(g) == \A m \in GeneratorSet : UrlOf[m] = UrlOf[g] => m = g

\* Generators whose probe named a model at the endpoint of g.
Named(g) == {m \in GeneratorSet : UrlOf[m] = UrlOf[g] /\ probed[m] # Unknown}

\* Variant of Name: the port layout comes first.
NameByPort(g) == PortModel[UrlOf[g]]

\* The name a request for g is sent with: the id probed at its endpoint (the
\* last one, when several models share it), else the port layout.
Name(g) ==
  IF Named(g) = {} THEN PortModel[UrlOf[g]]
  ELSE probed[Generators[CHOOSE k \in 1..N : /\ Generators[k] \in Named(g)
                                             /\ \A j \in (k + 1)..N : Generators[j] \notin Named(g)]]

\* Between two models the flag is looked at; the last model gives way to the
\* metrics pass, which loads its rows, or to the partial report.
NextModel ==
  \/ /\ stop
     /\ EndCommand(0, "partial")
  \/ /\ ~stop
     /\ pos' = pos + 1
     /\ pc' = IF pos = N THEN "metrics" ELSE "wait"
     /\ todo' = IF pos = N THEN Unmeasured' ELSE {}
     /\ UNCHANGED <<served, opts, registry, probed, verified, polls, stop, asked,
                    reached, exit, code>>

\* The row of an answer the model Name(g) gave to a request for g.
AnswerOf(g, blank) == [by |-> Name(g), id |-> probed[g], det |-> verified, blank |-> blank,
                       measured |-> FALSE, judged |-> FALSE]

\* Variant of Generate: the row of an earlier run is not looked for.
GenerateAgain(blank) ==
  /\ pc = "generate"
  /\ LET g == Generators[pos]
     IN  /\ served[UrlOf[g]] = Name(g)
         /\ rows' = [rows EXCEPT ![g] = AnswerOf(g, blank)]
  /\ NextModel

\* The server answers a request for the model it serves; an answer without a
\* text is an answer.
Generate(blank) ==
  /\ pc = "generate"
  /\ LET g == Generators[pos]
     IN  /\ rows[g] = NoRow
         /\ served[UrlOf[g]] = Name(g)
         /\ rows' = [rows EXCEPT ![g] = AnswerOf(g, blank)]
  /\ NextModel

\* The row is there already, whatever it holds.
SkipExisting ==
  /\ pc = "generate"
  /\ rows[Generators[pos]] # NoRow
  /\ UNCHANGED rows
  /\ NextModel

\* No try brought an answer: the server refuses the name, is not there, or fails
\* although it serves the model.  The cell is left for another run.
GenerationFails ==
  /\ pc = "generate"
  /\ rows[Generators[pos]] = NoRow
  /\ UNCHANGED rows
  /\ NextModel

\* A pass is done with row g.
DoneWith(g) ==
  /\ todo' = todo \ {g}
  /\ UNCHANGED <<served, pc, opts, registry, pos, probed, verified, polls, stop, asked,
                 reached, exit, code>>

\* The metrics of a row, by RAGAS, which asks the judge's endpoint for the judge.
\* The row is written anew, its verdict included: with metrics,
MeasureRow(g) ==
  /\ pc = "metrics"
  /\ g \in todo
  /\ served[UrlOf[Judge]] = Judge
  /\ rows' = [rows EXCEPT ![g].measured = TRUE, ![g].judged = FALSE]
  /\ DoneWith(g)

\* or without: the endpoint does not answer, does not serve the judge, or gives
\* something of which answer_correctness cannot be made.
MeasureInVain(g) ==
  /\ pc = "metrics"
  /\ g \in todo
  /\ rows' = [rows EXCEPT ![g].measured = FALSE, ![g].judged = FALSE]
  /\ DoneWith(g)

\* What goes wrong with one row, its write included, is counted and passed over.
MeasureFails(g) ==
  /\ pc = "metrics"
  /\ g \in todo
  /\ UNCHANGED rows
  /\ DoneWith(g)

\* The metrics pass never looks at the flag.
MetricsDone ==
  /\ pc = "metrics"
  /\ todo = {}
  /\ pc' = "judgewait"
  /\ UNCHANGED <<served, memory, rows, exit, code>>

\* The verdict on a row: the judge is asked by the name in the configuration.
\* determinism_verified stays what the run that generated the row knew.
JudgeRow(g) ==
  /\ pc = "judge"
  /\ g \in todo
  /\ served[UrlOf[Judge]] = Judge
  /\ rows' = [rows EXCEPT ![g].judged = TRUE]
  /\ DoneWith(g)

\* The judge does not answer in time, or no try gives a text that can be read:
\* NaN is written, and the row is for another run.
JudgeInVain(g) ==
  /\ pc = "judge"
  /\ g \in todo
  /\ served[UrlOf[Judge]] \in {Judge, Down}
  /\ rows' = [rows EXCEPT ![g].judged = FALSE]
  /\ DoneWith(g)

\* The endpoint serves another model and refuses the name: the error is not one
\* the pass retries, and ends the run.
JudgeRefuses ==
  /\ pc = "judge"
  /\ todo # {}
  /\ served[UrlOf[Judge]] \notin {Judge, Down}
  /\ EndCommand(1, "failed")
  /\ UNCHANGED rows

Complete ==
  /\ pc = "judge"
  /\ todo = {}
  /\ EndCommand(0, "completed")
  /\ UNCHANGED rows

\* The retriever, the store or the aggregation raises, or the judge answers with
\* an HTTP error.
PassRaises ==
  /\ pc \in {"contexts", "generate", "metrics", "judge"}
  /\ EndCommand(1, "failed")
  /\ UNCHANGED rows

-----------------------------------------------------------------------------
(* The surroundings.                                                       *)

\* Before the experiment has its handlers, SIGINT ends the command with 130.
Interrupt ==
  /\ pc \in {"config", "registry", "probe", "probejudge", "gate", "plan"}
  /\ EndCommand(130, exit)
  /\ UNCHANGED rows

\* The process is killed; there is no exit code of its own.
Kill ==
  /\ pc # "idle"
  /\ EndCommand(NoCode, IF pc \in Stages THEN "failed" ELSE exit)
  /\ UNCHANGED rows

\* Whoever operates the servers stops, starts or replaces one.
Operate(url, id) ==
  /\ served[url] # id
  /\ served' = [served EXCEPT ![url] = id]
  /\ UNCHANGED <<pc, memory, rows, exit, code>>

-----------------------------------------------------------------------------
BeforeRun ==
  \/ RejectConfig \/ AcceptConfig \/ DryRun(0) \/ DryRun(1)
  \/ MissingEndpoint \/ \E found \in BOOLEAN : LoadRegistry(found)
  \/ ProbeGenerator \/ \E same \in BOOLEAN : ProbeJudge(same) \/ Gate(same)
  \/ MissingQuestions \/ PlanFails \/ Plan

Experiment ==
  \/ BuildContexts \/ Healthy \/ Poll \/ Unreachable
  \/ \E blank \in BOOLEAN : Generate(blank)
  \/ SkipExisting \/ GenerationFails
  \/ \E g \in GeneratorSet :
       \/ MeasureRow(g) \/ MeasureInVain(g) \/ MeasureFails(g)
       \/ JudgeRow(g) \/ JudgeInVain(g)
  \/ MetricsDone \/ JudgeRefuses \/ Complete

Command == BeforeRun \/ Experiment

Surroundings ==
  \/ \E o \in Options : Type(o)
  \/ PassRaises \/ Interrupt \/ Kill \/ Signal
  \/ \E url \in Urls : \E id \in Serves[url] : Operate(url, id)

Next == Command \/ Surroundings

Spec == Init /\ [][Next]_vars

\* A command that has started takes its next step; nothing is asked of those
\* who type commands or operate servers.
FairSpec == Spec /\ WF_vars(Command)

-----------------------------------------------------------------------------
(* Safety.                                                                 *)

\* served_model_id tells which model gave an answer, although the endpoint is
\* probed long before it is asked and may serve another model by then: the
\* request carries the id that was probed, and no other model answers to it.
\* Without an id, the answer came by the port layout.  (It takes an endpoint of
\* its own: when two models share one, the last probe names them both.)
RowOrigin ==
  \A g \in GeneratorSet : (rows[g].by # Unknown /\ Alone(g)) =>
    rows[g].by = IF rows[g].id # Unknown THEN rows[g].id ELSE PortModel[UrlOf[g]]

\* A run that says it succeeded has found every endpoint healthy, unless it was
\* told to stop: none is skipped, as a wave of managed servers may be.
SuccessIsComplete ==
  [][(pc # "idle" /\ pc' = "idle" /\ code' = 0 /\ ~opts.dry) => stop \/ reached = Models]_vars

\* A dry run sends nothing to any endpoint.
DryRunOffline == opts.dry => ~asked

\* A later command, whatever the endpoints serve by then, never replaces an
\* answer nor what is said of its origin; it keeps the metrics of a row that has
\* them, and the verdict with them.  (A verdict on a row without metrics does not
\* last: the metrics pass writes that row anew, run_metrics_pass.py:200-212.)
OriginKept ==
  [][\A g \in GeneratorSet : rows[g].by # Unknown =>
       /\ \A f \in {"by", "id", "det", "blank"} : rows'[g][f] = rows[g][f]
       /\ rows[g].measured => rows'[g].measured
       /\ rows[g].measured /\ rows[g].judged => rows'[g].judged]_vars

-----------------------------------------------------------------------------
(* The stages of the experiment.                                           *)
StageOf ==
  CASE pc \in {"contexts", "wait", "generate"} -> "generation"
    [] pc = "metrics" -> "metrics"
    [] pc \in {"judgewait", "judge"} -> "judge"
    [] OTHER -> "down"

Experiments == INSTANCE ExperimentStages WITH stage <- StageOf, exit <- exit

\* Whatever the endpoints do, the passes come in order, each once, a stop on
\* request comes out of generation only and completion out of the judge's pass.
ImplementsStages == Experiments!Spec

-----------------------------------------------------------------------------
(* Liveness.                                                               *)

\* Each endpoint serves its model, and nobody asks the run to stop.
Calm == ~stop /\ \A m \in Models : served[UrlOf[m]] = m

\* A call comes to nothing although the endpoint may serve its model.
Mishap ==
  \/ GenerationFails /\ LET g == Generators[pos] IN served[UrlOf[g]] = Name(g)
  \/ \E g \in GeneratorSet : MeasureInVain(g) \/ MeasureFails(g) \/ JudgeInVain(g)

\* Nothing is left to do for a cell.  A blank answer is final: no later run asks
\* for another one, measures it or has it judged.
Settled(g) == rows[g] # NoRow /\ (rows[g].blank \/ (rows[g].measured /\ rows[g].judged))

\* An endpoint that was down, served something else or failed costs a run, never
\* a row: if from some point on each endpoint serves its model and calls succeed,
\* and runs complete, every cell gets its answer, and, unless that is blank, its
\* metrics and a verdict, for good.
EventuallySettled ==
  (<>[]Calm /\ <>[][~Mishap]_vars /\ []<><<Complete>>_vars) => <>[](\A g \in GeneratorSet : Settled(g))

-----------------------------------------------------------------------------
(* The inductive invariant.                                                *)

\* A probe of an endpoint nobody shares names the requests sent to it.
NameIsProbed ==
  \A g \in GeneratorSet : Alone(g) =>
    Name(g) = IF probed[g] # Unknown THEN probed[g] ELSE PortModel[UrlOf[g]]

\* The endpoints found healthy so far.
Through(k) == {Generators[j] : j \in 1..k}
ReachedSoFar ==
  /\ pc = "wait" => pos <= N /\ Through(pos - 1) \subseteq reached
  /\ pc = "generate" => pos <= N /\ Through(pos) \subseteq reached
  /\ pc \in {"metrics", "judgewait", "judge"} => GeneratorSet \subseteq reached
  /\ pc = "judge" => Judge \in reached
  /\ pc = "probe" => pos <= N
  /\ pc \notin {"probe"} \cup (Stages \ {"contexts"}) => pos = 1

\* A dry run never gets past the configuration; a command in the experiment has
\* no exit code yet.
Offline ==
  /\ pc \notin {"idle", "config"} => ~opts.dry
  /\ pc \in {"idle", "config"} => ~asked
  /\ pc # "idle" => code = NoCode

\* What a pass has still to do was due when it was loaded, and is.
WorkIsDue ==
  /\ pc = "metrics" => todo \subseteq Unmeasured
  /\ pc = "judge" => todo \subseteq Unjudged

IInv == TypeOK /\ RowOrigin /\ DryRunOffline /\ ReachedSoFar /\ Offline /\ WorkIsDue

=============================================================================
