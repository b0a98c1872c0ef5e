--------------------------- MODULE RunExperiment ---------------------------
(***************************************************************************)
(* The orchestrator of a run (application/use_cases/run_experiment.py) on  *)
(* top of the managed vLLM servers: one server at a time for each          *)
(* generator of each wave, then the metrics pass, then the judge's server  *)
(* and its pass, then the aggregation; with the signals that ask for a     *)
(* shutdown, servers that do not come up or die, passes that raise, the    *)
(* crash of the orchestrator and the relaunch after it.                    *)
(*                                                                         *)
(* Generators is the order of the wave plan (wave_scheduler.py): waves are *)
(* slices of PerWave of it.                                                *)
(***************************************************************************)
EXTENDS VLLMServers

CONSTANTS
  Generators,    \* the generators of the round in the order of the plan
  PerWave,       \* generators per wave (the generation GPUs, 1 with --serial)
  Judge,         \* the model flagged is_judge
  Registry       \* all models in the order of model_registry.yaml

ASSUME ExperimentAssumption ==
  /\ Judge \in Models
  /\ Generators \in Seq(Models \ {Judge})
  /\ PerWave \in Nat \ {0}
  /\ Registry \in Seq(Models)

VARIABLES
  pc,        \* where the orchestrator is: the await it is suspended in
  next,      \* position of the current generator in the plan
  shutdown,  \* _shutdown_requested
  failed,    \* waves with a generator whose server did not start
  done,      \* positions of the generators whose pass finished
  handle,    \* active_handle, or judge_handle
  outcome,   \* how the last run ended, "running" while one is under way
  barrier,   \* the wave shutdown was requested in, or the last of the plan
  orphans    \* processes a crashed orchestrator left behind

runVars == <<pc, next, shutdown, failed, done, handle, outcome, barrier>>
vars == <<serverVars, runVars, orphans>>

N == Len(Generators)
Wave(i) == ((i - 1) \div PerWave) + 1
FirstOfWave(i) == (i - 1) % PerWave = 0
Waves == {Wave(i) : i \in 1..N}
LastWave == IF N = 0 THEN 0 ELSE Wave(N)

InGeneration == {"contexts", "select", "starting", "generating", "stopping", "aborting"}
InJudge == {"judge_select", "judge_starting", "judging", "judge_stopping", "judge_aborting",
            "aggregating"}
Places == {"down", "metrics"} \cup InGeneration \cup InJudge
Outcomes == {"none", "running", "completed", "partial", "error", "switch_error", "crash"}

TypeOK ==
  /\ ServersTypeOK
  /\ pc \in Places
  /\ next \in 1..(N + 1)
  /\ shutdown \in BOOLEAN
  /\ failed \in SUBSET Waves
  /\ done \in SUBSET (1..N)
  /\ handle \in Pids \cup {NoPid}
  /\ outcome \in Outcomes
  /\ barrier \in Waves \cup {0}
  /\ orphans \in SUBSET Pids

Init ==
  /\ ServersInit
  /\ pc = "down"
  /\ next = 1
  /\ shutdown = FALSE
  /\ failed = {}
  /\ done = {}
  /\ handle = NoPid
  /\ outcome = "none"
  /\ barrier = LastWave
  /\ orphans = {}

-----------------------------------------------------------------------------
(* A run begins and ends.                                                  *)

Launch ==
  /\ pc = "down"
  /\ pc' = "contexts"
  /\ next' = 1
  /\ shutdown' = FALSE
  /\ failed' = {}
  /\ done' = {}
  /\ outcome' = "running"
  /\ barrier' = LastWave
  /\ UNCHANGED <<serverVars, handle, orphans>>

\* execute returns or raises.
EndRun(how) ==
  /\ pc' = "down"
  /\ outcome' = how
  /\ UNCHANGED <<next, shutdown, failed, done, barrier>>

\* The canonical contexts of experiment B are there.
BuildContexts ==
  /\ pc = "contexts"
  /\ pc' = "select"
  /\ UNCHANGED <<serverVars, next, shutdown, failed, done, handle, outcome, barrier, orphans>>

\* RetrievalError of the canonical contexts, an exception of the metrics pass
\* or of the aggregation: no server is up and execute raises.
RaiseWithoutServer ==
  /\ pc \in {"contexts", "metrics", "aggregating"}
  /\ EndRun("error")
  /\ UNCHANGED <<serverVars, handle, orphans>>

\* The shutdown flag is set; a request in the contexts precedes every wave.
SetShutdown ==
  /\ shutdown' = TRUE
  /\ barrier' = IF shutdown \/ next > N THEN barrier
                ELSE IF pc = "contexts" THEN 0 ELSE Wave(next)

\* SIGTERM or SIGINT: the loop runs the handler while the run is suspended in
\* an await; there is none from one server to the next, nor in aggregation.
RequestShutdown ==
  /\ pc \notin {"down", "select", "judge_select", "aggregating"}
  /\ SetShutdown
  /\ UNCHANGED <<serverVars, pc, next, failed, done, handle, outcome, orphans>>

\* A process that ends without stopping its servers leaves them behind.
Abandon ==
  /\ proc' = [p \in Pids |-> IF Alive(p) THEN proc[p] ELSE NoProcess]
  /\ tracked' = {}
  /\ handle' = NoPid
  /\ orphans' = {p \in Pids : Alive(p) /\ ~proc[p].killed}
  /\ UNCHANGED lingering

-----------------------------------------------------------------------------
(* The wave loop.                                                          *)

\* The loop ends: no generator is left, or shutdown was requested before a
\* wave begins.
LoopEnds == next > N \/ (shutdown /\ FirstOfWave(next))

\* Variant of AfterLoop: with nothing generated the metrics pass is skipped.
AfterLoopToJudge ==
  IF shutdown
    THEN EndRun("partial")
    ELSE /\ pc' = IF done = {} THEN "judge_select" ELSE "metrics"
         /\ UNCHANGED <<next, shutdown, failed, done, outcome, barrier>>

\* What follows the loop: the partial report, or the metrics pass.
AfterLoop ==
  IF shutdown
    THEN EndRun("partial")
    ELSE /\ pc' = "metrics"
         /\ UNCHANGED <<next, shutdown, failed, done, outcome, barrier>>

LeaveLoop ==
  /\ pc = "select"
  /\ LoopEnds
  /\ AfterLoop
  /\ UNCHANGED <<serverVars, handle, orphans>>

\* Variant of StartGenerator: the flag is not looked at between waves.
StartWithoutLooking(p) ==
  /\ pc = "select"
  /\ next <= N
  /\ Start(Generators[next], p)
  /\ handle' = p
  /\ pc' = "starting"
  /\ UNCHANGED <<next, shutdown, failed, done, outcome, barrier, orphans>>

StartGenerator(p) ==
  /\ pc = "select"
  /\ ~LoopEnds
  /\ Start(Generators[next], p)
  /\ handle' = p
  /\ pc' = "starting"
  /\ UNCHANGED <<next, shutdown, failed, done, outcome, barrier, orphans>>

\* ModelSwitchError is not caught: execute raises.
RefuseGenerator ==
  /\ pc = "select"
  /\ ~LoopEnds
  /\ ~PortAvailable(PortOf[Generators[next]])
  /\ EndRun("switch_error")
  /\ UNCHANGED <<serverVars, handle, orphans>>

\* create_subprocess_exec raises, for a generator or for the judge.
StartRaises ==
  /\ \/ pc = "select" /\ ~LoopEnds
     \/ pc = "judge_select"
  /\ EndRun("error")
  /\ UNCHANGED <<serverVars, handle, orphans>>

PortInHand == PortOf[proc[handle].model]

\* wait_healthy returns: the port of the handle answers.
GeneratorHealthy ==
  /\ pc = "starting"
  /\ HealthyPort(PortInHand)
  /\ pc' = "generating"
  /\ UNCHANGED <<serverVars, next, shutdown, failed, done, handle, outcome, barrier, orphans>>

\* Variants of GeneratorTimeout: the server is tried again; the wave is not
\* recorded; the process is left alone.
RetryGeneratorForever(gone) ==
  /\ pc = "starting"
  /\ End(handle, gone)
  /\ handle' = NoPid
  /\ pc' = "select"
  /\ failed' = failed \cup {Wave(next)}
  /\ UNCHANGED <<next, shutdown, done, outcome, barrier, orphans>>
TimeoutUnrecorded(gone) ==
  /\ pc = "starting"
  /\ End(handle, gone)
  /\ handle' = NoPid
  /\ pc' = "select"
  /\ next' = next + 1
  /\ UNCHANGED <<shutdown, failed, done, outcome, barrier, orphans>>
TimeoutWithoutKill(gone) ==
  /\ pc = "starting"
  /\ handle' = NoPid
  /\ pc' = "select"
  /\ failed' = failed \cup {Wave(next)}
  /\ next' = next + 1
  /\ UNCHANGED <<serverVars, shutdown, done, outcome, barrier, orphans>>

\* ServerStartTimeoutError, the process having died or the time being over:
\* the process was killed, the wave is recorded, the next generator of the
\* wave is tried.
GeneratorTimeout(gone) ==
  /\ pc = "starting"
  /\ End(handle, gone)
  /\ handle' = NoPid
  /\ pc' = "select"
  /\ failed' = failed \cup {Wave(next)}
  /\ next' = next + 1
  /\ UNCHANGED <<shutdown, done, outcome, barrier, orphans>>

\* Variant of FinishGeneration: the position moves on here already.
FinishAndAdvance ==
  /\ pc = "generating"
  /\ done' = done \cup {next}
  /\ next' = next + 1
  /\ pc' = "stopping"
  /\ UNCHANGED <<serverVars, shutdown, failed, handle, outcome, barrier, orphans>>

\* The generation pass of the generator returns its report.
FinishGeneration ==
  /\ pc = "generating"
  /\ done' = done \cup {next}
  /\ pc' = "stopping"
  /\ UNCHANGED <<serverVars, next, shutdown, failed, handle, outcome, barrier, orphans>>

\* Without signal handlers a SIGINT is a KeyboardInterrupt of the pass.
InterruptGeneration ==
  /\ pc = "generating"
  /\ SetShutdown
  /\ pc' = "stopping"
  /\ UNCHANGED <<serverVars, next, failed, done, handle, outcome, orphans>>

\* Variant of GenerationRaises: without the finally block.
RaiseWithoutFinally ==
  /\ pc \in {"starting", "generating"}
  /\ Abandon
  /\ EndRun("error")

\* The generation pass raises, or wait_healthy raises something that is not a
\* ServerStartTimeoutError: a finally block stops the server.
GenerationRaises ==
  /\ pc \in {"starting", "generating"}
  /\ pc' = "aborting"
  /\ UNCHANGED <<serverVars, next, shutdown, failed, done, handle, outcome, barrier, orphans>>

\* stop returns.  A shutdown requested meanwhile ends the loop, within the
\* wave as between waves.
StopGenerator(gone) ==
  /\ pc = "stopping"
  /\ End(handle, gone)
  /\ handle' = NoPid
  /\ IF shutdown
       THEN EndRun("partial")
       ELSE /\ pc' = "select"
            /\ next' = next + 1
            /\ UNCHANGED <<shutdown, failed, done, outcome, barrier>>
  /\ UNCHANGED orphans

StopAndRaise(gone) ==
  /\ pc \in {"aborting", "judge_aborting"}
  /\ End(handle, gone)
  /\ handle' = NoPid
  /\ EndRun("error")
  /\ UNCHANGED orphans

-----------------------------------------------------------------------------
(* The metrics pass, the judge and the aggregation.                        *)

FinishMetrics ==
  /\ pc = "metrics"
  /\ pc' = "judge_select"
  /\ UNCHANGED <<serverVars, next, shutdown, failed, done, handle, outcome, barrier, orphans>>

StartJudge(p) ==
  /\ pc = "judge_select"
  /\ Start(Judge, p)
  /\ handle' = p
  /\ pc' = "judge_starting"
  /\ UNCHANGED <<next, shutdown, failed, done, outcome, barrier, orphans>>

RefuseJudge ==
  /\ pc = "judge_select"
  /\ ~PortAvailable(PortOf[Judge])
  /\ EndRun("switch_error")
  /\ UNCHANGED <<serverVars, handle, orphans>>

JudgeHealthy ==
  /\ pc = "judge_starting"
  /\ HealthyPort(PortInHand)
  /\ pc' = "judging"
  /\ UNCHANGED <<serverVars, next, shutdown, failed, done, handle, outcome, barrier, orphans>>

\* Unlike a generator's, the judge's ServerStartTimeoutError ends the run.
JudgeTimeout(gone) ==
  /\ pc = "judge_starting"
  /\ End(handle, gone)
  /\ handle' = NoPid
  /\ EndRun("error")
  /\ UNCHANGED orphans

\* wait_healthy raises something else, outside of any try: execute raises and
\* nothing stops the server.  asyncio may kill it as the interpreter exits.
JudgeHealthRaises ==
  /\ pc = "judge_starting"
  /\ EndRun("error")
  /\ \/ Abandon
     \/ \E gone \in BOOLEAN : End(handle, gone) /\ handle' = NoPid /\ UNCHANGED orphans

FinishJudge ==
  /\ pc = "judging"
  /\ pc' = "judge_stopping"
  /\ UNCHANGED <<serverVars, next, shutdown, failed, done, handle, outcome, barrier, orphans>>

\* The judge pass raises: its finally block stops the server.
JudgeRaises ==
  /\ pc = "judging"
  /\ pc' = "judge_aborting"
  /\ UNCHANGED <<serverVars, next, shutdown, failed, done, handle, outcome, barrier, orphans>>

StopJudge(gone) ==
  /\ pc = "judge_stopping"
  /\ End(handle, gone)
  /\ handle' = NoPid
  /\ pc' = "aggregating"
  /\ UNCHANGED <<next, shutdown, failed, done, outcome, barrier, orphans>>

Aggregate ==
  /\ pc = "aggregating"
  /\ EndRun("completed")
  /\ UNCHANGED <<serverVars, handle, orphans>>

-----------------------------------------------------------------------------
(* The orchestrator is killed; its servers are not.                        *)
Crash ==
  /\ pc # "down"
  /\ Abandon
  /\ EndRun("crash")

\* The operating system moves; a process that is gone is nobody's orphan.
Environment ==
  /\ \/ \E p \in Pids : Exit(p) \/ Bind(p)
     \/ \E port \in Ports : Expire(port)
  /\ orphans' = {p \in orphans : proc'[p].state # "none"}
  /\ UNCHANGED runVars

-----------------------------------------------------------------------------
Generation ==
  \/ BuildContexts
  \/ LeaveLoop
  \/ \E p \in Pids : StartGenerator(p)
  \/ RefuseGenerator
  \/ GeneratorHealthy
  \/ \E gone \in BOOLEAN : GeneratorTimeout(gone) \/ StopGenerator(gone)
  \/ FinishGeneration
  \/ InterruptGeneration
  \/ GenerationRaises

Evaluation ==
  \/ FinishMetrics
  \/ \E p \in Pids : StartJudge(p)
  \/ RefuseJudge
  \/ JudgeHealthy
  \/ FinishJudge
  \/ JudgeHealthRaises
  \/ JudgeRaises
  \/ \E gone \in BOOLEAN : JudgeTimeout(gone) \/ StopJudge(gone)
  \/ Aggregate

\* What the orchestrator does on its own: each of its awaits is bounded by a
\* timeout of its own or of the client it calls.
Progress ==
  \/ Generation
  \/ Evaluation
  \/ RaiseWithoutServer
  \/ StartRaises
  \/ \E gone \in BOOLEAN : StopAndRaise(gone)

Next == Launch \/ Progress \/ RequestShutdown \/ Crash \/ Environment

Spec == Init /\ [][Next]_vars

FairSpec == Spec /\ WF_vars(Progress)

-----------------------------------------------------------------------------
(* Safety.                                                                 *)

\* One server at a time is up on the orchestrator's account, the one in hand:
\* every other process is one it killed or one a dead orchestrator left, and
\* no handle is kept of a server that is no longer in hand.
NoStrayServer ==
  /\ tracked \subseteq {handle}
  /\ \A p \in Pids : (Alive(p) /\ ~proc[p].killed /\ p \notin orphans) =>
       p = handle /\ pc # "down"

\* Whatever raises, the server of a generator is stopped before the run ends:
\* only a crash, or the judge's start, can leave one behind.
GeneratorNeverLeft ==
  [][\A p \in orphans' \ orphans : outcome' = "crash" \/ proc'[p].model = Judge]_vars

\* Every generator behind the loop has either finished its pass or marked its
\* wave as failed, no wave is marked for nothing, and the metrics pass waits
\* for the last of them: a report without failed waves left nobody out.
ReportAccounts ==
  /\ \A i \in 1..(next - 1) : i \in done \/ Wave(i) \in failed
  /\ \A w \in failed : \E i \in 1..(next - 1) : Wave(i) = w /\ i \notin done
  /\ pc \in {"metrics"} \cup InJudge => next = N + 1

\* After a shutdown request no wave begins, even when the servers of the wave
\* under way keep failing to start and nothing looks at the flag in between.
ShutdownBarrier ==
  /\ \A i \in done : Wave(i) <= barrier
  /\ pc \in {"starting", "generating", "stopping"} => Wave(next) <= barrier

\* Where the position, the handle and the flag are between the steps.
WithServer == {"starting", "generating", "stopping", "aborting",
               "judge_starting", "judging", "judge_stopping", "judge_aborting"}

PlaceInPlan ==
  /\ done \subseteq 1..next
  /\ pc \in WithServer \cap InGeneration => next <= N
  /\ pc = "contexts" => next = 1
  /\ pc \in {"contexts", "select", "starting", "generating"} => next \notin done
  /\ pc = "stopping" => next \in done \/ shutdown

HandleInHand ==
  /\ pc \in WithServer <=> handle # NoPid
  /\ handle # NoPid =>
       /\ handle \in tracked
       /\ proc[handle].model = IF pc \in InGeneration THEN Generators[next] ELSE Judge

BarrierSet ==
  /\ ~shutdown => barrier = LastWave
  /\ (pc = "select" /\ next <= N /\ ~FirstOfWave(next)) => Wave(next) <= barrier

\* The inductive invariant of the specification.
IInv == /\ TypeOK
        /\ PlaceInPlan
        /\ HandleInHand
        /\ BarrierSet
        /\ NoStrayServer
        /\ ReportAccounts
        /\ ShutdownBarrier

\* The passes come in the order an experiment promises, each after the other.
StageOf(place) ==
  CASE place = "down" -> "down"
    [] place \in InGeneration -> "generation"
    [] place = "metrics" -> "metrics"
    [] place \in InJudge -> "judge"
ExitOf(how) == IF how \in {"error", "switch_error", "crash"} THEN "failed" ELSE how

Experiment == INSTANCE ExperimentStages WITH stage <- StageOf(pc), exit <- ExitOf(outcome)

\* The orchestrator implements the stages of an experiment.
ImplementsStages == Experiment!Spec

-----------------------------------------------------------------------------
(* What the documents say and the code does not do.                        *)

\* port_to_model of the wiring: the last model of the registry on the port.
PortToModel(port) ==
  LET on == {k \in 1..Len(Registry) : PortOf[Registry[k]] = port}
  IN  Registry[CHOOSE k \in on : \A l \in on : l <= k]

\* "URL managed deve resolver pelo layout de porta": the generator asks the
\* server it is given for the model that server was started with.
AsksTheModelServed ==
  pc = "generating" => PortToModel(PortInHand) = Generators[next]

-----------------------------------------------------------------------------
(* Liveness: a run comes to its end, whatever servers and passes do.       *)

RunEnds == pc # "down" ~> pc = "down"

=============================================================================
