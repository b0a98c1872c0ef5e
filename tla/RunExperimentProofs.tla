------------------------ MODULE RunExperimentProofs ------------------------
(***************************************************************************)
(* Proofs about the orchestrator and its servers, for every plan of        *)
(* generators, every size of the waves and every set of processes.         *)
(***************************************************************************)
EXTENDS RunExperiment, TLAPS

-----------------------------------------------------------------------------
(* Waves: division by the number of generators in one.                     *)

LEMMA Division ==
  ASSUME NEW a \in Nat, NEW k \in Nat \ {0}
  PROVE  /\ a \div k \in Nat /\ a % k \in 0..(k - 1)
         /\ a = k * (a \div k) + (a % k)
OBVIOUS

LEMMA DivisionMonotone ==
  ASSUME NEW a \in Nat, NEW b \in Nat, NEW k \in Nat \ {0}, a <= b
  PROVE  a \div k <= b \div k
<1>. DEFINE q == a \div k
            r == b \div k
<1>1. q \in Nat /\ r \in Nat /\ a >= k * q /\ b < k * (r + 1)
  <2>1. k * (r + 1) = k * r + k
    BY Division
  <2>. QED BY <2>1, Division
<1>2. SUFFICES ASSUME q >= r + 1 PROVE FALSE
  BY <1>1
<1>. HIDE DEF q, r
<1>3. k * q >= k * (r + 1)
  BY <1>1, <1>2
<1>. QED BY <1>1, <1>3

LEMMA DivisionStep ==
  ASSUME NEW a \in Nat, NEW k \in Nat \ {0}, (a + 1) % k # 0
  PROVE  (a + 1) \div k = a \div k
<1>. DEFINE b == a + 1
            q == a \div k
            r == b \div k
            m == b % k
<1>1. b \in Nat
  OBVIOUS
<1>2. q \in Nat /\ r \in Nat /\ m \in 0..(k - 1) /\ b = k * r + m
  <2>. HIDE DEF b
  <2>. QED BY <1>1, Division
<1>3. m # 0
  OBVIOUS
<1>4. a < k * (q + 1)
  <2>1. k * (q + 1) = k * q + k
    BY <1>2
  <2>. QED BY <2>1, Division
<1>5. q <= r
  BY <1>1, DivisionMonotone
<1>6. SUFFICES ASSUME r >= q + 1 PROVE FALSE
  BY <1>2, <1>5
<1>. HIDE DEF q, r, m
<1>7. k * r >= k * (q + 1)
  BY <1>2, <1>6
<1>. QED BY <1>2, <1>3, <1>4, <1>7

\* The plan: positions, waves, and their order.
LEMMA Plan ==
  /\ N \in Nat
  /\ \A i \in 1..N : Generators[i] \in Models \ {Judge} /\ Wave(i) \in Waves /\ Wave(i) \in Nat
  /\ LastWave \in Waves \cup {0}
  /\ Waves \subseteq Nat
<1>1. N \in Nat /\ \A i \in 1..N : Generators[i] \in Models \ {Judge}
  BY ExperimentAssumption DEF N
<1>2. \A i \in 1..N : Wave(i) \in Nat
  <2>. SUFFICES ASSUME NEW i \in 1..N PROVE Wave(i) \in Nat
    OBVIOUS
  <2>1. i - 1 \in Nat
    BY <1>1
  <2>2. (i - 1) \div PerWave \in Nat
    BY <2>1, Division, ExperimentAssumption
  <2>. QED BY <2>2 DEF Wave
<1>. QED BY <1>1, <1>2 DEF Waves, LastWave

LEMMA WaveOrder ==
  ASSUME NEW i \in 1..N, NEW j \in 1..N, i <= j
  PROVE  Wave(i) <= Wave(j)
<1>1. i - 1 \in Nat /\ j - 1 \in Nat /\ i - 1 <= j - 1
  BY Plan
<1>2. (i - 1) \div PerWave <= (j - 1) \div PerWave
  BY <1>1, DivisionMonotone, ExperimentAssumption
<1>. QED BY <1>1, <1>2, Division, ExperimentAssumption DEF Wave

LEMMA SameWave ==
  ASSUME NEW i \in 1..N, i + 1 <= N, ~FirstOfWave(i + 1)
  PROVE  Wave(i + 1) = Wave(i)
<1>1. i - 1 \in Nat /\ (i + 1) - 1 = (i - 1) + 1
  BY Plan
<1>2. ((i - 1) + 1) % PerWave # 0
  BY <1>1 DEF FirstOfWave
<1>3. ((i - 1) + 1) \div PerWave = (i - 1) \div PerWave
  BY <1>1, <1>2, DivisionStep, ExperimentAssumption
<1>. QED BY <1>1, <1>3 DEF Wave

-----------------------------------------------------------------------------
(* The adapter and the operating system.                                   *)

LEMMA StartStep ==
  ASSUME ServersTypeOK, NEW m \in Models, NEW p \in Pids, Start(m, p)
  PROVE  /\ ServersTypeOK'
         /\ proc'[p] = [state |-> "loading", model |-> m, killed |-> FALSE]
         /\ \A q \in Pids \ {p} : proc'[q] = proc[q] \/ proc'[q] = NoProcess
         /\ p \in tracked' /\ tracked' \subseteq tracked \cup {p}
BY DEF Start, ServersTypeOK, Process, NoProcess

LEMMA EndStep ==
  ASSUME ServersTypeOK, NEW p \in Pids, NEW gone \in BOOLEAN, End(p, gone)
  PROVE  /\ ServersTypeOK'
         /\ proc'[p] = NoProcess \/ proc'[p].killed
         /\ \A q \in Pids \ {p} : proc'[q] = proc[q]
         /\ tracked' = tracked \ {p}
BY DEF End, Leave, ServersTypeOK, Process, NoProcess

LEMMA AbandonStep ==
  ASSUME ServersTypeOK, Abandon
  PROVE  /\ ServersTypeOK'
         /\ \A q \in Pids : proc'[q] = proc[q] \/ proc'[q] = NoProcess
BY DEF Abandon, ServersTypeOK, Process, NoProcess

\* A process outside of the adapter's reach only changes its state, and one
\* that is dead does not come back.
LEMMA EnvironmentStep ==
  ASSUME ServersTypeOK, Environment
  PROVE  /\ ServersTypeOK'
         /\ tracked' = tracked
         /\ \A q \in Pids : Alive(q)' => Alive(q) /\ proc'[q].killed = proc[q].killed
         /\ \A q \in tracked : proc'[q].model = proc[q].model
         /\ \A q \in orphans \ orphans' : ~Alive(q)'
<1>1. ASSUME NEW p \in Pids, Exit(p)
      PROVE  /\ ServersTypeOK' /\ tracked' = tracked
             /\ \A q \in Pids : Alive(q)' => Alive(q) /\ proc'[q].killed = proc[q].killed
             /\ \A q \in tracked : proc'[q].model = proc[q].model
  BY <1>1 DEF Exit, Leave, Alive, ServersTypeOK, Process, NoProcess
<1>2. ASSUME NEW p \in Pids, Bind(p)
      PROVE  /\ ServersTypeOK' /\ tracked' = tracked
             /\ \A q \in Pids : Alive(q)' => Alive(q) /\ proc'[q].killed = proc[q].killed
             /\ \A q \in tracked : proc'[q].model = proc[q].model
  BY <1>2 DEF Bind, Alive, ServersTypeOK, Process
<1>3. ASSUME NEW port \in Ports, Expire(port)
      PROVE  /\ ServersTypeOK' /\ tracked' = tracked /\ proc' = proc
  BY <1>3 DEF Expire, ServersTypeOK
<1>4. \A q \in orphans \ orphans' : ~Alive(q)'
  BY DEF Environment, Alive
<1>. QED BY <1>1, <1>2, <1>3, <1>4 DEF Environment, Alive, ServersTypeOK
-----------------------------------------------------------------------------
(* The inductive invariant: type correctness and the place in the plan.    *)

LEMMA InitInvariant == Init => IInv
<1>. SUFFICES ASSUME Init PROVE IInv
  OBVIOUS
<1>1. TypeOK
  <2>1. ServersTypeOK
    BY DEF Init, ServersInit, ServersTypeOK, Process, NoProcess
  <2>2. next \in 1..(N + 1)
    BY Plan DEF Init
  <2>. QED BY <2>1, <2>2, Plan DEF Init, TypeOK, Places, Outcomes
<1>2. PlaceInPlan /\ HandleInHand /\ BarrierSet
  BY DEF Init, PlaceInPlan, HandleInHand, BarrierSet, WithServer, InGeneration
<1>3. NoStrayServer /\ ReportAccounts /\ ShutdownBarrier
  BY DEF Init, ServersInit, NoProcess, Alive, NoStrayServer, ReportAccounts, ShutdownBarrier, InJudge
<1>. QED BY <1>1, <1>2, <1>3 DEF IInv

\* The flag and the barrier after a request to stop.
LEMMA SetShutdownType ==
  ASSUME TypeOK, SetShutdown
  PROVE  shutdown' \in BOOLEAN /\ barrier' \in Waves \cup {0}
BY Plan DEF TypeOK, SetShutdown

LEMMA HandleType ==
  ASSUME IInv, pc \in WithServer
  PROVE  handle \in Pids
BY DEF IInv, TypeOK, HandleInHand

\* Steps that start, stop or abandon a server and steps of the system.
LEMMA ServersStep ==
  ASSUME IInv, Next
  PROVE  ServersTypeOK'
<1>. USE DEF IInv, TypeOK
<1>1. ASSUME NEW p \in Pids, StartGenerator(p) PROVE ServersTypeOK'
  <2>1. next \in 1..N
    BY <1>1, Plan DEF StartGenerator, LoopEnds
  <2>. QED BY <1>1, <2>1, Plan, StartStep DEF StartGenerator
<1>2. ASSUME NEW p \in Pids, StartJudge(p) PROVE ServersTypeOK'
  BY <1>2, StartStep, ExperimentAssumption DEF StartJudge
<1>3. ASSUME NEW gone \in BOOLEAN,
             GeneratorTimeout(gone) \/ StopGenerator(gone) \/ StopAndRaise(gone)
               \/ JudgeTimeout(gone) \/ StopJudge(gone)
      PROVE  ServersTypeOK'
  <2>1. handle \in Pids /\ End(handle, gone)
    BY <1>3, HandleType DEF WithServer, GeneratorTimeout, StopGenerator, StopAndRaise,
         JudgeTimeout, StopJudge
  <2>. QED BY <2>1, EndStep
<1>4. CASE JudgeHealthRaises
  BY <1>4, AbandonStep, EndStep, HandleType DEF JudgeHealthRaises, WithServer
<1>5. CASE Crash \/ Environment
  BY <1>5, AbandonStep, EnvironmentStep DEF Crash
<1>6. CASE UNCHANGED serverVars
  BY <1>6 DEF serverVars, ServersTypeOK
<1>. QED BY <1>1, <1>2, <1>3, <1>4, <1>5, <1>6
         DEF Next, Launch, Progress, Generation, Evaluation, RaiseWithoutServer, StartRaises,
             RequestShutdown, BuildContexts, LeaveLoop, RefuseGenerator, GeneratorHealthy,
             FinishGeneration, InterruptGeneration, GenerationRaises, FinishMetrics, RefuseJudge,
             JudgeHealthy, FinishJudge, JudgeRaises, Aggregate

\* What each step of the orchestrator leaves alone, and a step of the system.
LEMMA RunTypeStep ==
  ASSUME IInv, Next
  PROVE  TypeOK'
<1>. USE DEF IInv
<1>t. /\ ServersTypeOK' /\ N \in Nat /\ next \in 1..(N + 1)
      /\ handle \in Pids \cup {NoPid} /\ orphans \in SUBSET Pids
  BY ServersStep, Plan DEF TypeOK
<1>p. /\ \A i \in 1..N : Wave(i) \in Waves
      /\ LastWave \in Waves \cup {0}
  BY Plan
<1>1. CASE Launch
  <2>1. next' \in 1..(N + 1)
    BY <1>1, <1>t DEF Launch
  <2>. QED BY <1>1, <1>t, <1>p, <2>1 DEF Launch, TypeOK, Places, InGeneration, Outcomes
<1>2. CASE BuildContexts \/ GeneratorHealthy \/ GenerationRaises \/ FinishMetrics
           \/ JudgeHealthy \/ FinishJudge \/ JudgeRaises
  BY <1>2, <1>t DEF BuildContexts, GeneratorHealthy, GenerationRaises, FinishMetrics,
     JudgeHealthy, FinishJudge, JudgeRaises, TypeOK, Places, InGeneration, InJudge
<1>3. CASE RaiseWithoutServer \/ StartRaises \/ RefuseGenerator \/ RefuseJudge \/ Aggregate
  BY <1>3, <1>t DEF RaiseWithoutServer, StartRaises, RefuseGenerator, RefuseJudge, Aggregate,
     EndRun, TypeOK, Places, Outcomes
<1>4. CASE RequestShutdown \/ InterruptGeneration
  BY <1>4, <1>t, SetShutdownType DEF RequestShutdown, InterruptGeneration, TypeOK, Places, InGeneration
<1>5. CASE LeaveLoop
  BY <1>5, <1>t DEF LeaveLoop, AfterLoop, EndRun, TypeOK, Places, Outcomes
<1>6. ASSUME NEW p \in Pids, StartGenerator(p) \/ StartJudge(p) PROVE TypeOK'
  BY <1>6, <1>t DEF StartGenerator, StartJudge, TypeOK, Places, InGeneration, InJudge
<1>7. ASSUME NEW gone \in BOOLEAN, GeneratorTimeout(gone) PROVE TypeOK'
  <2>1. next \in 1..N
    BY <1>7, <1>t DEF GeneratorTimeout, PlaceInPlan, WithServer, InGeneration
  <2>. QED BY <1>7, <1>t, <1>p, <2>1 DEF GeneratorTimeout, TypeOK, Places, InGeneration
<1>8. CASE FinishGeneration
  <2>1. next \in 1..N
    BY <1>8, <1>t DEF FinishGeneration, PlaceInPlan, WithServer, InGeneration
  <2>. QED BY <1>8, <1>t, <2>1 DEF FinishGeneration, TypeOK, Places, InGeneration
<1>9. ASSUME NEW gone \in BOOLEAN, StopGenerator(gone) PROVE TypeOK'
  <2>1. next \in 1..N
    BY <1>9, <1>t DEF StopGenerator, PlaceInPlan, WithServer, InGeneration
  <2>2. CASE shutdown
    BY <1>9, <1>t, <2>2 DEF StopGenerator, EndRun, TypeOK, Places, Outcomes
  <2>3. CASE ~shutdown
    <3>1. next + 1 \in 1..(N + 1)
      BY <1>t, <2>1
    <3>. QED BY <1>9, <1>t, <2>3, <3>1 DEF StopGenerator, TypeOK, Places, InGeneration
  <2>. QED BY <2>2, <2>3
<1>10. ASSUME NEW gone \in BOOLEAN,
              StopAndRaise(gone) \/ JudgeTimeout(gone) \/ StopJudge(gone)
       PROVE  TypeOK'
  BY <1>10, <1>t DEF StopAndRaise, JudgeTimeout, StopJudge, EndRun, TypeOK, Places, InJudge, Outcomes
<1>11. CASE JudgeHealthRaises \/ Crash
  BY <1>11, <1>t DEF JudgeHealthRaises, Crash, Abandon, EndRun, TypeOK, Places, Outcomes
<1>12. CASE Environment
  BY <1>12, <1>t DEF Environment, runVars, TypeOK
<1>. QED BY <1>1, <1>2, <1>3, <1>4, <1>5, <1>6, <1>7, <1>8, <1>9, <1>10, <1>11, <1>12
         DEF Next, Progress, Generation, Evaluation

LEMMA PlaceStep ==
  ASSUME IInv, Next
  PROVE  PlaceInPlan'
<1>t. /\ N \in Nat /\ next \in 1..(N + 1) /\ done \in SUBSET (1..N) /\ shutdown \in BOOLEAN
      /\ PlaceInPlan
  BY Plan DEF TypeOK, IInv
<1>. USE <1>t DEF PlaceInPlan, WithServer, InGeneration
<1>1. CASE Launch
  BY <1>1 DEF Launch
<1>2. CASE BuildContexts \/ GeneratorHealthy \/ GenerationRaises \/ FinishMetrics
           \/ JudgeHealthy \/ FinishJudge \/ JudgeRaises
  BY <1>2 DEF BuildContexts, GeneratorHealthy, GenerationRaises, FinishMetrics,
     JudgeHealthy, FinishJudge, JudgeRaises
<1>3. CASE RaiseWithoutServer \/ StartRaises \/ RefuseGenerator \/ RefuseJudge \/ Aggregate
  BY <1>3 DEF RaiseWithoutServer, StartRaises, RefuseGenerator, RefuseJudge, Aggregate, EndRun
<1>4. CASE RequestShutdown \/ InterruptGeneration
  BY <1>4 DEF RequestShutdown, InterruptGeneration, SetShutdown
<1>5. CASE LeaveLoop
  BY <1>5 DEF LeaveLoop, AfterLoop, EndRun
<1>6. ASSUME NEW p \in Pids, StartGenerator(p) \/ StartJudge(p) PROVE PlaceInPlan'
  <2>1. CASE StartGenerator(p)
    <3>1. next <= N
      BY <2>1 DEF StartGenerator, LoopEnds
    <3>. QED BY <2>1, <3>1 DEF StartGenerator
  <2>2. CASE StartJudge(p)
    BY <2>2 DEF StartJudge
  <2>. QED BY <1>6, <2>1, <2>2
<1>7. ASSUME NEW gone \in BOOLEAN, GeneratorTimeout(gone) PROVE PlaceInPlan'
  BY <1>7 DEF GeneratorTimeout
<1>8. CASE FinishGeneration
  BY <1>8 DEF FinishGeneration
<1>9. ASSUME NEW gone \in BOOLEAN, StopGenerator(gone) PROVE PlaceInPlan'
  <2>1. CASE shutdown
    BY <1>9, <2>1 DEF StopGenerator, EndRun
  <2>2. CASE ~shutdown
    <3>1. /\ pc = "stopping" /\ pc' = "select" /\ next' = next + 1
          /\ done' = done /\ shutdown' = shutdown
      BY <1>9, <2>2 DEF StopGenerator
    <3>. QED BY <3>1
  <2>. QED BY <2>1, <2>2
<1>10. ASSUME NEW gone \in BOOLEAN,
              StopAndRaise(gone) \/ JudgeTimeout(gone) \/ StopJudge(gone)
       PROVE  PlaceInPlan'
  BY <1>10 DEF StopAndRaise, JudgeTimeout, StopJudge, EndRun
<1>11. CASE JudgeHealthRaises \/ Crash
  BY <1>11 DEF JudgeHealthRaises, Crash, EndRun
<1>12. CASE Environment
  BY <1>12 DEF Environment, runVars
<1>. QED BY <1>1, <1>2, <1>3, <1>4, <1>5, <1>6, <1>7, <1>8, <1>9, <1>10, <1>11, <1>12
         DEF Next, Progress, Generation, Evaluation

-----------------------------------------------------------------------------
(* The inductive invariant: the server in hand and those that are not.     *)

LEMMA HandleStep ==
  ASSUME IInv, Next
  PROVE  HandleInHand'
<1>t. /\ HandleInHand /\ PlaceInPlan /\ ServersTypeOK /\ N \in Nat
      /\ handle \in Pids \cup {NoPid} /\ NoPid \notin Pids /\ next \in 1..(N + 1)
  BY Plan, ServersAssumption DEF TypeOK, IInv
<1>m. /\ \A i \in 1..N : Generators[i] \in Models
      /\ Judge \in Models
  BY Plan, ExperimentAssumption
<1>. USE DEF HandleInHand, WithServer, InGeneration
<1>1. CASE Launch
  BY <1>1, <1>t DEF Launch
<1>2. CASE BuildContexts \/ GeneratorHealthy \/ GenerationRaises \/ FinishMetrics
           \/ JudgeHealthy \/ FinishJudge \/ JudgeRaises \/ FinishGeneration
  BY <1>2, <1>t DEF BuildContexts, GeneratorHealthy, GenerationRaises, FinishMetrics,
     JudgeHealthy, FinishJudge, JudgeRaises, FinishGeneration, serverVars
<1>3. CASE RaiseWithoutServer \/ StartRaises \/ RefuseGenerator \/ RefuseJudge \/ Aggregate
  BY <1>3, <1>t DEF RaiseWithoutServer, StartRaises, RefuseGenerator, RefuseJudge, Aggregate, EndRun
<1>4. CASE RequestShutdown \/ InterruptGeneration
  BY <1>4, <1>t DEF RequestShutdown, InterruptGeneration, serverVars
<1>5. CASE LeaveLoop
  BY <1>5, <1>t DEF LeaveLoop, AfterLoop, EndRun
<1>6. ASSUME NEW p \in Pids, StartGenerator(p) PROVE HandleInHand'
  <2>1. next \in 1..N
    BY <1>6, <1>t DEF StartGenerator, LoopEnds
  <2>2. Start(Generators[next], p) /\ Generators[next] \in Models
    BY <1>6, <1>m, <2>1 DEF StartGenerator
  <2>3. /\ p \in tracked'
        /\ proc'[p] = [state |-> "loading", model |-> Generators[next], killed |-> FALSE]
    <3>. HIDE DEF HandleInHand
    <3>. QED BY <1>t, <2>2, StartStep
  <2>. QED BY <1>6, <1>t, <2>3 DEF StartGenerator
<1>7. ASSUME NEW p \in Pids, StartJudge(p) PROVE HandleInHand'
  <2>1. /\ p \in tracked'
        /\ proc'[p] = [state |-> "loading", model |-> Judge, killed |-> FALSE]
    <3>. HIDE DEF HandleInHand
    <3>. QED BY <1>7, <1>t, <1>m, StartStep DEF StartJudge
  <2>. QED BY <1>7, <1>t, <2>1 DEF StartJudge
<1>8. ASSUME NEW gone \in BOOLEAN,
             GeneratorTimeout(gone) \/ StopGenerator(gone) \/ StopAndRaise(gone)
               \/ JudgeTimeout(gone) \/ StopJudge(gone)
      PROVE  HandleInHand'
  <2>1. handle' = NoPid /\ pc' \in {"select", "down", "aggregating"}
    BY <1>8 DEF GeneratorTimeout, StopGenerator, StopAndRaise, JudgeTimeout, StopJudge, EndRun
  <2>. QED BY <2>1
<1>9. CASE JudgeHealthRaises \/ Crash
  BY <1>9 DEF JudgeHealthRaises, Crash, Abandon, EndRun
<1>10. CASE Environment
  <2>1. /\ tracked' = tracked /\ \A q \in tracked : proc'[q].model = proc[q].model
    BY <1>10, <1>t, EnvironmentStep
  <2>2. UNCHANGED runVars
    BY <1>10 DEF Environment
  <2>. QED BY <1>t, <2>1, <2>2 DEF runVars
<1>. QED BY <1>1, <1>2, <1>3, <1>4, <1>5, <1>6, <1>7, <1>8, <1>9, <1>10
         DEF Next, Progress, Generation, Evaluation

LEMMA StrayStep ==
  ASSUME IInv, Next
  PROVE  NoStrayServer'
<1>t. /\ NoStrayServer /\ HandleInHand /\ PlaceInPlan /\ ServersTypeOK /\ N \in Nat
      /\ handle \in Pids \cup {NoPid} /\ NoPid \notin Pids /\ next \in 1..(N + 1)
      /\ tracked \in SUBSET Pids
  BY Plan, ServersAssumption DEF TypeOK, IInv, ServersTypeOK
<1>m. /\ \A i \in 1..N : Generators[i] \in Models
      /\ Judge \in Models
  BY Plan, ExperimentAssumption
<1>n. pc \notin WithServer =>
        /\ handle = NoPid /\ tracked = {}
        /\ \A q \in Pids : (Alive(q) /\ ~proc[q].killed) => q \in orphans
  BY <1>t DEF HandleInHand, NoStrayServer
<1>1. ASSUME UNCHANGED <<serverVars, handle, orphans>>, pc' = "down" => pc \notin WithServer
      PROVE  NoStrayServer'
  BY <1>1, <1>t, <1>n DEF serverVars, NoStrayServer, Alive, WithServer
<1>2. ASSUME NEW p \in Pids, NEW m \in Models, Start(m, p), pc \notin WithServer, handle' = p,
             orphans' = orphans, pc' # "down"
      PROVE  NoStrayServer'
  <2>1. \A q \in Pids \ {p} : proc'[q] = proc[q] \/ proc'[q] = NoProcess
    BY <1>2, <1>t, StartStep
  <2>2. tracked' \subseteq tracked \cup {p}
    BY <1>2, <1>t, StartStep
  <2>. QED BY <1>2, <1>n, <2>1, <2>2 DEF NoStrayServer, Alive, NoProcess
<1>3. ASSUME NEW gone \in BOOLEAN, End(handle, gone), handle \in Pids, handle' = NoPid,
             orphans' = orphans
      PROVE  NoStrayServer'
  <2>1. /\ proc'[handle] = NoProcess \/ proc'[handle].killed
        /\ \A q \in Pids \ {handle} : proc'[q] = proc[q]
        /\ tracked' = tracked \ {handle}
    BY <1>3, <1>t, EndStep
  <2>2. ASSUME NEW q \in Pids, Alive(q)', ~proc'[q].killed, q \notin orphans
        PROVE  FALSE
    BY <1>t, <2>1, <2>2 DEF NoStrayServer, Alive, NoProcess
  <2>. QED BY <1>3, <1>t, <2>1, <2>2 DEF NoStrayServer, Alive
<1>4. CASE Abandon
  BY <1>4 DEF Abandon, NoStrayServer, Alive, NoProcess
<1>5. CASE Environment
  <2>1. /\ tracked' = tracked
        /\ \A q \in Pids : Alive(q)' => Alive(q) /\ proc'[q].killed = proc[q].killed
        /\ \A q \in orphans \ orphans' : ~Alive(q)'
    BY <1>5, <1>t, EnvironmentStep
  <2>2. UNCHANGED runVars
    BY <1>5 DEF Environment
  <2>3. ASSUME NEW q \in Pids, Alive(q)', ~proc'[q].killed, q \notin orphans'
        PROVE  q = handle /\ pc # "down"
    BY <1>t, <2>1, <2>3 DEF NoStrayServer
  <2>. QED BY <1>t, <2>1, <2>2, <2>3 DEF runVars, NoStrayServer, Alive
<1>6. CASE Launch \/ BuildContexts \/ GeneratorHealthy \/ GenerationRaises \/ FinishMetrics
           \/ JudgeHealthy \/ FinishJudge \/ JudgeRaises \/ FinishGeneration
           \/ RequestShutdown \/ InterruptGeneration
  <2>1. UNCHANGED <<serverVars, handle, orphans>> /\ (pc' = "down" => pc = "down")
    BY <1>6 DEF Launch, BuildContexts, GeneratorHealthy, GenerationRaises, FinishMetrics,
       JudgeHealthy, FinishJudge, JudgeRaises, FinishGeneration, RequestShutdown, InterruptGeneration
  <2>. QED BY <1>1, <2>1 DEF WithServer
<1>7. CASE RaiseWithoutServer \/ StartRaises \/ RefuseGenerator \/ RefuseJudge \/ Aggregate \/ LeaveLoop
  <2>1. UNCHANGED <<serverVars, handle, orphans>> /\ pc \notin WithServer
    BY <1>7 DEF RaiseWithoutServer, StartRaises, RefuseGenerator, RefuseJudge, Aggregate, LeaveLoop,
       WithServer
  <2>. QED BY <1>1, <2>1
<1>8. ASSUME NEW p \in Pids, StartGenerator(p) PROVE NoStrayServer'
  <2>1. Generators[next] \in Models
    BY <1>8, <1>t, <1>m DEF StartGenerator, LoopEnds
  <2>. QED BY <1>2, <1>8, <2>1 DEF StartGenerator, WithServer
<1>9. ASSUME NEW p \in Pids, StartJudge(p) PROVE NoStrayServer'
  BY <1>2, <1>9, <1>m DEF StartJudge, WithServer
<1>10. ASSUME NEW gone \in BOOLEAN,
             GeneratorTimeout(gone) \/ StopGenerator(gone) \/ StopAndRaise(gone)
               \/ JudgeTimeout(gone) \/ StopJudge(gone)
       PROVE  NoStrayServer'
  <2>1. pc \in WithServer /\ End(handle, gone) /\ handle' = NoPid /\ orphans' = orphans
    BY <1>10 DEF GeneratorTimeout, StopGenerator, StopAndRaise, JudgeTimeout, StopJudge, WithServer
  <2>. QED BY <1>3, <2>1, HandleType
<1>11. CASE JudgeHealthRaises \/ Crash
  BY <1>3, <1>4, <1>11, HandleType DEF JudgeHealthRaises, Crash, WithServer
<1>. QED BY <1>5, <1>6, <1>7, <1>8, <1>9, <1>10, <1>11 DEF Next, Progress, Generation, Evaluation

-----------------------------------------------------------------------------
(* The inductive invariant: the accounts of the waves and the barrier.     *)

LEMMA ReportStep ==
  ASSUME IInv, Next
  PROVE  ReportAccounts'
<1>t. /\ ReportAccounts /\ PlaceInPlan /\ N \in Nat /\ next \in 1..(N + 1)
      /\ done \in SUBSET (1..N) /\ failed \in SUBSET Waves /\ shutdown \in BOOLEAN
  BY Plan DEF TypeOK, IInv
<1>. USE DEF ReportAccounts, InJudge
<1>1. CASE Launch
  BY <1>1, <1>t DEF Launch
<1>2. ASSUME UNCHANGED <<next, done, failed>>,
             pc' \in {"metrics"} \cup InJudge => pc \in {"metrics"} \cup InJudge \/ next = N + 1
      PROVE  ReportAccounts'
  BY <1>2, <1>t
<1>3. CASE BuildContexts \/ GeneratorHealthy \/ GenerationRaises \/ FinishMetrics
           \/ JudgeHealthy \/ FinishJudge \/ JudgeRaises \/ RequestShutdown \/ InterruptGeneration
  BY <1>2, <1>3 DEF BuildContexts, GeneratorHealthy, GenerationRaises, FinishMetrics,
     JudgeHealthy, FinishJudge, JudgeRaises, RequestShutdown, InterruptGeneration
<1>4. CASE RaiseWithoutServer \/ StartRaises \/ RefuseGenerator \/ RefuseJudge \/ Aggregate
           \/ JudgeHealthRaises \/ Crash
  BY <1>2, <1>4 DEF RaiseWithoutServer, StartRaises, RefuseGenerator, RefuseJudge, Aggregate,
     JudgeHealthRaises, Crash, EndRun
<1>5. CASE LeaveLoop
  <2>1. UNCHANGED <<next, done, failed>> /\ (pc' = "metrics" => next > N) /\ pc' \in {"down", "metrics"}
    BY <1>5 DEF LeaveLoop, LoopEnds, AfterLoop, EndRun
  <2>. QED BY <1>2, <1>t, <2>1
<1>6. ASSUME NEW p \in Pids, StartGenerator(p) \/ StartJudge(p) PROVE ReportAccounts'
  BY <1>2, <1>6 DEF StartGenerator, StartJudge
<1>7. ASSUME NEW gone \in BOOLEAN, GeneratorTimeout(gone) PROVE ReportAccounts'
  <2>1. /\ next \in 1..N /\ next \notin done
        /\ next' = next + 1 /\ done' = done /\ failed' = failed \cup {Wave(next)} /\ pc' = "select"
    BY <1>7, <1>t DEF GeneratorTimeout, PlaceInPlan, WithServer, InGeneration
  <2>2. \A i \in 1..(next' - 1) : i \in done' \/ Wave(i) \in failed'
    BY <1>t, <2>1
  <2>3. ASSUME NEW w \in failed'
        PROVE  \E i \in 1..(next' - 1) : Wave(i) = w /\ i \notin done'
    BY <1>t, <2>1
  <2>. QED BY <2>1, <2>2, <2>3
<1>8. CASE FinishGeneration
  <2>1. /\ next \in 1..N /\ next' = next /\ done' = done \cup {next} /\ failed' = failed
        /\ pc' = "stopping"
    BY <1>8, <1>t DEF FinishGeneration, PlaceInPlan, WithServer, InGeneration
  <2>2. \A i \in 1..(next - 1) : i # next
    BY <2>1
  <2>. QED BY <1>t, <2>1, <2>2
<1>9. ASSUME NEW gone \in BOOLEAN, StopGenerator(gone) PROVE ReportAccounts'
  <2>1. CASE shutdown
    BY <1>2, <1>9, <2>1 DEF StopGenerator, EndRun
  <2>2. CASE ~shutdown
    <3>1. /\ next \in 1..N /\ next \in done
          /\ next' = next + 1 /\ done' = done /\ failed' = failed /\ pc' = "select"
      BY <1>9, <1>t, <2>2 DEF StopGenerator, PlaceInPlan, WithServer, InGeneration
    <3>2. \A i \in 1..(next' - 1) : i \in 1..(next - 1) \/ i = next
      BY <1>t, <3>1
    <3>3. ASSUME NEW w \in failed'
          PROVE  \E i \in 1..(next' - 1) : Wave(i) = w /\ i \notin done'
      BY <1>t, <3>1, <3>3
    <3>. QED BY <1>t, <3>1, <3>2, <3>3
  <2>. QED BY <2>1, <2>2
<1>10. ASSUME NEW gone \in BOOLEAN,
              StopAndRaise(gone) \/ JudgeTimeout(gone) \/ StopJudge(gone)
       PROVE  ReportAccounts'
  BY <1>2, <1>10 DEF StopAndRaise, JudgeTimeout, StopJudge, EndRun
<1>11. CASE Environment
  BY <1>11, <1>2 DEF Environment, runVars
<1>. QED BY <1>1, <1>3, <1>4, <1>5, <1>6, <1>7, <1>8, <1>9, <1>10, <1>11
         DEF Next, Progress, Generation, Evaluation

LEMMA BarrierStep ==
  ASSUME IInv, Next
  PROVE  BarrierSet' /\ ShutdownBarrier'
<1>t. /\ BarrierSet /\ ShutdownBarrier /\ PlaceInPlan /\ N \in Nat /\ next \in 1..(N + 1)
      /\ done \in SUBSET (1..N) /\ shutdown \in BOOLEAN /\ barrier \in Nat
  BY Plan DEF TypeOK, IInv
<1>l. \A i \in 1..N : Wave(i) \in Nat /\ Wave(i) <= LastWave
  <2>. SUFFICES ASSUME NEW i \in 1..N PROVE Wave(i) \in Nat /\ Wave(i) <= LastWave
    OBVIOUS
  <2>1. N \in 1..N /\ i <= N /\ N # 0
    BY <1>t
  <2>. QED BY <2>1, WaveOrder, Plan DEF LastWave
<1>. USE DEF BarrierSet, ShutdownBarrier
<1>1. CASE Launch
  <2>1. ~FirstOfWave(1) => FALSE
    BY ExperimentAssumption, Division DEF FirstOfWave
  <2>. QED BY <1>1, <2>1 DEF Launch
\* Nothing the barrier is about changes, but the place.
<1>2. ASSUME UNCHANGED <<next, shutdown, done, barrier>>,
             pc' \in {"select", "starting", "generating", "stopping"} =>
               pc \in {"starting", "generating", "stopping"} /\ pc' # "select"
      PROVE  BarrierSet' /\ ShutdownBarrier'
  BY <1>2, <1>t
<1>3. CASE GeneratorHealthy \/ GenerationRaises \/ FinishMetrics
           \/ JudgeHealthy \/ FinishJudge \/ JudgeRaises
  BY <1>2, <1>3 DEF GeneratorHealthy, GenerationRaises, FinishMetrics,
     JudgeHealthy, FinishJudge, JudgeRaises
<1>4. CASE RaiseWithoutServer \/ StartRaises \/ RefuseGenerator \/ RefuseJudge \/ Aggregate
           \/ JudgeHealthRaises \/ Crash
  BY <1>2, <1>4 DEF RaiseWithoutServer, StartRaises, RefuseGenerator, RefuseJudge, Aggregate,
     JudgeHealthRaises, Crash, EndRun
<1>5. CASE LeaveLoop
  BY <1>2, <1>5 DEF LeaveLoop, AfterLoop, EndRun
<1>6. CASE BuildContexts
  <2>1. next = 1 /\ (1 - 1) % PerWave = 0
    BY <1>6, <1>t, ExperimentAssumption, Division DEF BuildContexts, PlaceInPlan
  <2>. QED BY <1>6, <1>t, <2>1 DEF BuildContexts, FirstOfWave
<1>7. ASSUME NEW p \in Pids, StartGenerator(p) PROVE BarrierSet' /\ ShutdownBarrier'
  <2>1. next \in 1..N /\ (shutdown => ~FirstOfWave(next))
    BY <1>7, <1>t DEF StartGenerator, LoopEnds
  <2>2. Wave(next) <= barrier
    BY <1>7, <1>t, <1>l, <2>1 DEF StartGenerator
  <2>. QED BY <1>7, <1>t, <2>2 DEF StartGenerator
<1>8. ASSUME NEW p \in Pids, StartJudge(p) PROVE BarrierSet' /\ ShutdownBarrier'
  BY <1>2, <1>8 DEF StartJudge
\* A request: the waves done so far are not past the one under way.
<1>9. CASE RequestShutdown \/ InterruptGeneration
  <2>1. \A i \in done : next <= N => Wave(i) <= Wave(next)
    BY <1>t, WaveOrder DEF PlaceInPlan
  <2>2. pc = "contexts" => done = {}
    BY <1>t DEF PlaceInPlan
  <2>3. shutdown' = TRUE /\ pc' # "select" /\ next' = next /\ done' = done
    BY <1>9 DEF RequestShutdown, InterruptGeneration, SetShutdown
  <2>4. \/ barrier' = barrier
        \/ next <= N /\ pc # "contexts" /\ barrier' = Wave(next)
        \/ pc = "contexts" /\ barrier' = 0
    BY <1>9, <1>t DEF RequestShutdown, InterruptGeneration, SetShutdown
  <2>5. pc' = pc \/ (pc = "generating" /\ pc' = "stopping")
    BY <1>9 DEF RequestShutdown, InterruptGeneration
  <2>6. pc' = "contexts" => pc = "contexts"
    BY <2>5
  <2>7. pc \in {"starting", "generating", "stopping"} => next \in 1..N
    BY <1>t DEF PlaceInPlan, WithServer, InGeneration
  <2>8. CASE barrier' = barrier
    BY <1>t, <2>3, <2>5, <2>8
  <2>9. CASE next <= N /\ pc # "contexts" /\ barrier' = Wave(next)
    <3>1. Wave(next) \in Nat
      BY <1>t, <1>l, <2>9
    <3>. QED BY <2>1, <2>3, <2>9, <3>1
  <2>10. CASE pc = "contexts" /\ barrier' = 0
    BY <2>2, <2>3, <2>5, <2>10
  <2>. QED BY <2>4, <2>8, <2>9, <2>10
<1>10. ASSUME NEW gone \in BOOLEAN, GeneratorTimeout(gone) PROVE BarrierSet' /\ ShutdownBarrier'
  <2>1. /\ next \in 1..N /\ Wave(next) <= barrier
        /\ next' = next + 1 /\ pc' = "select" /\ UNCHANGED <<shutdown, done, barrier>>
    BY <1>10, <1>t DEF GeneratorTimeout, PlaceInPlan, WithServer, InGeneration
  <2>2. (next + 1 <= N /\ ~FirstOfWave(next + 1)) => Wave(next + 1) <= barrier
    BY <2>1, SameWave
  <2>. QED BY <1>t, <2>1, <2>2
<1>11. CASE FinishGeneration
  <2>1. /\ Wave(next) <= barrier /\ done' = done \cup {next} /\ pc' = "stopping"
        /\ UNCHANGED <<next, shutdown, barrier>>
    BY <1>11, <1>t DEF FinishGeneration
  <2>. QED BY <1>t, <2>1
<1>12. ASSUME NEW gone \in BOOLEAN, StopGenerator(gone) PROVE BarrierSet' /\ ShutdownBarrier'
  <2>1. CASE shutdown
    BY <1>2, <1>12, <2>1 DEF StopGenerator, EndRun
  <2>2. CASE ~shutdown
    <3>1. /\ next' = next + 1 /\ pc' = "select" /\ UNCHANGED <<shutdown, done, barrier>>
          /\ barrier = LastWave /\ next + 1 \in 1..(N + 1)
      BY <1>12, <1>t, <2>2 DEF StopGenerator, PlaceInPlan, WithServer, InGeneration
    <3>2. next + 1 <= N => Wave(next + 1) <= barrier
      BY <1>t, <1>l, <3>1
    <3>. QED BY <1>t, <3>1, <3>2
  <2>. QED BY <2>1, <2>2
<1>13. ASSUME NEW gone \in BOOLEAN,
              StopAndRaise(gone) \/ JudgeTimeout(gone) \/ StopJudge(gone)
       PROVE  BarrierSet' /\ ShutdownBarrier'
  BY <1>2, <1>13 DEF StopAndRaise, JudgeTimeout, StopJudge, EndRun
<1>14. CASE Environment
  <2>1. UNCHANGED runVars
    BY <1>14 DEF Environment
  <2>. QED BY <1>t, <2>1 DEF runVars
<1>. QED BY <1>1, <1>3, <1>4, <1>5, <1>6, <1>7, <1>8, <1>9, <1>10, <1>11, <1>12, <1>13, <1>14
         DEF Next, Progress, Generation, Evaluation

-----------------------------------------------------------------------------
(* The theorems.                                                           *)

\* The parts of the inductive invariant hold together in every behaviour.
THEOREM Invariant == Spec => []IInv
<1>1. ASSUME IInv, Next PROVE IInv'
  BY <1>1, RunTypeStep, PlaceStep, HandleStep, BarrierStep, StrayStep, ReportStep DEF IInv
<1>2. IInv /\ UNCHANGED vars => IInv'
  <2>. SUFFICES ASSUME IInv, UNCHANGED vars PROVE IInv'
    OBVIOUS
  <2>. USE DEF vars, serverVars, runVars
  <2>1. TypeOK' /\ PlaceInPlan'
    BY DEF IInv, TypeOK, ServersTypeOK, PlaceInPlan
  <2>2. HandleInHand' /\ BarrierSet'
    BY DEF IInv, HandleInHand, BarrierSet
  <2>3. NoStrayServer' /\ ReportAccounts' /\ ShutdownBarrier'
    BY DEF IInv, NoStrayServer, Alive, ReportAccounts, ShutdownBarrier
  <2>. QED BY <2>1, <2>2, <2>3 DEF IInv
<1>. QED BY <1>1, <1>2, InitInvariant, PTL DEF Spec

\* Every variable of the orchestrator and of its servers keeps its type.
THEOREM TypeCorrect == Spec => []TypeOK
BY Invariant, PTL DEF IInv

\* One server at a time is up on the orchestrator's account.
THEOREM NoServerStrays == Spec => []NoStrayServer
BY Invariant, PTL DEF IInv

\* The failed waves of the report and the generators done account for all of
\* the generators behind the loop.
THEOREM ReportAlwaysAccounts == Spec => []ReportAccounts
BY Invariant, PTL DEF IInv

\* No wave begins after the one in which the shutdown was requested.
THEOREM ShutdownStopsTheWaves == Spec => []ShutdownBarrier
BY Invariant, PTL DEF IInv

\* Only a crash or the start of the judge leaves a server behind: what is up
\* besides the orphans is the server in hand, and when it is abandoned short
\* of a crash it is the judge's.
THEOREM GeneratorsAreStopped == Spec => GeneratorNeverLeft
<1>. DEFINE Kept == \A p \in orphans' \ orphans : outcome' = "crash" \/ proc'[p].model = Judge
<1>1. ASSUME IInv, Next PROVE Kept
  <2>1. CASE Crash
    BY <2>1 DEF Crash, EndRun
  <2>2. CASE JudgeHealthRaises
    <3>1. CASE Abandon
      <4>. SUFFICES ASSUME NEW p \in orphans' \ orphans PROVE proc'[p].model = Judge
        OBVIOUS
      <4>1. p \in Pids /\ Alive(p) /\ ~proc[p].killed /\ p \notin orphans
        BY <3>1 DEF Abandon
      <4>2. p = handle
        BY <1>1, <4>1 DEF IInv, NoStrayServer
      <4>3. proc[p].model = Judge
        BY <1>1, <2>2, <4>2 DEF IInv, HandleInHand, JudgeHealthRaises, WithServer, InGeneration
      <4>. QED BY <3>1, <4>1, <4>3 DEF Abandon
    <3>. QED BY <2>2, <3>1 DEF JudgeHealthRaises
  <2>3. CASE Environment
    BY <2>3 DEF Environment
  <2>4. CASE UNCHANGED orphans
    BY <2>4
  <2>. QED BY <1>1, <2>1, <2>2, <2>3, <2>4
           DEF Next, Launch, Progress, Generation, Evaluation, RaiseWithoutServer, StartRaises,
               RequestShutdown, BuildContexts, LeaveLoop, StartGenerator, RefuseGenerator,
               GeneratorHealthy, GeneratorTimeout, FinishGeneration, InterruptGeneration,
               GenerationRaises, StopGenerator, StopAndRaise, FinishMetrics, StartJudge, RefuseJudge,
               JudgeHealthy, JudgeTimeout, FinishJudge, JudgeRaises, StopJudge, Aggregate
<1>2. IInv /\ [Next]_vars => [Kept]_vars
  BY <1>1
<1>. QED BY <1>2, Invariant, PTL DEF Spec, GeneratorNeverLeft

\* Every failure of a run is one the abstract experiment allows.
LEMMA LeavingIsAStage ==
  ASSUME TypeOK, pc # "down", NEW how \in {"error", "switch_error", "crash"}, EndRun(how)
  PROVE  Experiment!Next
<1>1. StageOf(pc) # "down" /\ StageOf(pc') = "down"
  BY DEF TypeOK, Places, InGeneration, InJudge, StageOf, EndRun
<1>2. ExitOf(outcome') = "failed"
  BY DEF ExitOf, EndRun
<1>. QED BY <1>1, <1>2 DEF Experiment!Next, Experiment!Fail, Experiment!Leave, StageOf, ExitOf

\* The orchestrator with its servers, signals and failures goes through the
\* stages of an experiment in their order.
THEOREM OrchestratorImplementsStages == Spec => ImplementsStages
<1>1. Init => Experiment!Init
  BY DEF Init, StageOf, ExitOf, InGeneration, InJudge, Experiment!Init
<1>2. IInv /\ [Next]_vars => [Experiment!Next]_<<StageOf(pc), ExitOf(outcome)>>
  <2>. SUFFICES ASSUME IInv, [Next]_vars
                PROVE  Experiment!Next \/ (StageOf(pc)' = StageOf(pc) /\ ExitOf(outcome)' = ExitOf(outcome))
    OBVIOUS
  <2>t. TypeOK
    BY DEF IInv
  <2>. USE DEF StageOf, InGeneration, InJudge
  <2>1. CASE Launch
    BY <2>1 DEF Launch, ExitOf, Experiment!Next, Experiment!Launch
  <2>2. CASE RaiseWithoutServer \/ StartRaises \/ RefuseGenerator \/ RefuseJudge
             \/ JudgeHealthRaises \/ Crash
             \/ \E gone \in BOOLEAN : StopAndRaise(gone) \/ JudgeTimeout(gone)
    BY <2>2, <2>t, LeavingIsAStage DEF RaiseWithoutServer, StartRaises, RefuseGenerator, RefuseJudge,
       JudgeHealthRaises, Crash, StopAndRaise, JudgeTimeout
  <2>3. ASSUME LeaveLoop \/ \E gone \in BOOLEAN : StopGenerator(gone), shutdown
        PROVE  Experiment!Next
    BY <2>3 DEF LeaveLoop, AfterLoop, StopGenerator, EndRun, ExitOf, Experiment!Next,
       Experiment!StopEarly, Experiment!Leave
  <2>4. ASSUME \E gone \in BOOLEAN : StopGenerator(gone), ~shutdown
        PROVE  pc = "stopping" /\ pc' = "select" /\ outcome' = outcome
    BY <2>4 DEF StopGenerator
  <2>5. ASSUME LeaveLoop, ~shutdown PROVE Experiment!Next
    BY <2>5 DEF LeaveLoop, AfterLoop, ExitOf, Experiment!Next, Experiment!NextPass
  <2>6. CASE FinishMetrics
    BY <2>6 DEF FinishMetrics, ExitOf, Experiment!Next, Experiment!NextPass
  <2>7. CASE Aggregate
    BY <2>7 DEF Aggregate, EndRun, ExitOf, Experiment!Next, Experiment!Complete, Experiment!Leave
  <2>8. CASE BuildContexts \/ GeneratorHealthy \/ FinishGeneration \/ InterruptGeneration
             \/ GenerationRaises \/ JudgeHealthy \/ FinishJudge \/ JudgeRaises
             \/ (\E p \in Pids : StartGenerator(p) \/ StartJudge(p))
             \/ (\E gone \in BOOLEAN : GeneratorTimeout(gone) \/ StopJudge(gone))
    BY <2>8 DEF BuildContexts, GeneratorHealthy, FinishGeneration, InterruptGeneration,
       GenerationRaises, JudgeHealthy, FinishJudge, JudgeRaises, StartGenerator, StartJudge,
       GeneratorTimeout, StopJudge, ExitOf
  <2>9. CASE RequestShutdown \/ Environment \/ UNCHANGED vars
    BY <2>9 DEF RequestShutdown, Environment, vars, runVars, ExitOf
  <2>. QED BY <2>1, <2>2, <2>3, <2>4, <2>5, <2>6, <2>7, <2>8, <2>9
           DEF Next, Progress, Generation, Evaluation, ExitOf
<1>. QED BY <1>1, <1>2, Invariant, PTL DEF Spec, ImplementsStages, Experiment!Spec

=============================================================================
