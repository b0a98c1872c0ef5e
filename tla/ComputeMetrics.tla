--------------------------- MODULE ComputeMetrics ---------------------------
(***************************************************************************)
(* ComputeMetricsUseCase: the rows of a round without a final score (all   *)
(* of them with force) are taken in the order of their ids; each is given  *)
(* its Layer 1 metrics, its rubric and its auxiliary metrics, through      *)
(* adapters that retry, and written back whole.  A row that fails is       *)
(* noted and the next one is taken.  The passes of a run make their calls  *)
(* through the same module between two executions.                         *)
(***************************************************************************)
EXTENDS ServiceCalls, FiniteSets

CONSTANTS
  Cells,       \* the cells of the round, numbered in the order of their row ids
  InitialRows  \* rows found in the store: what passes and earlier runs leave

ASSUME RoundAssumption ==
  /\ Cells \subseteq Nat /\ IsFiniteSet(Cells)
  /\ InitialRows \subseteq {r \in Row : Whole(r) => Coherent(r)}

VARIABLES
  store,    \* [Cells -> Row]
  pc,       \* where the use case is
  before,   \* the rows as they were loaded
  force,    \* the force of the execution
  todo,     \* rows to be taken
  hand,     \* the row in hand, if any
  layer1,   \* Layer 1 metrics of the row in hand
  tally     \* counters of the report

useCaseVars == <<store, pc, before, force, todo, hand, layer1, tally>>
vars == <<callVars, useCaseVars>>

NoTally == [processed |-> 0, skipped |-> 0, nan |-> 0, failed |-> {}]
NoRows == [c \in Cells |-> AbsentRow]

TypeOK ==
  /\ CallTypeOK
  /\ store \in [Cells -> Row]
  /\ pc \in {"idle", "row", "layer1", "rubric", "reported"}
  /\ before \in [Cells -> Row]
  /\ force \in BOOLEAN
  /\ todo \in SUBSET Cells
  /\ hand \in SUBSET Cells
  /\ layer1 \in Layer1Vector
  /\ tally \in [processed : Nat, skipped : Nat, nan : Nat, failed : SUBSET Cells]

Init ==
  /\ CallInit
  /\ store \in [Cells -> InitialRows]
  /\ pc = "idle"
  /\ before = NoRows
  /\ force = FALSE
  /\ todo = {}
  /\ hand = {}
  /\ layer1 = AllNaNLayer1
  /\ tally = NoTally

-----------------------------------------------------------------------------
\* Variant of NeedsProcessing: a row is tried again for any metric it lacks.
NeedsAnyMetric(r, f) == f \/ \E m \in Metrics : r.metrics[m] = NaN

NeedsProcessing(r, f) == f \/ r.final = NaN

\* The round is loaded, which raises when a file cannot be read.
Execute(f) ==
  /\ pc = "idle" /\ status = "idle"
  /\ \A c \in Cells : store[c].file # "torn"
  /\ LET found == {c \in Cells : Whole(store[c])}
         work == {c \in found : NeedsProcessing(store[c], f)}
     IN  /\ todo' = work
         /\ tally' = [NoTally EXCEPT !.skipped = Cardinality(found \ work)]
         /\ pc' = IF work = {} THEN "reported" ELSE "row"
  /\ before' = store
  /\ force' = f
  /\ UNCHANGED <<callVars, store, hand, layer1>>

\* The next row in the order of the ids is taken; Layer 1 is asked for.
StartRow(c) ==
  /\ pc = "row"
  /\ c \in todo
  /\ \A d \in todo : c <= d
  /\ todo' = todo \ {c}
  /\ hand' = {c}
  /\ Ask("layer1")
  /\ pc' = "layer1"
  /\ UNCHANGED <<store, before, force, layer1, tally>>

\* The vector a call of score returns.
Vector ==
  IF status = "values"
  THEN [m \in Layer1 |-> got[CHOOSE i \in 1..Fields : FieldOrder[i] = m].is]
  ELSE AllNaNLayer1

TakeLayer1 ==
  /\ pc = "layer1"
  /\ status \in {"values", "sentinel"}
  /\ layer1' = Vector
  /\ Dial("rubric")
  /\ pc' = "rubric"
  /\ UNCHANGED <<store, before, force, todo, hand, tally>>

RubricScore == IF status = "values" THEN got[1].is ELSE NaN

\* The row in hand is done with; the report comes after the last one.
NextRow ==
  /\ hand' = {}
  /\ pc' = IF todo = {} THEN "reported" ELSE "row"
  /\ layer1' = AllNaNLayer1
  /\ HangUp
  /\ UNCHANGED <<before, force, todo>>

\* The rubric came: the auxiliary metrics never fail and count for nothing, the
\* vector is scored and written with the judge's regime.
Persist(c) ==
  /\ pc = "rubric"
  /\ c \in hand
  /\ status \in {"values", "sentinel"}
  /\ LET mv == WithRubric(Layer1Only(layer1), RubricScore)
     IN  /\ store' = [store EXCEPT ![c] = UpdateMetrics(@, mv, FinalOf(mv), "judge", None, None)]
         /\ tally' = IF FinalOf(mv) = NaN THEN [tally EXCEPT !.nan = @ + 1]
                                          ELSE [tally EXCEPT !.processed = @ + 1]
  /\ NextRow

\* Variant of RowFails: the row in hand is not given up.
RowFailsAgain(c) ==
  /\ pc \in {"layer1", "rubric"}
  /\ c \in hand
  /\ status = "raised"
  /\ tally' = [tally EXCEPT !.failed = @ \cup {c}]
  /\ todo' = todo \cup {c}
  /\ hand' = {}
  /\ pc' = "row"
  /\ layer1' = AllNaNLayer1
  /\ HangUp
  /\ UNCHANGED <<store, before, force>>

\* Variant of RowFails: the metrics there are get written.
RowFailsWritten(c) ==
  /\ pc \in {"layer1", "rubric"}
  /\ c \in hand
  /\ status = "raised"
  /\ tally' = [tally EXCEPT !.failed = @ \cup {c}]
  /\ store' = [store EXCEPT ![c] = UpdateMetrics(@, Layer1Only(layer1), NaN, "judge", None, None)]
  /\ NextRow

\* What the adapters do not retry is caught here, for this row only.
RowFails(c) ==
  /\ pc \in {"layer1", "rubric"}
  /\ c \in hand
  /\ status = "raised"
  /\ tally' = [tally EXCEPT !.failed = @ \cup {c}]
  /\ NextRow
  /\ UNCHANGED store

\* So is a write that fails, or a value FinalScore does not take.
WriteFails(c, left) ==
  /\ pc = "rubric"
  /\ c \in hand
  /\ status \in {"values", "sentinel"}
  /\ tally' = [tally EXCEPT !.failed = @ \cup {c}]
  /\ store' = [store EXCEPT ![c] = left]
  /\ NextRow

\* The report is returned.
Report ==
  /\ pc = "reported"
  /\ pc' = "idle"
  /\ before' = NoRows
  /\ force' = FALSE
  /\ tally' = NoTally
  /\ UNCHANGED <<callVars, store, todo, hand, layer1>>

\* The process is killed; a row it was writing is torn.
Kill ==
  /\ pc # "idle"
  /\ \/ UNCHANGED store
     \/ /\ pc = "rubric" /\ status \in {"values", "sentinel"}
        /\ \E c \in hand : store' = [store EXCEPT ![c] = TornRow]
  /\ pc' = "idle"
  /\ before' = NoRows
  /\ force' = FALSE
  /\ todo' = {}
  /\ hand' = {}
  /\ layer1' = AllNaNLayer1
  /\ tally' = NoTally
  /\ HangUp

\* What a pass of a run asks for, it lacks.
Lacks(c, r) ==
  CASE c = "generate" -> r.file = "absent"
    [] c = "batch" -> Answered(r) /\ Unmeasured(r)
    [] OTHER -> Answered(r) /\ Unjudged(r)

\* A pass of a run asks for something and takes what it gets; to load the round,
\* the passes over rows need every file to be readable.
PassAsks(c) ==
  /\ pc = "idle"
  /\ \E d \in Cells : Lacks(c, store[d])
  /\ c = "generate" \/ \A d \in Cells : store[d].file # "torn"
  /\ Ask(c)
  /\ UNCHANGED useCaseVars

PassTakes ==
  /\ pc = "idle"
  /\ status \in {"values", "sentinel", "raised"}
  /\ HangUp
  /\ UNCHANGED useCaseVars

Call == CallStep /\ UNCHANGED useCaseVars

-----------------------------------------------------------------------------
UseCase ==
  \/ \E c \in Cells : StartRow(c) \/ Persist(c) \/ RowFails(c)
  \/ TakeLayer1 \/ Report

Progress == UseCase \/ PassTakes \/ Call

Next ==
  \/ \E f \in BOOLEAN : Execute(f)
  \/ \E c \in {"generate", "batch", "judge"} : PassAsks(c)
  \/ Progress
  \/ \E c \in Cells : \E left \in FailedWrite(store[c]) : WriteFails(c, left)
  \/ Kill

Spec == Init /\ [][Next]_vars

\* The loop of coroutines goes on; the servers answer in one way or another, a
\* timeout included.
FairSpec == Spec /\ WF_vars(Progress)

-----------------------------------------------------------------------------
(* Safety.                                                                 *)

\* Without force a row that has its final score is left as it is, whatever the
\* services answer for the others; only a row without one is tried again.
ScoredKept ==
  [][\A c \in Cells : (Whole(store[c]) /\ store[c].final # NaN /\ ~force) =>
       store'[c] = store[c]]_vars

\* The rows that are worked on, and those found in the round.
Found == {c \in Cells : Whole(before[c])}
Worked == {c \in Found : NeedsProcessing(before[c], force)}

\* The tally accounts for every row but those still to be done, and tells the
\* truth about the store.
Accounts(rest) ==
  LET done == Worked \ (rest \cup tally.failed)
  IN  /\ tally.failed \subseteq Worked \ rest
      /\ tally.skipped = Cardinality(Found \ Worked)
      /\ tally.processed = Cardinality({c \in done : store[c].final # NaN})
      /\ tally.nan = Cardinality({c \in done : store[c].final = NaN})
      /\ \A c \in tally.failed : Whole(store[c]) => store[c] = before[c]

\* The report accounts for every row of the round: the rows it counts as scored
\* have a score, those it counts as excluded have none, and a row it gives as
\* failed was not given new metrics (compute_metrics_use_case.py:158-209).
ReportAccounts == pc = "reported" => Accounts({})

\* A final score in the store is the one its metrics give, and only the judge's
\* regime goes with a rubric, however many executions wrote the row.
ScoresCoherent ==
  \A c \in Cells : Whole(store[c]) =>
    /\ store[c].final = FinalOf(store[c].metrics)
    /\ ~Unjudged(store[c]) => store[c].regime = "judge"

-----------------------------------------------------------------------------
(* Liveness.                                                               *)

\* An execution ends, even if no service answers any more.
ExecutionEnds == (pc # "idle") ~> (pc = "idle")

-----------------------------------------------------------------------------
(* The inductive invariant.                                                *)

\* The call under way is the one the use case waits for.
CallOf ==
  /\ pc = "layer1" => status # "idle" /\ chain = "layer1"
  /\ pc = "rubric" => status # "idle" /\ chain = "rubric"
  /\ pc \in {"row", "reported"} => status = "idle"

\* What is still to be done was due when it was loaded, and is as it was.
WorkIsDue ==
  /\ \A c \in todo \cup hand : c \in Worked /\ store[c] = before[c]
  /\ hand \cap todo = {}
  /\ pc \in {"idle", "reported"} => todo = {}
  /\ pc = "row" => todo # {}
  /\ pc \in {"idle", "row", "reported"} => hand = {}
  /\ pc \in {"layer1", "rubric"} => \E c \in Cells : hand = {c}

\* The tally is right all along.
ReportSoFar == pc # "idle" => Accounts(todo \cup hand)

IInv == TypeOK /\ CallInv /\ CallOf /\ WorkIsDue /\ ReportSoFar /\ ScoresCoherent

=============================================================================
