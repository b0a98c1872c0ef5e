-------------------------- MODULE ExternalRunProofs --------------------------
(***************************************************************************)
(* For any models, any endpoints and whatever is found at them: a row says *)
(* who answered it, success means that every model was reached, nothing    *)
(* done is undone, and the passes of a run come in order.                  *)
(***************************************************************************)
EXTENDS ExternalRun, WellFoundedInduction, TLAPS

LEMMA GeneratorType ==
  /\ N \in Nat /\ N > 0
  /\ \A k \in 1..N : Generators[k] \in GeneratorSet
  /\ GeneratorSet \subseteq Models /\ Judge \in Models
  /\ \A m \in Models : UrlOf[m] \in Urls /\ m \in Ids
BY ExternalRunAssumption DEF GeneratorSet, Models, Urls, Ids

\* A set of positions that is not empty has a last one.
LEMMA LastPosition ==
  ASSUME NEW T \in SUBSET (1..N), T # {}
  PROVE  \E k \in T : \A j \in (k + 1)..N : j \notin T
<1>. DEFINE R == OpToRel(<, Nat)
            S == {N - t : t \in T}
<1>1. N \in Nat
  BY GeneratorType
<1>2. S \subseteq Nat /\ S # {}
  <2>1. \A t \in T : N - t \in Nat
    BY <1>1
  <2>2. \E t \in T : N - t \in S
    OBVIOUS
  <2>. QED BY <2>1, <2>2
<1>3. IsWellFoundedOn(R, Nat)
  BY NatLessThanWellFounded
<1>4. \A x, y \in Nat : x < y => <<x, y>> \in R
  BY DEF OpToRel
<1>. HIDE DEF R
<1>5. PICK x \in S : \A y \in S : ~(<<y, x>> \in R)
  BY <1>2, <1>3, WFMin
<1>6. \A y \in S : ~(y < x)
  BY <1>2, <1>4, <1>5
<1>7. PICK k \in T : x = N - k
  OBVIOUS
<1>8. \A j \in T : ~(N - j < N - k)
  BY <1>6, <1>7
<1>. QED BY <1>1, <1>8

\* The position whose probe gives the name of a request.
LEMMA LastNamed ==
  ASSUME NEW g \in GeneratorSet, Named(g) # {}
  PROVE  LET k == CHOOSE k \in 1..N : /\ Generators[k] \in Named(g)
                                      /\ \A j \in (k + 1)..N : Generators[j] \notin Named(g)
         IN  k \in 1..N /\ Generators[k] \in Named(g)
<1>. DEFINE T == {k \in 1..N : Generators[k] \in Named(g)}
<1>1. Named(g) \subseteq GeneratorSet
  BY DEF Named
<1>2. T # {} /\ T \in SUBSET (1..N)
  BY <1>1 DEF GeneratorSet
<1>3. PICK k \in T : \A j \in (k + 1)..N : j \notin T
  BY <1>2, LastPosition
<1>4. \A j \in (k + 1)..N : j \in 1..N
  BY <1>3, GeneratorType
<1>5. k \in 1..N /\ Generators[k] \in Named(g) /\ \A j \in (k + 1)..N : Generators[j] \notin Named(g)
  BY <1>3, <1>4
<1>. QED BY <1>5

\* A request is sent with an id a probe has found, or one of the port layout.
LEMMA NameType ==
  ASSUME TypeOK, NEW g \in GeneratorSet
  PROVE  Name(g) \in Ids
<1>1. CASE Named(g) = {}
  BY <1>1, GeneratorType, ExternalRunAssumption DEF Name
<1>2. CASE Named(g) # {}
  <2>1. \A m \in Named(g) : probed[m] \in Ids
    BY DEF Named, TypeOK
  <2>. QED BY <1>2, <2>1, LastNamed DEF Name
<1>. QED BY <1>1, <1>2

\* At an endpoint of its own it is the id of its own probe.
LEMMA ProbeNames ==
  ASSUME TypeOK
  PROVE  NameIsProbed
<1>. SUFFICES ASSUME NEW g \in GeneratorSet, Alone(g)
              PROVE  Name(g) = IF probed[g] # Unknown THEN probed[g] ELSE PortModel[UrlOf[g]]
  BY DEF NameIsProbed
<1>1. Named(g) = IF probed[g] # Unknown THEN {g} ELSE {}
  BY DEF Named, Alone
<1>2. CASE probed[g] = Unknown
  BY <1>1, <1>2 DEF Name
<1>3. CASE probed[g] # Unknown
  <2>. DEFINE k == CHOOSE k \in 1..N : /\ Generators[k] \in Named(g)
                                      /\ \A j \in (k + 1)..N : Generators[j] \notin Named(g)
  <2>1. Named(g) = {g}
    BY <1>1, <1>3
  <2>2. Generators[k] \in Named(g)
    BY <2>1, LastNamed
  <2>3. Generators[k] = g
    BY <2>1, <2>2
  <2>4. Name(g) = probed[Generators[k]]
    BY <2>1 DEF Name
  <2>. QED BY <1>3, <2>3, <2>4
<1>. QED BY <1>2, <1>3

-----------------------------------------------------------------------------
LEMMA NoneType ==
  /\ NoIds \in [GeneratorSet -> Ids \cup {Unknown}]
  /\ NoRow \in Row /\ NoRow.by = Unknown /\ NoRow.judged = FALSE
  /\ NoOptions \in Options /\ NoOptions.dry = FALSE
BY DEF NoIds, NoRow, Row, NoOptions, Options

LEMMA InitHolds == Init => IInv
<1>. SUFFICES ASSUME Init PROVE IInv
  OBVIOUS
<1>1. served \in [Urls -> Ids \cup {Down}]
  BY DEF Init
<1>2. rows \in [GeneratorSet -> Row] /\ \A g \in GeneratorSet : rows[g] = NoRow
  BY NoneType DEF Init
<1>3. /\ pc = "idle" /\ pos = 1 /\ opts = NoOptions /\ code = NoCode /\ exit = "none"
      /\ probed = NoIds /\ polls = 0 /\ todo = {} /\ reached = {}
  BY DEF Init
<1>4. registry = FALSE /\ verified = FALSE /\ stop = FALSE /\ asked = FALSE
  BY DEF Init
<1>5. registry \in BOOLEAN /\ verified \in BOOLEAN /\ stop \in BOOLEAN /\ asked \in BOOLEAN
  BY <1>4, Zenon
<1>6. pos \in 1..(N + 1) /\ polls \in 0..MaxPolls
  BY <1>3, GeneratorType, ExternalRunAssumption
<1>7. TypeOK
  BY <1>1, <1>2, <1>3, <1>5, <1>6, NoneType DEF TypeOK, NoCode
<1>8. RowOrigin
  BY <1>2, NoneType DEF RowOrigin
<1>9. ReachedSoFar
  BY <1>3 DEF ReachedSoFar
<1>10. Offline /\ DryRunOffline
  BY <1>3, <1>4, NoneType DEF Offline, DryRunOffline
<1>11. WorkIsDue
  BY <1>3 DEF WorkIsDue
<1>. QED BY <1>7, <1>8, <1>9, <1>10, <1>11 DEF IInv

-----------------------------------------------------------------------------
\* A command that ends leaves the rows and nothing else.
LEMMA EndHolds ==
  ASSUME IInv, NEW c \in {NoCode, 0, 1, 130}, NEW how \in {exit, "completed", "partial", "failed"},
         EndCommand(c, how), rows' \in [GeneratorSet -> Row], RowOrigin'
  PROVE  IInv'
<1>1. /\ pc' = "idle" /\ code' = c /\ exit' = how /\ pos' = 1 /\ probed' = NoIds
      /\ polls' = 0 /\ todo' = {} /\ opts' = NoOptions /\ reached' = {} /\ served' = served
  BY DEF EndCommand
<1>2. registry' = FALSE /\ verified' = FALSE /\ stop' = FALSE /\ asked' = FALSE
  BY DEF EndCommand
<1>3. registry' \in BOOLEAN /\ verified' \in BOOLEAN /\ stop' \in BOOLEAN /\ asked' \in BOOLEAN
  BY <1>2, Zenon
<1>4. pos' \in 1..(N + 1) /\ polls' \in 0..MaxPolls
  BY <1>1, GeneratorType, ExternalRunAssumption
<1>5. TypeOK'
  BY <1>1, <1>3, <1>4, NoneType DEF IInv, TypeOK
<1>6. ReachedSoFar'
  BY <1>1 DEF ReachedSoFar
<1>7. Offline' /\ DryRunOffline' /\ WorkIsDue'
  BY <1>1, <1>2, NoneType DEF Offline, DryRunOffline, WorkIsDue
<1>. QED BY <1>5, <1>6, <1>7 DEF IInv

\* The rows do not change, nor what is due.
LEMMA SameRows ==
  ASSUME IInv, UNCHANGED rows
  PROVE  /\ RowOrigin' /\ rows' \in [GeneratorSet -> Row]
         /\ Unmeasured' = Unmeasured /\ Unjudged' = Unjudged
BY DEF IInv, TypeOK, RowOrigin, Unmeasured, Unjudged, Answered

LEMMA EndSameRows ==
  ASSUME IInv, UNCHANGED rows, NEW c \in {NoCode, 0, 1, 130},
         NEW how \in {exit, "completed", "partial", "failed"}, EndCommand(c, how)
  PROVE  IInv'
BY SameRows, EndHolds

LEMMA TypeHolds ==
  ASSUME NEW o \in Options, IInv, Type(o)
  PROVE  IInv'
<1>1. TypeOK' /\ RowOrigin'
  BY SameRows DEF Type, IInv, TypeOK
<1>2. ReachedSoFar' /\ Offline' /\ DryRunOffline' /\ WorkIsDue'
  BY DEF Type, IInv, ReachedSoFar, Offline, DryRunOffline, Stages, WorkIsDue
<1>. QED BY <1>1, <1>2 DEF IInv

LEMMA BeforeRunHolds ==
  ASSUME IInv, BeforeRun
  PROVE  IInv'
<1>. USE DEF IInv
<1>1. CASE RejectConfig \/ DryRun(0) \/ DryRun(1) \/ MissingEndpoint \/ MissingQuestions \/ PlanFails
  BY <1>1, EndSameRows DEF RejectConfig, DryRun, MissingEndpoint, MissingQuestions, PlanFails
<1>2. CASE AcceptConfig
  <2>1. TypeOK' /\ RowOrigin'
    BY <1>2, SameRows DEF AcceptConfig, TypeOK, memory
  <2>2. ReachedSoFar' /\ Offline' /\ DryRunOffline' /\ WorkIsDue'
    BY <1>2 DEF AcceptConfig, memory, ReachedSoFar, Offline, DryRunOffline, Stages, WorkIsDue
  <2>. QED BY <2>1, <2>2
<1>3. ASSUME NEW found \in BOOLEAN, LoadRegistry(found) PROVE IInv'
  <2>1. TypeOK' /\ RowOrigin'
    BY <1>3, SameRows DEF LoadRegistry, TypeOK
  <2>2. ReachedSoFar' /\ Offline' /\ DryRunOffline' /\ WorkIsDue'
    BY <1>3, GeneratorType DEF LoadRegistry, ReachedSoFar, Offline, DryRunOffline, Stages, WorkIsDue
  <2>. QED BY <2>1, <2>2
<1>4. CASE ProbeGenerator
  <2>1. pos \in 1..N /\ Generators[pos] \in GeneratorSet /\ UrlOf[Generators[pos]] \in Urls
    BY <1>4, GeneratorType DEF ProbeGenerator, TypeOK, ReachedSoFar
  <2>2. Answer(UrlOf[Generators[pos]]) \in Ids \cup {Unknown}
    BY <2>1 DEF Answer, TypeOK
  <2>3. probed' \in [GeneratorSet -> Ids \cup {Unknown}]
    BY <1>4, <2>1, <2>2 DEF ProbeGenerator, TypeOK
  <2>4. pos' \in 1..(N + 1) /\ (pc' = "probe" => pos' <= N) /\ (pc' # "probe" => pos' = 1)
    BY <1>4, <2>1, GeneratorType DEF ProbeGenerator
  <2>5. asked' \in BOOLEAN
    BY <1>4, Zenon DEF ProbeGenerator
  <2>6. TypeOK' /\ RowOrigin'
    BY <1>4, <2>3, <2>4, <2>5, SameRows DEF ProbeGenerator, TypeOK
  <2>7. ReachedSoFar' /\ Offline' /\ DryRunOffline' /\ WorkIsDue'
    BY <1>4, <2>4 DEF ProbeGenerator, ReachedSoFar, Offline, DryRunOffline, Stages, WorkIsDue
  <2>. QED BY <2>6, <2>7
<1>5. ASSUME NEW same \in BOOLEAN, ProbeJudge(same) PROVE IInv'
  <2>1. TypeOK' /\ RowOrigin'
    BY <1>5, SameRows DEF ProbeJudge, TypeOK
  <2>2. ReachedSoFar' /\ Offline' /\ DryRunOffline' /\ WorkIsDue'
    BY <1>5 DEF ProbeJudge, ReachedSoFar, Offline, DryRunOffline, Stages, WorkIsDue
  <2>. QED BY <2>1, <2>2
<1>6. ASSUME NEW same \in BOOLEAN, Gate(same) PROVE IInv'
  <2>1. CASE EndCommand(1, exit)
    BY <1>6, <2>1, EndSameRows DEF Gate
  <2>2. CASE ~EndCommand(1, exit)
    <3>1. /\ pc = "gate" /\ pc' = "plan" /\ asked' = TRUE
          /\ UNCHANGED <<served, opts, registry, pos, probed, verified, polls, stop, todo,
                         reached, exit, code>>
          /\ UNCHANGED rows
      BY <1>6, <2>2 DEF Gate
    <3>2. asked' \in BOOLEAN
      BY <3>1, Zenon
    <3>3. TypeOK' /\ RowOrigin'
      BY <3>1, <3>2, SameRows DEF TypeOK
    <3>4. ReachedSoFar' /\ Offline' /\ DryRunOffline' /\ WorkIsDue'
      BY <3>1 DEF ReachedSoFar, Offline, DryRunOffline, Stages, WorkIsDue
    <3>. QED BY <3>3, <3>4
  <2>. QED BY <2>1, <2>2
<1>7. CASE Plan
  <2>1. TypeOK' /\ RowOrigin'
    BY <1>7, SameRows DEF Plan, TypeOK, memory, Stages
  <2>2. ReachedSoFar' /\ Offline' /\ DryRunOffline' /\ WorkIsDue'
    BY <1>7 DEF Plan, memory, ReachedSoFar, Offline, DryRunOffline, Stages, WorkIsDue
  <2>. QED BY <2>1, <2>2
<1>. QED BY <1>1, <1>2, <1>3, <1>4, <1>5, <1>6, <1>7 DEF BeforeRun

-----------------------------------------------------------------------------
\* The positions a run has been through.
LEMMA ThroughOneMore ==
  /\ Through(0) = {}
  /\ Through(N) = GeneratorSet
  /\ \A k \in 1..N : Through(k) = Through(k - 1) \cup {Generators[k]}
<1>1. N \in Nat
  BY GeneratorType
<1>2. \A k \in 1..N : 1..k = (1..(k - 1)) \cup {k}
  BY <1>1
<1>3. \A k \in 1..N : Through(k) = Through(k - 1) \cup {Generators[k]}
  BY <1>2 DEF Through
<1>. QED BY <1>3 DEF Through, GeneratorSet

\* The model in hand is done with, and its row is as good as the others.
LEMMA NextModelHolds ==
  ASSUME IInv, pc = "generate", NextModel, rows' \in [GeneratorSet -> Row], RowOrigin'
  PROVE  IInv'
<1>1. CASE stop /\ EndCommand(0, "partial")
  BY <1>1, EndHolds
<1>2. CASE ~(stop /\ EndCommand(0, "partial"))
  <2>1. /\ pos' = pos + 1 /\ pc' = IF pos = N THEN "metrics" ELSE "wait"
        /\ todo' = IF pos = N THEN Unmeasured' ELSE {}
        /\ UNCHANGED <<served, opts, registry, probed, verified, polls, stop, asked,
                       reached, exit, code>>
    BY <1>2 DEF NextModel
  <2>2. pos \in 1..N /\ Through(pos) \subseteq reached
    BY DEF IInv, TypeOK, ReachedSoFar
  <2>3. pos' \in 1..(N + 1) /\ (pc' = "wait" => pos' <= N) /\ pos' - 1 = pos
    BY <2>1, <2>2, GeneratorType
  <2>4. TypeOK'
    <3>1. todo' \in SUBSET GeneratorSet
      BY <2>1 DEF Unmeasured, Answered
    <3>. QED BY <2>1, <2>3, <3>1 DEF IInv, TypeOK, Stages
  <2>5. ReachedSoFar'
    BY <2>1, <2>2, <2>3, ThroughOneMore DEF ReachedSoFar, Stages, Through, GeneratorSet
  <2>6. Offline' /\ DryRunOffline' /\ WorkIsDue'
    BY <2>1 DEF IInv, Offline, DryRunOffline, WorkIsDue
  <2>. QED BY <2>4, <2>5, <2>6 DEF IInv
<1>. QED BY <1>1, <1>2

\* The answer is of the model that was asked for, and says so.
LEMMA GenerateHolds ==
  ASSUME IInv, NEW blank \in BOOLEAN, Generate(blank)
  PROVE  IInv'
<1>. DEFINE g == Generators[pos]
            r == AnswerOf(g, blank)
<1>1. pc = "generate" /\ rows' = [rows EXCEPT ![g] = r] /\ NextModel
  BY DEF Generate
<1>2. g \in GeneratorSet
  BY <1>1, GeneratorType DEF IInv, TypeOK, ReachedSoFar
<1>3. Name(g) \in Ids /\ NameIsProbed
  BY <1>2, NameType, ProbeNames DEF IInv
<1>4. r \in Row /\ r.by = Name(g) /\ r.id = probed[g]
  BY <1>2, <1>3 DEF AnswerOf, Row, IInv, TypeOK
<1>5. rows' \in [GeneratorSet -> Row]
  BY <1>1, <1>2, <1>4 DEF IInv, TypeOK
<1>6. RowOrigin'
  <2>. SUFFICES ASSUME NEW h \in GeneratorSet, rows'[h].by # Unknown, Alone(h)
                PROVE  rows'[h].by = IF rows'[h].id # Unknown THEN rows'[h].id ELSE PortModel[UrlOf[h]]
    BY DEF RowOrigin, Alone
  <2>1. CASE h = g
    BY <1>1, <1>2, <1>3, <1>4, <2>1 DEF IInv, TypeOK, NameIsProbed
  <2>2. CASE h # g
    BY <1>1, <1>2, <2>2 DEF IInv, TypeOK, RowOrigin
  <2>. QED BY <2>1, <2>2
<1>. QED BY <1>1, <1>5, <1>6, NextModelHolds

LEMMA HealthyHolds ==
  ASSUME IInv, Healthy
  PROVE  IInv'
<1>. USE DEF IInv
<1>1. /\ UNCHANGED <<served, opts, registry, pos, probed, verified, stop, rows, asked, exit, code>>
      /\ polls' = 0 /\ reached' = reached \cup {InHand}
      /\ todo' = IF pc = "wait" THEN {} ELSE Unjudged
      /\ pc' = IF pc = "wait" THEN "generate" ELSE "judge"
      /\ pc \in {"wait", "judgewait"}
  BY DEF Healthy, Waiting
<1>2. InHand \in Models /\ polls' \in 0..MaxPolls /\ todo' \in SUBSET GeneratorSet
  BY <1>1, GeneratorType, ExternalRunAssumption DEF InHand, TypeOK, ReachedSoFar, Unjudged, Answered
<1>3. TypeOK' /\ RowOrigin'
  BY <1>1, <1>2, SameRows DEF TypeOK, Stages
<1>4. ReachedSoFar'
  <2>1. CASE pc = "wait"
    <3>1. pos \in 1..N /\ Through(pos - 1) \subseteq reached /\ InHand = Generators[pos]
      BY <2>1 DEF TypeOK, ReachedSoFar, InHand
    <3>2. Through(pos) \subseteq reached'
      BY <1>1, <3>1, ThroughOneMore
    <3>. QED BY <1>1, <2>1, <3>1, <3>2 DEF ReachedSoFar, Stages, Through
  <2>2. CASE pc = "judgewait"
    BY <1>1, <2>2 DEF ReachedSoFar, Stages, InHand
  <2>. QED BY <1>1, <2>1, <2>2
<1>5. Offline' /\ DryRunOffline' /\ WorkIsDue'
  BY <1>1, SameRows DEF Offline, DryRunOffline, WorkIsDue
<1>. QED BY <1>3, <1>4, <1>5

\* What a pass does to a row it takes: the metrics and the verdict may come or
\* go, the answer and its origin do not.
LEMMA PassWrites ==
  ASSUME IInv, NEW g \in GeneratorSet,
         \/ MeasureRow(g) \/ MeasureInVain(g) \/ MeasureFails(g) \/ JudgeRow(g) \/ JudgeInVain(g)
  PROVE  /\ rows' \in [GeneratorSet -> Row]
         /\ g \in todo
         /\ \A h \in GeneratorSet : h # g => rows'[h] = rows[h]
         /\ \A f \in {"by", "id", "det", "blank"} : rows'[g][f] = rows[g][f]
         /\ pc = "metrics" \/ (pc = "judge" /\ rows'[g].measured = rows[g].measured)
<1>1. rows \in [GeneratorSet -> Row]
  BY DEF IInv, TypeOK
<1>2. PICK m \in BOOLEAN, j \in BOOLEAN :
        /\ rows' = [rows EXCEPT ![g] = [rows[g] EXCEPT !.measured = m, !.judged = j]]
        /\ pc = "metrics" \/ (pc = "judge" /\ m = rows[g].measured)
  <2>1. rows[g] = [rows[g] EXCEPT !.measured = rows[g].measured, !.judged = rows[g].judged]
        /\ rows[g].measured \in BOOLEAN /\ rows[g].judged \in BOOLEAN
    BY <1>1 DEF Row
  <2>2. CASE MeasureRow(g)
    BY <1>1, <2>2 DEF MeasureRow
  <2>3. CASE MeasureInVain(g)
    BY <1>1, <2>3 DEF MeasureInVain
  <2>4. CASE MeasureFails(g)
    BY <1>1, <2>1, <2>4 DEF MeasureFails
  <2>5. CASE JudgeRow(g)
    BY <1>1, <2>1, <2>5 DEF JudgeRow, Row
  <2>6. CASE JudgeInVain(g)
    BY <1>1, <2>1, <2>6 DEF JudgeInVain, Row
  <2>. QED BY <2>2, <2>3, <2>4, <2>5, <2>6
<1>3. [rows[g] EXCEPT !.measured = m, !.judged = j] \in Row
  <2>1. rows[g] \in Row
    BY <1>1
  <2>2. \A q \in Row : [q EXCEPT !.measured = m, !.judged = j] \in Row
    BY DEF Row
  <2>. QED BY <2>1, <2>2
<1>4. rows'[g] = [rows[g] EXCEPT !.measured = m, !.judged = j] /\ rows[g] \in Row
  BY <1>1, <1>2
<1>5. /\ \A f \in {"by", "id", "det", "blank"} : rows'[g][f] = rows[g][f]
      /\ rows'[g].measured = m
  BY <1>4 DEF Row
<1>6. g \in todo
  BY DEF MeasureRow, MeasureInVain, MeasureFails, JudgeRow, JudgeInVain
<1>. QED BY <1>1, <1>2, <1>3, <1>5, <1>6

LEMMA PassesHold ==
  ASSUME IInv, NEW g \in GeneratorSet,
         \/ MeasureRow(g) \/ MeasureInVain(g) \/ MeasureFails(g) \/ JudgeRow(g) \/ JudgeInVain(g)
  PROVE  IInv'
<1>. USE DEF IInv
<1>1. /\ UNCHANGED <<served, pc, opts, registry, pos, probed, verified, polls, stop, asked,
                     reached, exit, code>>
      /\ todo' = todo \ {g}
  BY DEF MeasureRow, MeasureInVain, MeasureFails, JudgeRow, JudgeInVain, DoneWith
<1>2. \A h \in GeneratorSet : rows'[h].by = rows[h].by /\ rows'[h].id = rows[h].id
  BY PassWrites
<1>3. RowOrigin'
  BY <1>2 DEF RowOrigin, Alone
<1>4. TypeOK'
  BY <1>1, PassWrites DEF TypeOK
<1>5. ReachedSoFar' /\ Offline' /\ DryRunOffline'
  BY <1>1 DEF ReachedSoFar, Offline, DryRunOffline, Through
<1>6. WorkIsDue'
  <2>1. \A h \in GeneratorSet : h # g => rows'[h] = rows[h]
    BY PassWrites
  <2>2. \A h \in todo' : h # g /\ h \in GeneratorSet /\ h \in todo
    BY <1>1 DEF TypeOK
  <2>. QED BY <1>1, <2>1, <2>2 DEF WorkIsDue, Unmeasured, Unjudged, Answered
<1>. QED BY <1>3, <1>4, <1>5, <1>6

LEMMA ExperimentHolds ==
  ASSUME IInv, Experiment
  PROVE  IInv'
<1>. USE DEF IInv
<1>1. CASE BuildContexts
  <2>1. CASE stop /\ EndCommand(0, "partial")
    BY <1>1, <2>1, EndSameRows DEF BuildContexts
  <2>2. CASE ~(stop /\ EndCommand(0, "partial"))
    <3>1. /\ pc = "contexts" /\ pc' = "wait" /\ UNCHANGED <<served, memory, exit, code>>
          /\ UNCHANGED rows
      BY <1>1, <2>2 DEF BuildContexts
    <3>2. TypeOK' /\ RowOrigin'
      BY <3>1, SameRows DEF TypeOK, memory, Stages
    <3>3. pos = 1
      BY <3>1 DEF ReachedSoFar, Stages
    <3>4. ReachedSoFar'
      BY <3>1, <3>3, ThroughOneMore, GeneratorType DEF ReachedSoFar, memory, Stages, Through
    <3>5. Offline' /\ DryRunOffline' /\ WorkIsDue'
      BY <3>1 DEF memory, Offline, DryRunOffline, WorkIsDue
    <3>. QED BY <3>2, <3>4, <3>5
  <2>. QED BY <2>1, <2>2
<1>2. CASE Healthy
  BY <1>2, HealthyHolds
<1>3. CASE Poll
  <2>1. polls' \in 0..MaxPolls
    BY <1>3, ExternalRunAssumption DEF Poll, TypeOK
  <2>2. TypeOK' /\ RowOrigin'
    BY <1>3, <2>1, SameRows DEF Poll, TypeOK
  <2>3. ReachedSoFar' /\ Offline' /\ DryRunOffline' /\ WorkIsDue'
    BY <1>3 DEF Poll, ReachedSoFar, Offline, DryRunOffline, Through, Waiting, WorkIsDue
  <2>. QED BY <2>2, <2>3
<1>4. CASE Unreachable \/ JudgeRefuses \/ Complete
  BY <1>4, EndSameRows DEF Unreachable, JudgeRefuses, Complete
<1>5. CASE \E blank \in BOOLEAN : Generate(blank)
  BY <1>5, GenerateHolds
<1>6. CASE SkipExisting \/ GenerationFails
  BY <1>6, SameRows, NextModelHolds DEF SkipExisting, GenerationFails
<1>7. CASE MetricsDone
  <2>1. TypeOK' /\ RowOrigin'
    BY <1>7, SameRows DEF MetricsDone, TypeOK, memory, Stages
  <2>2. ReachedSoFar' /\ Offline' /\ DryRunOffline' /\ WorkIsDue'
    BY <1>7 DEF MetricsDone, memory, ReachedSoFar, Offline, DryRunOffline, Stages, WorkIsDue
  <2>. QED BY <2>1, <2>2
<1>8. CASE \E g \in GeneratorSet :
             \/ MeasureRow(g) \/ MeasureInVain(g) \/ MeasureFails(g) \/ JudgeRow(g) \/ JudgeInVain(g)
  BY <1>8, PassesHold
<1>. QED BY <1>1, <1>2, <1>3, <1>4, <1>5, <1>6, <1>7, <1>8 DEF Experiment

LEMMA SurroundingsHold ==
  ASSUME IInv, Surroundings
  PROVE  IInv'
<1>. USE DEF IInv
<1>1. CASE \E o \in Options : Type(o)
  BY <1>1, TypeHolds
<1>2. CASE PassRaises \/ Interrupt
  BY <1>2, EndSameRows DEF PassRaises, Interrupt
<1>3. CASE Kill
  BY <1>3, EndSameRows DEF Kill
<1>4. CASE Signal
  <2>1. stop' \in BOOLEAN
    BY <1>4, Zenon DEF Signal
  <2>2. TypeOK' /\ RowOrigin'
    BY <1>4, <2>1, SameRows DEF Signal, TypeOK
  <2>3. ReachedSoFar' /\ Offline' /\ DryRunOffline' /\ WorkIsDue'
    BY <1>4, SameRows DEF Signal, ReachedSoFar, Offline, DryRunOffline, Through, WorkIsDue
  <2>. QED BY <2>2, <2>3
<1>5. ASSUME NEW url \in Urls, NEW id \in Serves[url], Operate(url, id) PROVE IInv'
  <2>1. served' \in [Urls -> Ids \cup {Down}]
    <3>1. id \in Ids \cup {Down}
      BY <1>5, ExternalRunAssumption
    <3>. QED BY <1>5, <3>1 DEF Operate, TypeOK
  <2>2. TypeOK' /\ RowOrigin'
    BY <1>5, <2>1, SameRows DEF Operate, TypeOK, memory
  <2>3. ReachedSoFar' /\ Offline' /\ DryRunOffline' /\ WorkIsDue'
    BY <1>5, SameRows DEF Operate, memory, ReachedSoFar, Offline, DryRunOffline, Through, WorkIsDue
  <2>. QED BY <2>2, <2>3
<1>. QED BY <1>1, <1>2, <1>3, <1>4, <1>5 DEF Surroundings

\* Every step keeps the inductive invariant.
LEMMA StepHolds == IInv /\ [Next]_vars => IInv'
<1>1. IInv /\ UNCHANGED vars => IInv'
  BY SameRows DEF vars, IInv, TypeOK, RowOrigin, ReachedSoFar, Offline, DryRunOffline, Through, WorkIsDue
<1>. QED BY <1>1, BeforeRunHolds, ExperimentHolds, SurroundingsHold DEF Next, Command

-----------------------------------------------------------------------------
\* The inductive invariant: whose answers the rows are, what the run has
\* reached, and that a dry run asks nobody.
THEOREM Invariant == Spec => []IInv
BY InitHolds, StepHolds, PTL DEF Spec

\* However endpoints come, go and change what they serve, a row says which
\* model gave its answer.
THEOREM RowsTellTheirOrigin == Spec => []RowOrigin
<1>1. IInv => RowOrigin
  BY DEF IInv
<1>. QED BY <1>1, Invariant, PTL

\* A command that exits with success, without having been told to stop, has
\* found the endpoint of every model healthy.
THEOREM SuccessReachesAll == Spec => SuccessIsComplete
<1>1. IInv /\ [Next]_vars =>
        [(pc # "idle" /\ pc' = "idle" /\ code' = 0 /\ ~opts.dry) => stop \/ reached = Models]_vars
  <2>. SUFFICES ASSUME IInv, Next, pc # "idle", pc' = "idle", code' = 0, ~opts.dry, ~stop
                PROVE  reached = Models
    OBVIOUS
  <2>1. Complete
    <3>1. ASSUME NEW g \in GeneratorSet,
                 \/ MeasureRow(g) \/ MeasureInVain(g) \/ MeasureFails(g) \/ JudgeRow(g) \/ JudgeInVain(g)
          PROVE  FALSE
      BY <3>1 DEF MeasureRow, MeasureInVain, MeasureFails, JudgeRow, JudgeInVain, DoneWith
    <3>2. ASSUME NEW blank \in BOOLEAN, Generate(blank)
          PROVE  FALSE
      BY <3>2 DEF Generate, NextModel, EndCommand
    <3>3. CASE BeforeRun
      BY <3>3 DEF BeforeRun, RejectConfig, AcceptConfig, DryRun, MissingEndpoint, LoadRegistry,
         ProbeGenerator, ProbeJudge, Gate, MissingQuestions, PlanFails, Plan, EndCommand
    <3>4. CASE Surroundings
      BY <3>4 DEF Surroundings, Type, PassRaises, Interrupt, Kill, Signal, Operate, EndCommand, NoCode
    <3>5. ~(\/ BuildContexts \/ Healthy \/ Poll \/ Unreachable \/ SkipExisting \/ GenerationFails
            \/ MetricsDone \/ JudgeRefuses)
      BY DEF BuildContexts, Healthy, Poll, Unreachable, SkipExisting, GenerationFails, MetricsDone,
         JudgeRefuses, NextModel, EndCommand
    <3>. QED BY <3>1, <3>2, <3>3, <3>4, <3>5 DEF Next, Command, Experiment
  <2>2. GeneratorSet \subseteq reached /\ Judge \in reached /\ reached \subseteq Models
    BY <2>1 DEF Complete, IInv, TypeOK, ReachedSoFar
  <2>. QED BY <2>2 DEF Models
<1>. QED BY <1>1, Invariant, PTL DEF Spec, SuccessIsComplete

\* No later command replaces an answer or what is said of its origin, nor the
\* metrics and the verdict of a row that has its metrics.
THEOREM OriginsAreKept == Spec => OriginKept
<1>1. IInv /\ [Next]_vars =>
        [\A g \in GeneratorSet : rows[g].by # Unknown =>
           /\ \A f \in {"by", "id", "det", "blank"} : rows'[g][f] = rows[g][f]
           /\ rows[g].measured => rows'[g].measured
           /\ rows[g].measured /\ rows[g].judged => rows'[g].judged]_vars
  <2>. SUFFICES ASSUME IInv, Next, NEW g \in GeneratorSet, rows[g].by # Unknown
                PROVE  /\ \A f \in {"by", "id", "det", "blank"} : rows'[g][f] = rows[g][f]
                       /\ rows[g].measured => rows'[g].measured
                       /\ rows[g].measured /\ rows[g].judged => rows'[g].judged
    OBVIOUS
  <2>1. rows[g] \in Row /\ rows \in [GeneratorSet -> Row]
    BY DEF IInv, TypeOK
  <2>2. CASE \E blank \in BOOLEAN : Generate(blank)
    <3>1. rows[Generators[pos]] = NoRow /\ \A h \in GeneratorSet : h # Generators[pos] => rows'[h] = rows[h]
      BY <2>1, <2>2 DEF Generate
    <3>. QED BY <3>1, NoneType
  <2>3. ASSUME NEW h \in GeneratorSet,
               \/ MeasureRow(h) \/ MeasureInVain(h) \/ MeasureFails(h) \/ JudgeRow(h) \/ JudgeInVain(h)
        PROVE  /\ \A f \in {"by", "id", "det", "blank"} : rows'[g][f] = rows[g][f]
               /\ rows[g].measured => rows'[g].measured
               /\ rows[g].measured /\ rows[g].judged => rows'[g].judged
    <3>1. CASE h # g
      BY <2>3, <3>1, PassWrites
    <3>2. CASE h = g /\ pc = "metrics"
      \* The row was without metrics.
      BY <2>3, <3>2, PassWrites DEF IInv, WorkIsDue, Unmeasured
    <3>3. CASE h = g /\ pc = "judge"
      \* The row was without a verdict.
      BY <2>3, <3>3, PassWrites DEF IInv, WorkIsDue, Unjudged
    <3>. QED BY <2>3, <3>1, <3>2, <3>3, PassWrites
  <2>4. CASE UNCHANGED rows
    BY <2>4
  <2>. QED BY <2>2, <2>3, <2>4 DEF Next, Command, BeforeRun, Experiment, Surroundings, RejectConfig,
           AcceptConfig, DryRun, MissingEndpoint, LoadRegistry, ProbeGenerator, ProbeJudge, Gate,
           MissingQuestions, PlanFails, Plan, BuildContexts, Healthy, Poll, Unreachable, SkipExisting,
           GenerationFails, MetricsDone, JudgeRefuses, Complete, Type, PassRaises, Interrupt, Kill,
           Signal, Operate
<1>. QED BY <1>1, Invariant, PTL DEF Spec, OriginKept

\* A run against external endpoints goes through the stages of an experiment,
\* whatever becomes of the endpoints.
THEOREM ExternalRunImplementsStages == Spec => ImplementsStages
<1>1. Init => Experiments!Init
  BY DEF Init, StageOf, Experiments!Init
<1>2. IInv /\ [Next]_vars => [Experiments!Next]_<<StageOf, exit>>
  <2>. SUFFICES ASSUME IInv, [Next]_vars
                PROVE  Experiments!Next \/ (StageOf' = StageOf /\ exit' = exit)
    OBVIOUS
  <2>. USE DEF StageOf
  <2>1. CASE RejectConfig \/ AcceptConfig \/ DryRun(0) \/ DryRun(1) \/ MissingEndpoint
             \/ (\E found \in BOOLEAN : LoadRegistry(found)) \/ ProbeGenerator
             \/ (\E same \in BOOLEAN : ProbeJudge(same) \/ Gate(same))
             \/ MissingQuestions \/ PlanFails \/ Interrupt \/ (\E o \in Options : Type(o))
    BY <2>1 DEF RejectConfig, AcceptConfig, DryRun, MissingEndpoint, LoadRegistry, ProbeGenerator,
       ProbeJudge, Gate, MissingQuestions, PlanFails, Interrupt, Type, EndCommand
  <2>2. CASE Plan
    BY <2>2 DEF Plan, Experiments!Next, Experiments!Launch
  <2>3. CASE BuildContexts
    BY <2>3 DEF BuildContexts, EndCommand, Experiments!Next, Experiments!StopEarly, Experiments!Leave
  <2>4. CASE (\E blank \in BOOLEAN : Generate(blank)) \/ SkipExisting \/ GenerationFails
    BY <2>4 DEF Generate, SkipExisting, GenerationFails, NextModel, EndCommand, Experiments!Next, Experiments!StopEarly,
       Experiments!Leave, Experiments!NextPass
  <2>5. CASE MetricsDone
    BY <2>5 DEF MetricsDone, Experiments!Next, Experiments!NextPass
  <2>6. CASE Complete
    BY <2>6 DEF Complete, EndCommand, Experiments!Next, Experiments!Complete, Experiments!Leave
  <2>7. CASE Unreachable \/ JudgeRefuses \/ PassRaises
    BY <2>7 DEF Unreachable, Waiting, JudgeRefuses, PassRaises, EndCommand, Experiments!Next,
       Experiments!Fail, Experiments!Leave
  <2>8. CASE Kill
    BY <2>8 DEF Kill, Stages, EndCommand, IInv, TypeOK, Experiments!Next, Experiments!Fail,
       Experiments!Leave
  <2>9. CASE Healthy \/ Poll \/ Signal \/ UNCHANGED vars
             \/ (\E url \in Urls : \E id \in Serves[url] : Operate(url, id))
    BY <2>9 DEF Healthy, Waiting, Poll, Signal, Operate, vars
  <2>10. CASE \E g \in GeneratorSet :
                \/ MeasureRow(g) \/ MeasureInVain(g) \/ MeasureFails(g) \/ JudgeRow(g) \/ JudgeInVain(g)
    BY <2>10 DEF MeasureRow, MeasureInVain, MeasureFails, JudgeRow, JudgeInVain, DoneWith
  <2>. QED BY <2>1, <2>2, <2>3, <2>4, <2>5, <2>6, <2>7, <2>8, <2>9, <2>10
           DEF Next, Command, BeforeRun, Experiment, Surroundings
<1>. QED BY <1>1, <1>2, Invariant, PTL DEF Spec, ImplementsStages, Experiments!Spec

=============================================================================
