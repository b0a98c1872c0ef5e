--------------------- MODULE ConcurrentAnnotationProofs ---------------------
(***************************************************************************)
(* Proofs about a run and two annotation sessions on the same store, for   *)
(* every set of cells and every interleaving of their reads and writes.                *)
(***************************************************************************)
EXTENDS ConcurrentAnnotation, ResultRowTheorems

-----------------------------------------------------------------------------
(* Rows and the steps the actions are made of.                             *)

LEMMA NoneType ==
  /\ AbsentRow \in Row /\ TornRow \in Row
  /\ ~Whole(AbsentRow) /\ ~Whole(TornRow)
  /\ NoRows \in [Cells -> Row]
<1>1. Blank \in Answers
  BY SentinelAssumption
<1>2. AbsentRow \in Row /\ TornRow \in Row
  BY <1>1, RowOfType DEF AbsentRow, TornRow
<1>. QED BY <1>2 DEF AbsentRow, TornRow, RowOf, Whole, NoRows

\* The vector a pass writes over a row.
LEMMA NewMetricsType ==
  ASSUME TypeOK, NEW c \in Cells, NEW scores \in Layer1Vector, NEW rubric \in Values
  PROVE  NewMetrics(c, scores, rubric) \in MetricVector
<1>1. snap[c].metrics \in MetricVector
  BY DEF TypeOK, Row
<1>. QED BY <1>1, VectorType DEF NewMetrics

\* What a pass makes of the row of c.
PassRow(c, mv) ==
  UpdateMetrics(disk[c], mv, FinalOf(mv),
                IF pass = "metrics" THEN "generator" ELSE "judge", None, None)

LEMMA PassRowType ==
  ASSUME TypeOK, NEW c \in Cells, NEW mv \in MetricVector
  PROVE  /\ PassRow(c, mv) \in Row
         /\ PassRow(c, mv).file = disk[c].file /\ PassRow(c, mv).answer = disk[c].answer
         /\ PassRow(c, mv).metrics = mv /\ PassRow(c, mv).final = FinalOf(mv)
         /\ pass = "judge" => PassRow(c, mv).regime = "judge"
         /\ SameAnnotation(disk[c], PassRow(c, mv))
<1>1. disk[c] \in Row
  BY DEF TypeOK
<1>. QED BY <1>1, UpdateMetricsType DEF PassRow, SameAnnotation, TypeOK

\* What annotate makes of the row of c.
AnnotatedRow(c, flag, note) ==
  UpdateMetrics(disk[c], seen["annotate"].metrics, seen["annotate"].final,
                seen["annotate"].regime, flag, note)

LEMMA AnnotatedRowType ==
  ASSUME TypeOK, NEW c \in Cells, NEW flag \in {0, 1}, NEW note \in Notes \cup {None}
  PROVE  LET r == AnnotatedRow(c, flag, note)
         IN  /\ r \in Row
             /\ r.file = disk[c].file /\ r.answer = disk[c].answer
             /\ SameMetrics(seen["annotate"], r)
<1>1. disk[c] \in Row /\ seen["annotate"] \in Row
  BY DEF TypeOK, Processes
<1>2. /\ seen["annotate"].metrics \in MetricVector
      /\ seen["annotate"].final \in FinalScores
      /\ seen["annotate"].regime \in {"generator", "judge"}
  BY <1>1 DEF Row
<1>. QED BY <1>1, <1>2, UpdateMetricsGeneralType DEF AnnotatedRow, SameMetrics

\* What ingest makes of the row of c.
LEMMA IngestedRowType ==
  ASSUME TypeOK, NEW c \in Cells, NEW flag \in {0, 1}, NEW note \in Notes \cup {None}
  PROVE  LET r == UpdateAnnotation(disk[c], flag, note)
         IN  /\ r \in Row
             /\ r.file = disk[c].file /\ r.answer = disk[c].answer
             /\ SameMetrics(disk[c], r)
BY UpdateAnnotationType DEF TypeOK, SameMetrics

-----------------------------------------------------------------------------
(* Type correctness.                                                       *)

LEMMA HoldType ==
  ASSUME TypeOK, NEW p \in Processes, NEW c \in Cells, NEW r \in Row, Hold(p, c, r),
         todo' \in SUBSET Cells
  PROVE  TypeOK'
BY NoneType DEF Hold, TypeOK

LEMMA LeaveType ==
  ASSUME TypeOK, NEW p \in Processes, Leave(p),
         todo' \in SUBSET Cells, disk' \in [Cells -> Row], pass' = pass,
         missed' \in [Processes -> SUBSET {"load", "read"}]
  PROVE  TypeOK'
<1>. USE DEF TypeOK, Leave
<1>1. pc' \in [Processes -> {"idle", "ready", "merged", "writing"}]
  OBVIOUS
<1>2. cell' \in [Processes -> Cells \cup {NoCell}]
  OBVIOUS
<1>3. buf' \in [Processes -> Row] /\ seen' \in [Processes -> Row] /\ snap' \in [Cells -> Row]
  BY NoneType
<1>4. force' \in BOOLEAN /\ mixed' \in SUBSET Processes
  OBVIOUS
<1>. QED BY <1>1, <1>2, <1>3, <1>4

LEMMA OutdateType ==
  ASSUME TypeOK, NEW p \in Processes, NEW c
  PROVE  Outdate(p, c) \in [Processes -> SUBSET {"load", "read"}]
BY DEF TypeOK, Outdate

\* Who works on a row works on a cell of the round.
LEMMA InHand ==
  ASSUME TypeOK, RowInHand, NEW p \in Processes, pc[p] # "idle", p # "run" \/ pc[p] # "ready"
  PROVE  cell[p] \in Cells
BY DEF TypeOK, RowInHand, Holding, Processes

LEMMA TypeStep == TypeOK /\ RowInHand /\ [Next]_vars => TypeOK'
<1>. SUFFICES ASSUME TypeOK, RowInHand, [Next]_vars PROVE TypeOK'
  OBVIOUS
<1>1. ASSUME NEW c \in Cells, NEW a \in Answers, Generate(c, a) PROVE TypeOK'
  BY <1>1, GeneratedType DEF Generate, TypeOK
<1>2. ASSUME NEW which \in {"metrics", "judge"}, LoadPass(which) PROVE TypeOK'
  BY <1>2 DEF LoadPass, TypeOK, Processes
<1>3. ASSUME NEW c \in Cells, NEW scores \in Layer1Vector, NEW rubric \in Values,
             MergePass(c, NewMetrics(c, scores, rubric))
      PROVE  TypeOK'
  <2>. DEFINE mv == NewMetrics(c, scores, rubric)
  <2>1. PassRow(c, mv) \in Row
    BY NewMetricsType, PassRowType
  <2>2. Hold("run", c, PassRow(c, mv)) /\ todo' \in SUBSET Cells
    BY <1>3 DEF MergePass, PassRow, TypeOK
  <2>. QED BY <2>1, <2>2, HoldType DEF Processes
<1>4. ASSUME NEW c \in Cells, FailPass(c) PROVE TypeOK'
  <2>1. todo' \in SUBSET Cells
    BY <1>4 DEF FailPass, TypeOK
  <2>. QED BY <1>4, <2>1, LeaveType DEF FailPass, Processes, TypeOK
<1>5. ASSUME NEW c \in Cells, AnnotateLoad(c) PROVE TypeOK'
  BY <1>5 DEF AnnotateLoad, Look, TypeOK, Processes
<1>6. ASSUME NEW flag \in Flags, NEW note \in Notes \cup {None}, AnnotateMerge(flag, note)
      PROVE  TypeOK'
  <2>. DEFINE c == cell["annotate"]
  <2>1. c \in Cells
    BY <1>6, InHand DEF AnnotateMerge, Processes
  <2>2. AnnotatedRow(c, flag, note) \in Row
    BY <1>6, <2>1, AnnotatedRowType DEF AnnotateMerge
  <2>3. Hold("annotate", c, AnnotatedRow(c, flag, note)) /\ todo' = todo
    BY <1>6 DEF AnnotateMerge, AnnotatedRow
  <2>. QED BY <2>1, <2>2, <2>3, HoldType DEF Processes, TypeOK
<1>7. ASSUME NEW c \in Cells, NEW forced \in BOOLEAN, IngestLook(c, forced) PROVE TypeOK'
  BY <1>7 DEF IngestLook, Look, TypeOK, Processes
<1>8. ASSUME NEW flag \in Flags, NEW note \in Notes \cup {None}, IngestMerge(flag, note)
      PROVE  TypeOK'
  <2>. DEFINE c == cell["ingest"]
  <2>1. c \in Cells
    BY <1>8, InHand DEF IngestMerge, Processes
  <2>2. UpdateAnnotation(disk[c], flag, note) \in Row
    BY <1>8, <2>1, IngestedRowType DEF IngestMerge
  <2>3. Hold("ingest", c, UpdateAnnotation(disk[c], flag, note)) /\ todo' = todo
    BY <1>8 DEF IngestMerge
  <2>. QED BY <2>1, <2>2, <2>3, HoldType DEF Processes, TypeOK
<1>9. ASSUME NEW p \in Processes, Truncate(p) PROVE TypeOK'
  BY <1>9 DEF Truncate, TypeOK
<1>10. ASSUME NEW p \in Processes, Fill(p) PROVE TypeOK'
  <2>1. disk' \in [Cells -> Row]
    <3>1. PICK r \in {buf[p], TornRow} : disk' = [disk EXCEPT ![cell[p]] = r]
      BY <1>10 DEF Fill
    <3>2. r \in Row
      BY NoneType DEF TypeOK
    <3>. QED BY <3>1, <3>2 DEF TypeOK
  <2>2. missed' \in [Processes -> SUBSET {"load", "read"}]
    BY <1>10, OutdateType DEF Fill
  <2>. QED BY <1>10, <2>1, <2>2, LeaveType DEF Fill, TypeOK
<1>11. ASSUME NEW p \in Processes, Kill(p) PROVE TypeOK'
  <2>1. disk' \in [Cells -> Row] /\ todo' \in SUBSET Cells
    BY <1>11, NoneType DEF Kill, TypeOK
  <2>2. missed' \in [Processes -> SUBSET {"load", "read"}]
    BY <1>11 DEF Kill, TypeOK
  <2>. QED BY <1>11, <2>1, <2>2, LeaveType DEF Kill, TypeOK
<1>12. ASSUME NEW p \in {"annotate", "ingest"}, FailAnnotation(p) PROVE TypeOK'
  <2>1. missed' \in [Processes -> SUBSET {"load", "read"}]
    BY <1>12 DEF FailAnnotation, TypeOK
  <2>. QED BY <1>12, <2>1, LeaveType DEF FailAnnotation, TypeOK, Processes
<1>13. ASSUME NEW c \in Cells, DeleteTorn(c) PROVE TypeOK'
  BY <1>13, NoneType DEF DeleteTorn, TypeOK
<1>14. ASSUME UNCHANGED vars PROVE TypeOK'
  BY <1>14 DEF vars, TypeOK
<1>. QED
  BY <1>1, <1>2, <1>3, <1>4, <1>5, <1>6, <1>7, <1>8, <1>9, <1>10, <1>11, <1>12, <1>13, <1>14
  DEF Next, RunStep, AnnotateStep, IngestStep, FileStep

-----------------------------------------------------------------------------
(* The inductive invariant.                                                *)

LEMMA InvariantInit == Init => IInv
<1>. SUFFICES ASSUME Init PROVE IInv
  OBVIOUS
<1>1. TypeOK
  BY NoneType DEF Init, TypeOK
<1>2. \A c \in Cells : ~Whole(disk[c])
  BY NoneType DEF Init, NoRows
<1>3. RowInHand
  BY DEF Init, RowInHand, Holding, Processes
<1>4. NoFileNoWork
  BY CellsAssumption DEF Init, NoFileNoWork
<1>5. OneAnswer
  BY <1>2, SentinelAssumption DEF Init, OneAnswer, AnswerIs, Holding, Processes
<1>. QED BY <1>1, <1>2, <1>3, <1>4, <1>5 DEF IInv, RowsCoherent, ReadIsCurrent

\* The store gains an answer nobody can have in hand.
LEMMA AppendKeeps ==
  ASSUME IInv, TypeOK', NEW c \in Cells, NEW a \in Answers, Generate(c, a)
  PROVE  IInv'
<1>. USE DEF Generate
<1>1. disk'[c] = Generated(a) /\ \A d \in Cells \ {c} : disk'[d] = disk[d]
  BY DEF IInv, TypeOK
<1>2. c \notin todo /\ \A p \in Processes : cell[p] # c
  BY DEF IInv, NoFileNoWork
<1>3. RowsCoherent'
  BY <1>1, GeneratedType DEF IInv, RowsCoherent
<1>4. RowInHand'
  BY DEF IInv, RowInHand, Holding
<1>5. NoFileNoWork'
  BY <1>1, GeneratedType DEF IInv, NoFileNoWork, Whole
<1>6. OneAnswer'
  <2>1. AnswerIs(c, a)'
    BY <1>1, <1>2, GeneratedType DEF AnswerIs, Processes
  <2>2. ASSUME NEW d \in Cells \ {c}, NEW b \in Answers, AnswerIs(d, b) PROVE AnswerIs(d, b)'
    BY <1>1, <2>2 DEF AnswerIs, Holding
  <2>. QED BY <2>1, <2>2 DEF IInv, OneAnswer
<1>7. ReadIsCurrent'
  BY <1>1, <1>2 DEF IInv, ReadIsCurrent, Holding, Processes
<1>. QED BY <1>3, <1>4, <1>5, <1>6, <1>7 DEF IInv

\* A pass loads what the store holds.
LEMMA LoadKeeps ==
  ASSUME IInv, TypeOK', NEW which \in {"metrics", "judge"}, LoadPass(which)
  PROVE  IInv'
<1>. USE DEF LoadPass
<1>1. /\ pc'["run"] = "ready" /\ pc["run"] = "idle"
      /\ \A p \in Processes \ {"run"} : pc'[p] = pc[p]
  BY DEF IInv, TypeOK
<1>2. \A c \in todo' : c \in Cells /\ Answered(disk[c]) /\ snap'[c] = disk[c]
  OBVIOUS
<1>3. RowsCoherent'
  BY DEF IInv, RowsCoherent
<1>4. RowInHand'
  BY <1>1, <1>2 DEF IInv, RowInHand, RowsCoherent, Holding, Answered, Processes
<1>5. NoFileNoWork'
  BY <1>2 DEF IInv, NoFileNoWork, Answered, Whole
<1>6. OneAnswer'
  <2>1. ASSUME NEW c \in Cells, NEW a \in Answers, AnswerIs(c, a) PROVE AnswerIs(c, a)'
    BY <1>1, <1>2, <2>1 DEF AnswerIs, Holding, Answered, Processes
  <2>. QED BY <2>1 DEF IInv, OneAnswer
<1>7. ReadIsCurrent'
  BY <1>1 DEF IInv, ReadIsCurrent, Holding, Processes
<1>. QED BY <1>3, <1>4, <1>5, <1>6, <1>7 DEF IInv

\* A process looks at a row.
LEMMA LookKeeps ==
  ASSUME IInv, TypeOK', NEW p \in {"annotate", "ingest"}, NEW c \in Cells, Look(p, c),
         Whole(disk[c]), force' = force \/ p = "ingest",
         p = "ingest" => force' \/ disk[c].flag = None
  PROVE  IInv'
<1>. USE DEF Look
<1>1. /\ p \in Processes
      /\ pc'[p] = "ready" /\ cell'[p] = c /\ seen'[p] = disk[c]
      /\ \A q \in Processes \ {p} : pc'[q] = pc[q] /\ cell'[q] = cell[q] /\ seen'[q] = seen[q]
  BY DEF IInv, TypeOK, Processes
<1>3. RowsCoherent'
  BY DEF IInv, RowsCoherent
<1>4. RowInHand'
  BY <1>1 DEF IInv, RowInHand, RowsCoherent, Holding, Processes
<1>5. NoFileNoWork'
  BY <1>1 DEF IInv, NoFileNoWork, Whole
<1>6. OneAnswer'
  <2>1. ASSUME NEW d \in Cells, NEW a \in Answers, AnswerIs(d, a) PROVE AnswerIs(d, a)'
    BY <1>1, <2>1 DEF AnswerIs, Holding, Processes
  <2>. QED BY <2>1 DEF IInv, OneAnswer
<1>7. ReadIsCurrent'
  BY <1>1 DEF IInv, ReadIsCurrent, Holding, Processes, SameMetrics
<1>. QED BY <1>3, <1>4, <1>5, <1>6, <1>7 DEF IInv

\* A process has the new content of a file: it keeps the answer and what is
\* not its own to change.
LEMMA HoldKeeps ==
  ASSUME IInv, TypeOK', NEW p \in Processes, NEW c \in Cells, NEW r \in Row, Hold(p, c, r),
         pc[p] = "ready", p # "run" => cell[p] = c,
         todo' \in SUBSET todo, p # "run" => todo' = todo,
         Whole(disk[c]), Whole(r), Coherent(r), r.answer = disk[c].answer,
         p = "run" => SameAnnotation(disk[c], r),
         p = "ingest" => SameMetrics(disk[c], r),
         p = "annotate" => SameMetrics(seen["annotate"], r)
  PROVE  IInv'
<1>. USE DEF Hold
<1>1. /\ pc'[p] = "merged" /\ cell'[p] = c /\ buf'[p] = r
      /\ \A q \in Processes \ {p} : pc'[q] = pc[q] /\ cell'[q] = cell[q] /\ seen'[q] = seen[q]
                                      /\ buf'[q] = buf[q]
  BY DEF IInv, TypeOK, Processes
<1>3. RowsCoherent'
  BY DEF IInv, RowsCoherent
<1>4. RowInHand'
  BY <1>1 DEF IInv, RowInHand, Holding, Processes
<1>5. NoFileNoWork'
  BY <1>1 DEF IInv, NoFileNoWork, Whole
<1>6. OneAnswer'
  <2>1. ASSUME NEW d \in Cells, NEW a \in Answers, AnswerIs(d, a) PROVE AnswerIs(d, a)'
    BY <1>1, <2>1 DEF AnswerIs, Holding, Processes
  <2>. QED BY <2>1 DEF IInv, OneAnswer
<1>7. ReadIsCurrent'
  BY <1>1 DEF IInv, ReadIsCurrent, Holding, Processes, SameMetrics
<1>. QED BY <1>3, <1>4, <1>5, <1>6, <1>7 DEF IInv

\* A process starts rewriting the file.
LEMMA TruncateKeeps ==
  ASSUME IInv, TypeOK', NEW p \in Processes, Truncate(p)
  PROVE  IInv'
<1>. USE DEF Truncate
<1>1. /\ pc[p] = "merged" /\ pc'[p] = "writing"
      /\ \A q \in Processes \ {p} : pc'[q] = pc[q]
  BY DEF IInv, TypeOK
<1>2. \A q \in Processes : /\ Holding(q)' <=> Holding(q)
                           /\ pc'[q] = "ready" <=> pc[q] = "ready"
                           /\ pc'[q] = "idle" <=> pc[q] = "idle"
  BY <1>1 DEF Holding
<1>3. RowsCoherent'
  BY DEF IInv, RowsCoherent
<1>4. RowInHand'
  BY <1>2 DEF IInv, RowInHand, Processes
<1>5. NoFileNoWork'
  BY DEF IInv, NoFileNoWork
<1>6. OneAnswer'
  <2>1. ASSUME NEW d \in Cells, NEW a \in Answers, AnswerIs(d, a) PROVE AnswerIs(d, a)'
    BY <1>2, <2>1 DEF AnswerIs, Processes
  <2>. QED BY <2>1 DEF IInv, OneAnswer
<1>7. ReadIsCurrent'
  BY <1>2 DEF IInv, ReadIsCurrent, Processes
<1>. QED BY <1>3, <1>4, <1>5, <1>6, <1>7 DEF IInv

\* A process is done with a row: it may have written its buffer, or left a
\* torn file.
LEMMA LeaveKeeps ==
  ASSUME IInv, TypeOK', NEW p \in Processes, Leave(p), todo' \in SUBSET todo,
         p # "run" => todo' = todo,
         NEW c, p # "run" \/ pc[p] # "ready" => c = cell[p] /\ c \in Cells,
         \/ disk' = disk
         \/ c \in Cells /\ disk' = [disk EXCEPT ![c] = TornRow]
         \/ pc[p] = "writing" /\ disk' = [disk EXCEPT ![c] = buf[p]] /\ missed' = Outdate(p, c),
         \A q \in Processes \ {p} : missed'[q] = missed[q] \/ missed' = Outdate(p, c)
  PROVE  IInv'
<1>. USE DEF Leave
<1>1. /\ pc'[p] = IF p = "run" /\ todo' # {} THEN "ready" ELSE "idle"
      /\ cell'[p] = NoCell
      /\ \A q \in Processes \ {p} : pc'[q] = pc[q] /\ cell'[q] = cell[q] /\ seen'[q] = seen[q]
                                      /\ buf'[q] = buf[q]
  BY DEF IInv, TypeOK
<1>2. \A d \in todo' : d \in todo /\ snap'[d] = snap[d]
  OBVIOUS
<1>3. ~Holding(p)' /\ (p # "run" => pc'[p] = "idle")
  BY <1>1 DEF Holding
<1>4. \A d \in Cells :
        \/ disk'[d] = disk[d]
        \/ disk'[d] = TornRow
        \/ d = c /\ Holding(p) /\ cell[p] = c /\ disk'[d] = buf[p] /\ missed' = Outdate(p, c)
  BY DEF IInv, TypeOK, Holding
<1>5. Holding(p) => Whole(buf[p]) /\ Coherent(buf[p])
  BY DEF IInv, RowInHand
<1>6. RowsCoherent'
  BY <1>4, <1>5, NoneType DEF IInv, RowsCoherent
<1>7. RowInHand'
  BY <1>1, <1>2, <1>3 DEF IInv, RowInHand, Holding, Processes
<1>8. NoFileNoWork'
  <2>1. TornRow.file # "absent"
    BY DEF TornRow, RowOf
  <2>2. \A d \in Cells : disk'[d].file = "absent" => disk[d].file = "absent"
    BY <1>4, <1>5, <2>1 DEF Whole
  <2>. QED BY <1>1, <1>2, <2>2, CellsAssumption DEF IInv, NoFileNoWork
<1>9. OneAnswer'
  <2>1. ASSUME NEW d \in Cells, NEW a \in Answers, AnswerIs(d, a) PROVE AnswerIs(d, a)'
    BY <1>1, <1>2, <1>3, <1>4, <2>1, NoneType DEF AnswerIs, Holding, Processes
  <2>. QED BY <2>1 DEF IInv, OneAnswer
<1>10. ReadIsCurrent'
  <2>1. ASSUME NEW q \in Processes \ {p} PROVE missed[q] \subseteq missed'[q]
    BY DEF IInv, TypeOK, Outdate
  <2>2. ASSUME NEW q \in Processes \ {p}, NEW d \in Cells, Whole(disk'[d]), cell[q] = d,
               disk'[d] # disk[d]
        PROVE  missed'[q] # {} /\ (pc[q] # "ready" => "read" \in missed'[q])
    <3>1. d = c /\ missed' = Outdate(p, c)
      BY <1>4, <2>2, NoneType
    <3>. QED BY <2>2, <3>1 DEF Outdate
  <2>. QED
    BY <1>1, <1>3, <2>1, <2>2 DEF IInv, ReadIsCurrent, Holding, Processes
<1>. QED BY <1>6, <1>7, <1>8, <1>9, <1>10 DEF IInv

\* The operator removes a file nobody can read, with nothing under way.
LEMMA DeleteKeeps ==
  ASSUME IInv, TypeOK', NEW c \in Cells, DeleteTorn(c)
  PROVE  IInv'
<1>. USE DEF DeleteTorn
<1>1. disk'[c] = AbsentRow /\ \A d \in Cells \ {c} : disk'[d] = disk[d]
  BY DEF IInv, TypeOK
<1>2. todo = {} /\ \A p \in Processes : cell[p] = NoCell
  BY DEF IInv, RowInHand, Processes
<1>3. RowsCoherent'
  BY <1>1, NoneType DEF IInv, RowsCoherent
<1>4. RowInHand'
  BY DEF IInv, RowInHand, Holding
<1>5. NoFileNoWork'
  BY <1>2, CellsAssumption DEF NoFileNoWork
<1>6. OneAnswer'
  <2>1. ASSUME NEW d \in Cells, NEW a \in Answers, AnswerIs(d, a) PROVE AnswerIs(d, a)'
    BY <1>1, <2>1, NoneType DEF AnswerIs, Holding
  <2>. QED BY <2>1 DEF IInv, OneAnswer
<1>7. ReadIsCurrent'
  BY <1>2, CellsAssumption DEF ReadIsCurrent, Processes
<1>. QED BY <1>3, <1>4, <1>5, <1>6, <1>7 DEF IInv

LEMMA StutterKeeps ==
  ASSUME IInv, UNCHANGED vars
  PROVE  IInv'
BY DEF IInv, TypeOK, RowsCoherent, RowInHand, NoFileNoWork, OneAnswer, AnswerIs, ReadIsCurrent,
       Holding, vars

\* The row a pass is about to write is coherent: the metrics pass scores an
\* answered row without a rubric, the judge adds a rubric to an answered row.
LEMMA PassRowCoherent ==
  ASSUME IInv, NEW c \in todo, NEW scores \in Layer1Vector, NEW rubric \in Values,
         Whole(disk[c])
  PROVE  LET r == PassRow(c, NewMetrics(c, scores, rubric))
         IN  r \in Row /\ Whole(r) /\ Coherent(r) /\ r.answer = disk[c].answer
               /\ SameAnnotation(disk[c], r)
<1>. DEFINE mv == NewMetrics(c, scores, rubric)
            r == PassRow(c, mv)
<1>1. TypeOK /\ c \in Cells
  BY DEF IInv, TypeOK
<1>2. mv \in MetricVector
  BY <1>1, NewMetricsType
<1>3. /\ r \in Row /\ r.file = disk[c].file /\ r.answer = disk[c].answer
      /\ r.metrics = mv /\ r.final = FinalOf(mv)
      /\ pass = "judge" => r.regime = "judge"
      /\ SameAnnotation(disk[c], r)
  BY <1>1, <1>2, PassRowType
<1>4. r.answer # Blank
  <2>1. snap[c].answer # Blank
    BY DEF IInv, RowInHand, Answered
  <2>2. snap[c].answer = disk[c].answer
    BY <1>1 DEF IInv, OneAnswer, AnswerIs
  <2>. QED BY <1>3, <2>1, <2>2
<1>5. pass = "metrics" => mv[Rubric] = NaN
  BY DEF NewMetrics, Layer1Only, Metrics, Layer1, Rubric
<1>6. ~Unjudged(r) => r.regime = "judge"
  BY <1>1, <1>3, <1>5 DEF Unjudged, TypeOK
<1>. HIDE DEF r, mv
<1>7. Whole(r) /\ Coherent(r)
  BY <1>3, <1>4, <1>6 DEF Whole, Coherent
<1>. QED BY <1>3, <1>7 DEF r, mv

LEMMA InvariantStep == IInv /\ [Next]_vars => IInv'
<1>. SUFFICES ASSUME IInv, [Next]_vars PROVE IInv'
  OBVIOUS
<1>t. TypeOK /\ RowInHand /\ TypeOK'
  BY TypeStep DEF IInv
<1>1. ASSUME NEW c \in Cells, NEW a \in Answers, Generate(c, a) PROVE IInv'
  BY <1>1, <1>t, AppendKeeps
<1>2. ASSUME NEW which \in {"metrics", "judge"}, LoadPass(which) PROVE IInv'
  BY <1>2, <1>t, LoadKeeps
<1>3. ASSUME NEW c \in Cells, NEW scores \in Layer1Vector, NEW rubric \in Values,
             MergePass(c, NewMetrics(c, scores, rubric))
      PROVE  IInv'
  <2>. DEFINE r == PassRow(c, NewMetrics(c, scores, rubric))
  <2>1. c \in todo /\ Whole(disk[c]) /\ pc["run"] = "ready"
    BY <1>3 DEF MergePass, Readable
  <2>2. r \in Row /\ Whole(r) /\ Coherent(r) /\ r.answer = disk[c].answer
          /\ SameAnnotation(disk[c], r)
    BY <2>1, PassRowCoherent
  <2>3. Hold("run", c, r) /\ todo' \in SUBSET todo
    BY <1>3 DEF MergePass, PassRow
  <2>4. "run" \in Processes
    BY DEF Processes
  <2>. HIDE DEF r
  <2>. QED BY <2>1, <2>2, <2>3, <2>4, <1>t, HoldKeeps
<1>4. ASSUME NEW c \in Cells, FailPass(c) PROVE IInv'
  <2>1. /\ "run" \in Processes /\ Leave("run") /\ todo' \in SUBSET todo
        /\ pc["run"] = "ready" /\ disk' = disk /\ missed' = missed
    BY <1>4 DEF FailPass, Processes
  <2>. QED BY <2>1, <1>t, LeaveKeeps
<1>5. ASSUME NEW c \in Cells, AnnotateLoad(c) PROVE IInv'
  BY <1>5, <1>t, LookKeeps DEF AnnotateLoad
<1>6. ASSUME NEW flag \in Flags, NEW note \in Notes \cup {None}, AnnotateMerge(flag, note)
      PROVE  IInv'
  <2>. DEFINE c == cell["annotate"]
              r == AnnotatedRow(c, flag, note)
  <2>1. /\ "annotate" \in Processes /\ pc["annotate"] = "ready" /\ flag \in {0, 1}
        /\ Whole(disk[c]) /\ todo' = todo
    BY <1>6 DEF AnnotateMerge, Readable, Processes
  <2>2. c \in Cells
    BY <2>1, <1>t, InHand
  <2>3. Hold("annotate", c, r)
    BY <1>6 DEF AnnotateMerge, AnnotatedRow
  <2>4. /\ r \in Row /\ r.file = disk[c].file /\ r.answer = disk[c].answer
        /\ SameMetrics(seen["annotate"], r)
    BY <2>1, <2>2, <1>t, AnnotatedRowType
  <2>5. Coherent(seen["annotate"]) /\ seen["annotate"].answer = r.answer
    BY <2>1, <2>2, <2>4 DEF IInv, RowInHand, OneAnswer, AnswerIs
  <2>. HIDE DEF r
  <2>6. Whole(r) /\ Coherent(r)
    BY <2>1, <2>4, <2>5 DEF Whole, Coherent, SameMetrics, Unjudged
  <2>. QED BY <2>1, <2>2, <2>3, <2>4, <2>6, <1>t, HoldKeeps
<1>7. ASSUME NEW c \in Cells, NEW forced \in BOOLEAN, IngestLook(c, forced) PROVE IInv'
  BY <1>7, <1>t, LookKeeps DEF IngestLook, Readable
<1>8. ASSUME NEW flag \in Flags, NEW note \in Notes \cup {None}, IngestMerge(flag, note)
      PROVE  IInv'
  <2>. DEFINE c == cell["ingest"]
              r == UpdateAnnotation(disk[c], flag, note)
  <2>1. /\ "ingest" \in Processes /\ pc["ingest"] = "ready" /\ flag \in {0, 1}
        /\ Whole(disk[c]) /\ todo' = todo /\ Hold("ingest", c, r)
    BY <1>8 DEF IngestMerge, Readable, Processes
  <2>2. c \in Cells
    BY <2>1, <1>t, InHand
  <2>3. /\ r \in Row /\ r.file = disk[c].file /\ r.answer = disk[c].answer
        /\ SameMetrics(disk[c], r)
    BY <2>1, <2>2, <1>t, IngestedRowType
  <2>4. Coherent(disk[c])
    BY <2>1, <2>2 DEF IInv, RowsCoherent
  <2>. HIDE DEF r
  <2>5. Whole(r) /\ Coherent(r)
    BY <2>1, <2>3, <2>4 DEF Whole, Coherent, SameMetrics, Unjudged
  <2>. QED BY <2>1, <2>2, <2>3, <2>5, <1>t, HoldKeeps
<1>9. ASSUME NEW p \in Processes, Truncate(p) PROVE IInv'
  BY <1>9, <1>t, TruncateKeeps
<1>10. ASSUME NEW p \in Processes, Fill(p) PROVE IInv'
  <2>1. /\ Leave(p) /\ todo' = todo /\ pc[p] = "writing" /\ missed' = Outdate(p, cell[p])
        /\ \E r \in {buf[p], TornRow} : disk' = [disk EXCEPT ![cell[p]] = r]
    BY <1>10 DEF Fill
  <2>2. cell[p] \in Cells
    BY <2>1, <1>t, InHand
  <2>. QED BY <2>1, <2>2, <1>t, LeaveKeeps
<1>11. ASSUME NEW p \in Processes, Kill(p) PROVE IInv'
  <2>1. /\ Leave(p) /\ pc[p] # "idle" /\ missed' = [missed EXCEPT ![p] = {}]
        /\ todo' = IF p = "run" THEN {} ELSE todo
        /\ disk' = IF pc[p] = "writing" THEN [disk EXCEPT ![cell[p]] = TornRow] ELSE disk
    BY <1>11 DEF Kill
  <2>2. p # "run" \/ pc[p] # "ready" => cell[p] \in Cells
    BY <2>1, <1>t, InHand
  <2>3. \A q \in Processes \ {p} : missed'[q] = missed[q]
    BY <2>1, <1>t DEF TypeOK
  <2>. QED BY <2>1, <2>2, <2>3, <1>t, LeaveKeeps
<1>12. ASSUME NEW p \in {"annotate", "ingest"}, FailAnnotation(p) PROVE IInv'
  <2>1. /\ p \in Processes /\ Leave(p) /\ todo' = todo /\ pc[p] = "ready" /\ disk' = disk
        /\ missed' = [missed EXCEPT ![p] = {}]
    BY <1>12 DEF FailAnnotation, Processes
  <2>2. cell[p] \in Cells
    BY <2>1, <1>12, <1>t, InHand
  <2>3. \A q \in Processes \ {p} : missed'[q] = missed[q]
    BY <2>1, <1>t DEF TypeOK
  <2>. QED BY <2>1, <2>2, <2>3, <1>t, LeaveKeeps
<1>13. ASSUME NEW c \in Cells, DeleteTorn(c) PROVE IInv'
  BY <1>13, <1>t, DeleteKeeps
<1>14. CASE UNCHANGED vars
  BY <1>14, StutterKeeps
<1>. QED
  BY <1>1, <1>2, <1>3, <1>4, <1>5, <1>6, <1>7, <1>8, <1>9, <1>10, <1>11, <1>12, <1>13, <1>14
  DEF Next, RunStep, AnnotateStep, IngestStep, FileStep

\* The inductive invariant holds of every interleaving of the three processes.
THEOREM Invariant == Spec => []IInv
<1>. QED BY InvariantInit, InvariantStep, PTL DEF Spec

\* Every variable keeps its type.
THEOREM TypeCorrect == Spec => []TypeOK
<1>1. IInv => TypeOK
  BY DEF IInv
<1>. QED BY <1>1, Invariant, PTL

\* A row is coherent whichever of the three wrote it last.
THEOREM RowsAlwaysCoherent == Spec => []RowsCoherent
<1>1. IInv => RowsCoherent
  BY DEF IInv
<1>. QED BY <1>1, Invariant, PTL

-----------------------------------------------------------------------------
(* What a step may do to a row.                                            *)

\* A row that stays whole is the one before, or what a process had in hand.
LEMMA RowStep ==
  ASSUME IInv, [Next]_vars, NEW c \in Cells, Whole(disk[c]), Whole(disk'[c])
  PROVE  \/ disk'[c] = disk[c]
         \/ \E p \in Processes : Holding(p) /\ cell[p] = c /\ disk'[c] = buf[p]
<1>t. TypeOK
  BY DEF IInv
<1>1. ASSUME NEW d \in Cells, NEW a \in Answers, Generate(d, a) PROVE disk'[c] = disk[c]
  BY <1>1, <1>t DEF Generate, Whole, TypeOK
<1>2. ASSUME NEW p \in Processes, Fill(p)
      PROVE  disk'[c] = disk[c] \/ (Holding(p) /\ cell[p] = c /\ disk'[c] = buf[p])
  BY <1>2, <1>t, NoneType DEF Fill, Holding, TypeOK
<1>3. ASSUME NEW p \in Processes, Kill(p) PROVE disk'[c] = disk[c]
  BY <1>3, <1>t, NoneType DEF Kill, TypeOK
<1>4. ASSUME NEW d \in Cells, DeleteTorn(d) PROVE disk'[c] = disk[c]
  BY <1>4, <1>t DEF DeleteTorn, Whole, TypeOK
<1>5. CASE disk' = disk
  BY <1>5
<1>. QED
  BY <1>1, <1>2, <1>3, <1>4, <1>5
  DEF Next, RunStep, AnnotateStep, IngestStep, FileStep, LoadPass, MergePass, FailPass,
      AnnotateLoad, AnnotateMerge, IngestLook, IngestMerge, FailAnnotation, Truncate, Hold, Look, vars

\* A process ends a write by a step of its own.
LEMMA WriteStep ==
  ASSUME IInv, [Next]_vars, NEW p \in Processes, NEW c \in Cells, Rewrites(p, c)
  PROVE  Holding(p) /\ disk'[c] = buf[p]
<1>t. TypeOK
  BY DEF IInv
<1>. USE DEF Rewrites
<1>1. CASE Fill(p)
  BY <1>1, <1>t, NoneType DEF Fill, Holding, TypeOK
<1>2. CASE Kill(p)
  BY <1>2, <1>t, NoneType DEF Kill, TypeOK
<1>3. ASSUME NEW q \in Processes \ {p}, Fill(q) \/ Kill(q) PROVE FALSE
  BY <1>3, <1>t DEF Fill, Kill, Leave, TypeOK
<1>4. ASSUME NEW q \in Processes, Truncate(q) PROVE FALSE
  BY <1>4, <1>t DEF Truncate, TypeOK
<1>5. ASSUME NEW q \in Processes, NEW d, NEW r, pc[q] = "ready", Hold(q, d, r) PROVE FALSE
  BY <1>5, <1>t DEF Hold, TypeOK
<1>6. ASSUME NEW q \in Processes, NEW d, Look(q, d) PROVE FALSE
  BY <1>6, <1>t DEF Look, TypeOK
<1>7. ASSUME NEW q \in Processes, pc[q] = "ready", Leave(q) PROVE FALSE
  BY <1>7, <1>t DEF Leave, TypeOK
<1>8. CASE RunStep
  <2>1. ASSUME NEW which \in {"metrics", "judge"}, LoadPass(which) PROVE FALSE
    BY <2>1, <1>t DEF LoadPass, TypeOK, Processes
  <2>. QED BY <2>1, <1>5, <1>7, <1>8 DEF RunStep, Generate, MergePass, FailPass, Processes
<1>9. CASE AnnotateStep
  BY <1>9, <1>5, <1>6 DEF AnnotateStep, AnnotateLoad, AnnotateMerge, Processes
<1>10. CASE IngestStep
  BY <1>10, <1>5, <1>6 DEF IngestStep, IngestLook, IngestMerge, Processes
<1>11. CASE FileStep
  BY <1>11, <1>1, <1>2, <1>3, <1>4, <1>7 DEF FileStep, FailAnnotation, DeleteTorn, Processes
<1>12. CASE UNCHANGED vars
  BY <1>12 DEF vars
<1>. QED BY <1>8, <1>9, <1>10, <1>11, <1>12 DEF Next

\* A row keeps its answer, however the three interleave.
THEOREM AnswersKept == Spec => AnswerKept
<1>1. ASSUME IInv, [Next]_vars, NEW c \in Cells, Whole(disk[c]), Whole(disk'[c])
      PROVE  disk'[c].answer = disk[c].answer
  <2>1. PICK a \in Answers : AnswerIs(c, a)
    BY <1>1 DEF IInv, OneAnswer
  <2>. QED BY <1>1, <2>1, RowStep DEF AnswerIs
<1>2. IInv /\ [Next]_vars =>
        [\A c \in Cells :
           (Whole(disk[c]) /\ Whole(disk'[c])) => disk'[c].answer = disk[c].answer]_vars
  BY <1>1
<1>. QED BY <1>2, Invariant, PTL DEF Spec, AnswerKept

\* A pass keeps every annotation that was there when it read the file.
THEOREM PassesKeepAnnotations == Spec => PassKeepsAnnotation
<1>1. ASSUME IInv, [Next]_vars, NEW c \in Cells, Rewrites("run", c), "read" \notin missed["run"]
      PROVE  SameAnnotation(disk[c], disk'[c])
  <2>1. Holding("run") /\ disk'[c] = buf["run"]
    BY <1>1, WriteStep DEF Processes
  <2>. QED BY <1>1, <2>1 DEF IInv, ReadIsCurrent, Rewrites
<1>2. IInv /\ [Next]_vars =>
        [\A c \in Cells : (Rewrites("run", c) /\ "read" \notin missed["run"]) =>
            SameAnnotation(disk[c], disk'[c])]_vars
  BY <1>1
<1>. QED BY <1>2, Invariant, PTL DEF Spec, PassKeepsAnnotation

\* The ingestion keeps the metrics that were there when it read the file.
THEOREM IngestionsKeepMetrics == Spec => IngestKeepsMetrics
<1>1. ASSUME IInv, [Next]_vars, NEW c \in Cells, Rewrites("ingest", c),
             "read" \notin missed["ingest"]
      PROVE  SameMetrics(disk[c], disk'[c])
  <2>1. Holding("ingest") /\ disk'[c] = buf["ingest"]
    BY <1>1, WriteStep DEF Processes
  <2>. QED BY <1>1, <2>1 DEF IInv, ReadIsCurrent, Rewrites
<1>2. IInv /\ [Next]_vars =>
        [\A c \in Cells : (Rewrites("ingest", c) /\ "read" \notin missed["ingest"]) =>
            SameMetrics(disk[c], disk'[c])]_vars
  BY <1>1
<1>. QED BY <1>2, Invariant, PTL DEF Spec, IngestKeepsMetrics

\* An update nothing came in between of changes its own columns only.
THEOREM UpdatesAreAtomic == Spec => AtomicUnlessOverlapped
<1>. DEFINE Atomic(c) ==
       /\ (Rewrites("run", c) /\ missed["run"] = {}) => SameAnnotation(disk[c], disk'[c])
       /\ \A p \in {"annotate", "ingest"} :
            (Rewrites(p, c) /\ missed[p] = {}) => SameMetrics(disk[c], disk'[c])
       /\ (Rewrites("ingest", c) /\ missed["ingest"] = {} /\ ~force) => disk[c].flag = None
<1>1. ASSUME IInv, [Next]_vars, NEW c \in Cells PROVE Atomic(c)
  <2>1. \A p \in Processes : Rewrites(p, c) =>
          Holding(p) /\ disk'[c] = buf[p] /\ cell[p] = c /\ Whole(disk[c]) /\ pc[p] = "writing"
    BY <1>1, WriteStep DEF Rewrites
  <2>2. (Rewrites("run", c) /\ missed["run"] = {}) => SameAnnotation(disk[c], disk'[c])
    BY <1>1, <2>1 DEF IInv, ReadIsCurrent, Processes
  <2>3. (Rewrites("annotate", c) /\ missed["annotate"] = {}) => SameMetrics(disk[c], disk'[c])
    BY <1>1, <2>1 DEF IInv, ReadIsCurrent, Processes
  <2>4. (Rewrites("ingest", c) /\ missed["ingest"] = {}) => SameMetrics(disk[c], disk'[c])
    BY <1>1, <2>1 DEF IInv, ReadIsCurrent, Processes
  <2>5. (Rewrites("ingest", c) /\ missed["ingest"] = {} /\ ~force) => disk[c].flag = None
    BY <1>1, <2>1 DEF IInv, ReadIsCurrent, Processes
  <2>. QED BY <2>2, <2>3, <2>4, <2>5
<1>2. IInv /\ [Next]_vars => [\A c \in Cells : Atomic(c)]_vars
  BY <1>1
<1>. QED BY <1>2, Invariant, PTL DEF Spec, AtomicUnlessOverlapped

=============================================================================
