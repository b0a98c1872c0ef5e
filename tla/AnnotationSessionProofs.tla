------------------------ MODULE AnnotationSessionProofs ------------------------
(***************************************************************************)
(* For any rows, texts, thresholds and quota: the decisions of a sheet     *)
(* arrive, and nothing else of the sheet does.                             *)
(***************************************************************************)
EXTENDS AnnotationSession, FiniteSetTheorems, TLAPS

\* What the store and the sheet hold.
Row == [final : Levels \cup {NaN}, rubric : Levels \cup {NaN},
        flag : {None, 0, 1}, note : Notes \cup {None}]

LEMMA RowsType == TypeOK <=> /\ rows \in [Cells -> Row]
                             /\ queue \in Seq(Cells)
                             /\ sheet \in Seq(Lines)
                             /\ edited \in SUBSET Cells /\ others \in SUBSET Cells
                             /\ line \in 0..(Len(sheet) + 1) /\ force \in BOOLEAN
BY DEF TypeOK, Row

\* A listing of the queue or of the sheet has each row once (a worst-first sort
\* is stable, hence strict here).
LEMMA ListingIsInjective ==
  ASSUME rows \in [Cells -> Row], NEW X \in SUBSET Cells, NEW s \in Listings(X)
  PROVE  /\ Cardinality(X) \in Nat
         /\ s \in [1..Cardinality(X) -> X]
         /\ s \in Seq(Cells) /\ Len(s) = Cardinality(X)
         /\ \A i, j \in 1..Cardinality(X) : s[i] = s[j] => i = j
<1>1. Cardinality(X) \in Nat
  BY SessionAssumption, FS_Subset, FS_CardinalityType
<1>2. s \in [1..Cardinality(X) -> X]
  BY DEF Listings
<1>3. \A x \in Cells : Key(rows[x].final) \in Int
  <2>1. \A x \in Cells : rows[x].final \in Levels \cup {NaN}
    BY DEF Row
  <2>2. \A v \in Levels \cup {NaN} : Key(v) \in Int
    BY SessionAssumption DEF Key
  <2>. QED BY <2>1, <2>2
<1>4. \A x \in Cells : ~Before(x, x)
  BY <1>3, SessionAssumption DEF Before
<1>5. \A i, j \in 1..Cardinality(X) : i < j => s[i] # s[j]
  <2>. SUFFICES ASSUME NEW i \in 1..Cardinality(X), NEW j \in 1..Cardinality(X), i < j
                PROVE  s[i] # s[j]
    OBVIOUS
  <2>1. Before(s[i], s[j])
    BY DEF Listings
  <2>2. s[i] \in Cells
    BY <1>2
  <2>. QED BY <2>1, <2>2, <1>4
<1>6. \A i, j \in 1..Cardinality(X) : i < j \/ i = j \/ j < i
  BY <1>1
<1>7. s \in Seq(Cells) /\ Len(s) = Cardinality(X)
  BY <1>1, <1>2
<1>. QED BY <1>1, <1>2, <1>5, <1>6, <1>7

\* The first rows of a listing.
LEMMA FirstType ==
  ASSUME NEW s \in Seq(Cells)
  PROVE  First(MaxToReview, s) \in Seq(Cells)
<1>. DEFINE m == IF Len(s) < MaxToReview THEN Len(s) ELSE MaxToReview
<1>1. m \in 0..Len(s)
  BY SessionAssumption
<1>2. SubSeq(s, 1, m) \in Seq(Cells)
  BY <1>1
<1>. QED BY <1>2 DEF First

\* The lines of a sheet.
LEMMA LineType ==
  ASSUME TypeOK, NEW i \in DOMAIN sheet
  PROVE  i \in 1..Len(sheet) /\ sheet[i] \in Lines /\ sheet[i].cell \in Cells
<1>1. sheet \in Seq(Lines)
  BY DEF TypeOK
<1>2. i \in 1..Len(sheet) /\ sheet[i] \in Lines
  BY <1>1
<1>. QED BY <1>2 DEF Lines

LEMMA InitIsTyped == Init => IInv
<1>. SUFFICES ASSUME Init PROVE IInv
  OBVIOUS
<1>1. rows \in [Cells -> Row]
  BY DEF Init, Row
<1>2. queue \in Seq(Cells) /\ sheet \in Seq(Lines) /\ Len(sheet) = 0
  BY DEF Init
<1>3. edited = {} /\ others = {} /\ line = 0 /\ force = FALSE
  BY DEF Init
<1>4. TypeOK
  <2>1. edited \in SUBSET Cells /\ others \in SUBSET Cells
    BY <1>3
  <2>2. line \in 0..(Len(sheet) + 1)
    BY <1>2, <1>3, SMT
  <2>3. force \in BOOLEAN
    BY <1>3, Zenon
  <2>. QED BY <1>1, <1>2, <2>1, <2>2, <2>3 DEF TypeOK, Row
<1>. QED BY <1>4 DEF Init, IInv, SheetIsEdited, TakenArrived

-----------------------------------------------------------------------------
\* A row is given a flag, in the session or by a line of a CSV.
LEMMA ReviewKeeps ==
  ASSUME IInv, NEW x \in Cells, NEW flag \in {0, 1}, NEW note \in Notes \cup {None},
         Review(x, flag, note), queue' \in Seq(Cells)
  PROVE  IInv'
<1>. USE DEF IInv
<1>1. rows' \in [Cells -> Row]
  BY RowsType DEF Review, Row
<1>2. /\ rows'[x].flag = flag
      /\ \A c \in Cells : c # x => rows'[c] = rows[c]
  BY RowsType DEF Review, Row
<1>3. /\ others' \in SUBSET Cells
      /\ line # 0 => x \in others'
      /\ others \subseteq others'
  BY RowsType DEF Review
<1>4. TypeOK'
  BY <1>1, <1>3, RowsType DEF Review, TypeOK, Row
<1>5. SheetIsEdited'
  BY DEF Review, SheetIsEdited
<1>6. TakenArrived'
  <2>. SUFFICES ASSUME NEW i \in DOMAIN sheet, i < line, sheet[i].kind = "decided"
                PROVE  Arrived(sheet[i])'
    BY DEF TakenArrived, Review
  <2>1. Arrived(sheet[i])
    BY DEF TakenArrived
  <2>2. sheet[i].cell \in Cells
    BY LineType
  <2>3. line # 0
    BY RowsType
  <2>4. flag # None
    BY SessionAssumption
  <2>5. CASE sheet[i].cell = x
    BY <2>3, <2>4, <2>5, <1>2, <1>3 DEF Arrived, Review
  <2>6. CASE sheet[i].cell # x
    BY <2>1, <2>2, <2>6, <1>2, <1>3 DEF Arrived, Review
  <2>. QED BY <2>5, <2>6
<1>. QED BY <1>4, <1>5, <1>6

\* A new sheet has a line for each row it lists, and no decision.
LEMMA ExportKeeps ==
  ASSUME IInv, Export
  PROVE  IInv'
<1>. USE DEF IInv
<1>1. rows \in [Cells -> Row]
  BY RowsType
<1>2. PICK order \in Listings(Exported) :
         sheet' = [i \in 1..Cardinality(Exported) |-> Entry(order[i], None)]
  BY DEF Export
<1>3. Exported \in SUBSET Cells
  BY DEF Exported
<1>. DEFINE n == Cardinality(Exported)
<1>4. /\ n \in Nat
      /\ order \in [1..n -> Exported]
      /\ \A i, j \in 1..n : order[i] = order[j] => i = j
  BY <1>1, <1>2, <1>3, ListingIsInjective
<1>. HIDE DEF n
<1>5. \A i \in 1..n : /\ Entry(order[i], None) \in Lines
                      /\ Entry(order[i], None).cell = order[i]
                      /\ Entry(order[i], None).kind = "open"
  BY <1>1, <1>3, <1>4 DEF Entry, Lines, Row
<1>6. sheet' = [i \in 1..n |-> Entry(order[i], None)]
  BY <1>2 DEF n
<1>7. sheet' \in Seq(Lines) /\ DOMAIN sheet' = 1..n /\ Len(sheet') \in Nat
  BY <1>4, <1>5, <1>6
<1>8. TypeOK'
  <2>1. /\ UNCHANGED <<rows, queue, line, force, others>>
        /\ edited' = {} /\ line = 0
    BY DEF Export
  <2>. QED BY <1>7, <2>1 DEF TypeOK
<1>9. SheetIsEdited'
  BY <1>4, <1>5, <1>6, <1>7 DEF SheetIsEdited
<1>10. TakenArrived'
  BY <1>7 DEF TakenArrived, Export
<1>. QED BY <1>8, <1>9, <1>10

\* The specialist's edits: decisions are recorded, and lines keep their rows.
LEMMA EditsKeep ==
  ASSUME IInv, NEW i \in DOMAIN sheet,
         \/ \E flag \in {0, 1}, note \in Notes \cup {None} : Decide(i, flag, note)
         \/ \E kind \in {"invalid", "lost"} : Spoil(i, kind)
  PROVE  IInv'
<1>. USE DEF IInv
<1>1. /\ sheet \in Seq(Lines) /\ line = 0 /\ line' = 0
      /\ sheet[i] \in Lines
  BY RowsType DEF Decide, Spoil
<1>2. /\ sheet' \in Seq(Lines) /\ DOMAIN sheet' = DOMAIN sheet /\ Len(sheet') = Len(sheet)
      /\ edited' \in SUBSET Cells
  <2>1. ASSUME NEW l \in Lines
        PROVE  /\ \A flag \in {0, 1}, note \in Notes \cup {None} :
                    [l EXCEPT !.kind = "decided", !.flag = flag, !.note = note] \in Lines
               /\ \A kind \in {"invalid", "lost"} : [l EXCEPT !.kind = kind] \in Lines
    BY DEF Lines
  <2>2. PICK l \in Lines : sheet' = [sheet EXCEPT ![i] = l]
    BY <1>1, <2>1 DEF Decide, Spoil
  <2>3. sheet' \in Seq(Lines) /\ DOMAIN sheet' = DOMAIN sheet /\ Len(sheet') = Len(sheet)
    BY <1>1, <2>2
  <2>4. edited' \in SUBSET Cells
    BY LineType DEF TypeOK, Decide, Spoil
  <2>. QED BY <2>3, <2>4
<1>3. \A j \in DOMAIN sheet : sheet'[j].cell = sheet[j].cell
  BY <1>1 DEF Decide, Spoil, Lines
<1>4. \A j \in DOMAIN sheet : sheet'[j].kind = "decided" =>
        sheet[j].cell \in edited' /\ sheet'[j].flag # None
  BY <1>1, SessionAssumption DEF Decide, Spoil, Lines, SheetIsEdited
<1>5. TypeOK'
  BY <1>1, <1>2 DEF Decide, Spoil, TypeOK
<1>6. SheetIsEdited'
  BY <1>2, <1>3, <1>4 DEF SheetIsEdited
<1>7. TakenArrived'
  BY <1>1, <1>2 DEF TakenArrived
<1>. QED BY <1>5, <1>6, <1>7

\* The line in hand is taken or left, the rows of the lines before it are not
\* touched again.
LEMMA IngestLineKeeps ==
  ASSUME IInv, IngestLine
  PROVE  IInv'
<1>. USE DEF IInv
<1>. DEFINE l == sheet[line]
<1>1. /\ rows \in [Cells -> Row] /\ sheet \in Seq(Lines)
      /\ line \in DOMAIN sheet /\ line \in 1..Len(sheet)
      /\ line' = line + 1 /\ sheet' = sheet /\ force' = force /\ others' = others
      /\ l \in Lines
  BY RowsType DEF IngestLine
<1>2. rows' = IF Takes(l) THEN [rows EXCEPT ![l.cell] = Ingested(@, l)] ELSE rows
  BY DEF IngestLine
<1>. HIDE DEF l
<1>3. rows' \in [Cells -> Row]
  BY <1>1, <1>2 DEF Ingested, Row, Lines
<1>4. /\ \A c \in Cells : c # l.cell => rows'[c] = rows[c]
      /\ l.cell \in Cells
      /\ Takes(l) => rows'[l.cell].flag = l.flag /\ rows'[l.cell].note = l.note
      /\ ~Takes(l) => rows' = rows
  BY <1>1, <1>2 DEF Ingested, Row, Lines
<1>5. TypeOK'
  BY <1>1, <1>3 DEF IngestLine, TypeOK, Row
<1>6. SheetIsEdited'
  BY DEF IngestLine, SheetIsEdited
<1>7. TakenArrived'
  <2>. SUFFICES ASSUME NEW i \in DOMAIN sheet, i < line + 1, sheet[i].kind = "decided"
                PROVE  Arrived(sheet[i])'
    BY <1>1 DEF TakenArrived
  <2>1. CASE i = line
    <3>1. l.kind = "decided" /\ l.flag # None /\ sheet[i] = l
      BY <2>1 DEF SheetIsEdited, l
    <3>2. CASE Takes(l)
      BY <3>1, <3>2, <1>1, <1>4 DEF Arrived
    <3>3. CASE ~Takes(l)
      BY <3>1, <3>3, <1>1, <1>4 DEF Arrived, Takes
    <3>. QED BY <3>2, <3>3
  <2>2. CASE i # line
    <3>1. i < line
      BY <2>2, <1>1
    <3>2. Arrived(sheet[i])
      BY <3>1 DEF TakenArrived
    <3>3. sheet[i].cell \in Cells /\ sheet[i].cell # l.cell
      <4>1. sheet[i].cell \in Cells
        BY LineType
      <4>2. sheet[i].cell # sheet[line].cell
        BY <1>1, <2>2 DEF SheetIsEdited
      <4>. QED BY <4>1, <4>2 DEF l
    <3>. QED BY <1>1, <1>4, <3>2, <3>3 DEF Arrived
  <2>. QED BY <2>1, <2>2
<1>. QED BY <1>5, <1>6, <1>7

\* The judge's score leaves the annotations alone.
LEMMA JudgeKeeps ==
  ASSUME IInv, NEW x \in Cells, Judge(x)
  PROVE  IInv'
<1>. USE DEF IInv
<1>. DEFINE Scored(v) == [rows[x] EXCEPT !.rubric = v, !.final = v]
<1>1. /\ rows \in [Cells -> Row]
      /\ \E v \in Levels : rows' = [rows EXCEPT ![x] = Scored(v)]
  BY RowsType DEF Judge
<1>2. \A v \in Levels : /\ Scored(v) \in Row
                       /\ Scored(v).flag = rows[x].flag /\ Scored(v).note = rows[x].note
  BY <1>1 DEF Row
<1>. HIDE DEF Scored
<1>3. rows' \in [Cells -> Row]
  BY <1>1, <1>2
<1>4. \A c \in Cells : rows'[c].flag = rows[c].flag /\ rows'[c].note = rows[c].note
  BY <1>1, <1>2
<1>5. \A i \in DOMAIN sheet : sheet[i].cell \in Cells
  BY LineType
<1>6. TypeOK'
  BY <1>3 DEF Judge, TypeOK, Row
<1>7. SheetIsEdited'
  BY DEF Judge, SheetIsEdited
<1>8. TakenArrived'
  BY <1>4, <1>5 DEF Judge, TakenArrived, Arrived
<1>. QED BY <1>6, <1>7, <1>8

\* Every step keeps the inductive invariant.
LEMMA StepKeeps == IInv /\ [Next]_vars => IInv'
<1>. SUFFICES ASSUME IInv, [Next]_vars PROVE IInv'
  OBVIOUS
<1>. USE DEF IInv
<1>1. CASE OpenQueue
  <2>1. PICK X \in SUBSET Cells : \E order \in Listings(X) : queue' = First(MaxToReview, order)
    BY <1>1 DEF OpenQueue
  <2>2. queue' \in Seq(Cells)
    BY <2>1, RowsType, ListingIsInjective, FirstType
  <2>. QED BY <1>1, <2>2 DEF OpenQueue, TypeOK, SheetIsEdited, TakenArrived, Arrived
<1>2. CASE Skip \/ Quit
  <2>1. queue' \in Seq(Cells)
    <3>1. queue \in Seq(Cells) /\ queue # <<>>
      BY <1>2 DEF TypeOK, Skip, Quit
    <3>2. Tail(queue) \in Seq(Cells) /\ <<>> \in Seq(Cells)
      BY <3>1
    <3>. QED BY <1>2, <3>2 DEF Skip, Quit
  <2>. QED BY <1>2, <2>1 DEF Skip, Quit, TypeOK, SheetIsEdited, TakenArrived, Arrived
<1>3. ASSUME NEW flag \in {0, 1}, NEW note \in Notes \cup {None}, Answer(flag, note)
      PROVE  IInv'
  <2>1. Head(queue) \in Cells /\ queue' \in Seq(Cells)
    BY <1>3 DEF TypeOK, Answer
  <2>. QED BY <1>3, <2>1, ReviewKeeps DEF Answer
<1>4. ASSUME NEW flag \in {0, 1}, NEW note \in Notes \cup {None}, NEW x \in Cells,
             CsvLine(x, flag, note)
      PROVE  IInv'
  BY <1>4, ReviewKeeps DEF CsvLine, TypeOK
<1>5. CASE Export
  BY <1>5, ExportKeeps
<1>6. CASE \E flag \in {0, 1}, note \in Notes \cup {None} : \E i \in DOMAIN sheet : Decide(i, flag, note)
  BY <1>6, EditsKeep
<1>7. CASE \E i \in DOMAIN sheet, kind \in {"invalid", "lost"} : Spoil(i, kind)
  BY <1>7, EditsKeep
<1>8. CASE \E forced \in BOOLEAN : Ingest(forced)
  <2>1. line' = 1 /\ Len(sheet) \in Nat
    BY <1>8 DEF Ingest, TypeOK
  <2>2. TypeOK'
    BY <1>8, <2>1 DEF Ingest, TypeOK
  <2>3. SheetIsEdited'
    BY <1>8 DEF Ingest, SheetIsEdited
  <2>4. TakenArrived'
    BY <1>8, <2>1 DEF Ingest, TakenArrived, TypeOK
  <2>. QED BY <2>2, <2>3, <2>4
<1>9. CASE IngestLine
  BY <1>9, IngestLineKeeps
<1>10. CASE IngestEnds \/ IngestStops
  <2>1. line' = 0 /\ Len(sheet) \in Nat
    BY <1>10 DEF IngestEnds, IngestStops, TypeOK
  <2>2. TypeOK'
    BY <1>10, <2>1 DEF IngestEnds, IngestStops, TypeOK
  <2>3. SheetIsEdited'
    BY <1>10 DEF IngestEnds, IngestStops, SheetIsEdited
  <2>4. TakenArrived'
    BY <1>10, <2>1 DEF IngestEnds, IngestStops, TakenArrived, TypeOK
  <2>. QED BY <2>2, <2>3, <2>4
<1>11. CASE \E x \in Cells : Judge(x)
  BY <1>11, JudgeKeeps
<1>12. CASE UNCHANGED vars
  BY <1>12 DEF vars, TypeOK, SheetIsEdited, TakenArrived, Arrived
<1>. QED BY <1>1, <1>2, <1>3, <1>4, <1>5, <1>6, <1>7, <1>8, <1>9, <1>10, <1>11, <1>12 DEF Next

-----------------------------------------------------------------------------
\* The inductive invariant: the sheet has a line per row and knows who decided
\* it, and the decisions of the lines an ingestion has passed are in the store.
THEOREM Invariant == Spec => []IInv
BY InitIsTyped, StepKeeps, PTL DEF Spec

\* An ingestion that ended left no decision of the specialist behind, whatever
\* bad lines are between them and whoever annotates meanwhile.
THEOREM DecisionsAlwaysArrive == Spec => []DecisionsArrive
<1>1. IInv => DecisionsArrive
  BY DEF IInv, TypeOK, TakenArrived, DecisionsArrive
<1>. QED BY <1>1, Invariant, PTL

\* An ingestion changes no row but those the specialist decided, however old
\* the sheet is and with or without --force.
THEOREM OnlyDecisionsAreIngested == Spec => OnlyDecisionsIngested
<1>1. IInv /\ [Next]_vars => [IngestLine => \A x \in Cells : rows'[x] # rows[x] => x \in edited]_vars
  <2>. SUFFICES ASSUME IInv, IngestLine, NEW x \in Cells, rows'[x] # rows[x]
                PROVE  x \in edited
    OBVIOUS
  <2>1. sheet[line].cell = x /\ sheet[line].kind = "decided"
    BY DEF IInv, TypeOK, IngestLine, Takes
  <2>. QED BY <2>1 DEF IInv, SheetIsEdited, IngestLine
<1>. QED BY <1>1, Invariant, PTL DEF Spec, OnlyDecisionsIngested

=============================================================================
