-------------------------- MODULE AnnotationSession --------------------------
(***************************************************************************)
(* The review of a round by people (cli.py `annotate`): one reviewer       *)
(* answers the prompts of the interactive session or sends a CSV           *)
(* (annotation_workflow.py), a specialist edits the sheet of `--export`    *)
(* offline and `--ingest` takes it back (ingest_annotation.py), while the  *)
(* judge still scores rows.  Queue and sheet are copies of a store that    *)
(* moves on; a write of one row is a step here, and ConcurrentAnnotation   *)
(* takes it apart.                                                         *)
(***************************************************************************)
EXTENDS Integers, Sequences, FiniteSets

CONSTANTS
  Cells,             \* rows of the round, numbered in the order of the store
  NaN, None,
  Levels,            \* values of a final score and of a rubric
  ScoreThreshold, RubricThreshold,  \* of the queue
  ExportThreshold,   \* of the sheet
  MaxToReview,       \* --max
  Notes              \* texts of a note; None stands for the empty one

ASSUME SessionAssumption ==
  /\ Cells \subseteq Nat /\ IsFiniteSet(Cells)
  /\ Levels \subseteq Nat
  /\ NaN \notin Levels
  /\ None \notin Notes \cup {0, 1}
  /\ MaxToReview \in Nat

VARIABLES
  rows,     \* the store: cell -> [final, rubric, flag, note]
  queue,    \* cells the session has still to ask about, worst first
  sheet,    \* lines of the exported JSONL: [cell, kind, flag, note]
  edited,   \* the specialist's decisions since the export
  line,     \* next line of the ingestion under way, 0 when there is none
  force,    \* --force of that ingestion
  others    \* cells another reviewer wrote since it began

vars == <<rows, queue, sheet, edited, line, force, others>>

Below(v, threshold) == v # NaN /\ v < threshold
Key(v) == IF v = NaN THEN -1 ELSE v

Init ==
  /\ rows \in [Cells -> {[final |-> v, rubric |-> v, flag |-> None, note |-> None] : v \in Levels \cup {NaN}}]
  /\ queue = <<>> /\ sheet = <<>> /\ edited = {}
  /\ line = 0 /\ force = FALSE /\ others = {}

\* Worst first: NaN before every number; ties keep the order of the store.
Before(x, y) ==
  \/ Key(rows[x].final) < Key(rows[y].final)
  \/ Key(rows[x].final) = Key(rows[y].final) /\ x < y

\* The listings of a set of rows in that order (there is one).
Listings(X) ==
  {s \in [1..Cardinality(X) -> X] : \A i, j \in 1..Cardinality(X) : i < j => Before(s[i], s[j])}

First(n, s) == SubSeq(s, 1, IF Len(s) < n THEN Len(s) ELSE n)
-----------------------------------------------------------------------------
(***************************************************************************)
(* The interactive session: the queue is built once; a row is asked about  *)
(* as it was then, and looked up again when its answer is written.         *)
(***************************************************************************)
OpenQueue ==
  /\ queue = <<>>
  /\ LET pending == {x \in Cells : /\ rows[x].flag = None
                                   /\ \/ Below(rows[x].final, ScoreThreshold)
                                      \/ Below(rows[x].rubric, RubricThreshold)}
     IN  \E order \in Listings(pending) : queue' = First(MaxToReview, order)
  /\ UNCHANGED <<rows, sheet, edited, line, force, others>>

\* annotate: metrics as loaded, the flag, and the note unless it is empty.
Review(x, flag, note) ==
  /\ rows' = [rows EXCEPT ![x].flag = flag, ![x].note = IF note = None THEN @ ELSE note]
  /\ others' = IF line = 0 THEN others ELSE others \cup {x}
  /\ UNCHANGED <<sheet, edited, line, force>>

\* A note is only asked for when the flag is 1.
Answer(flag, note) ==
  /\ queue # <<>>
  /\ flag = 0 => note = None
  /\ Review(Head(queue), flag, note)
  /\ queue' = Tail(queue)

\* "s", an unknown answer, or a row the store refuses: the next one is asked.
Skip ==
  /\ queue # <<>>
  /\ queue' = Tail(queue)
  /\ UNCHANGED <<rows, sheet, edited, line, force, others>>

Quit ==
  /\ queue # <<>>
  /\ queue' = <<>>
  /\ UNCHANGED <<rows, sheet, edited, line, force, others>>

\* A line of a CSV names any row and any note; a bad line is counted and left.
CsvLine(x, flag, note) ==
  /\ Review(x, flag, note)
  /\ UNCHANGED queue
-----------------------------------------------------------------------------
(***************************************************************************)
(* The sheet: rows below the threshold or without a score, whoever         *)
(* annotated them already, each with its note and with no flag.            *)
(***************************************************************************)
Exported == {x \in Cells : rows[x].final = NaN \/ Below(rows[x].final, ExportThreshold)}

Entry(x, flag) ==
  [cell |-> x, kind |-> IF flag = None THEN "open" ELSE "decided", flag |-> flag, note |-> rows[x].note]

\* Variant of Export: the sheet carries the flags of the store.
ExportWithFlags ==
  /\ line = 0
  /\ \E order \in Listings(Exported) :
       sheet' = [i \in 1..Cardinality(Exported) |-> Entry(order[i], rows[order[i]].flag)]
  /\ edited' = {}
  /\ UNCHANGED <<rows, queue, line, force, others>>

Export ==
  /\ line = 0
  /\ \E order \in Listings(Exported) :
       sheet' = [i \in 1..Cardinality(Exported) |-> Entry(order[i], None)]
  /\ edited' = {}
  /\ UNCHANGED <<rows, queue, line, force, others>>

\* The specialist decides a line, once or again, or spoils its flag or its row id.
Decide(i, flag, note) ==
  /\ line = 0
  /\ sheet' = [sheet EXCEPT ![i].kind = "decided", ![i].flag = flag, ![i].note = note]
  /\ edited' = edited \cup {sheet[i].cell}
  /\ UNCHANGED <<rows, queue, line, force, others>>

Spoil(i, kind) ==
  /\ line = 0
  /\ sheet[i].kind = "open"
  /\ sheet' = [sheet EXCEPT ![i].kind = kind]
  /\ UNCHANGED <<rows, queue, edited, line, force, others>>
-----------------------------------------------------------------------------
(***************************************************************************)
(* The ingestion takes the lines in order: an open line says nothing, an   *)
(* invalid flag and an unknown row are counted, a row already annotated is *)
(* left alone without --force; both columns are replaced otherwise.        *)
(***************************************************************************)
Ingest(forced) ==
  /\ line = 0 /\ sheet # <<>>
  /\ line' = 1 /\ force' = forced /\ others' = {}
  /\ UNCHANGED <<rows, queue, sheet, edited>>

Takes(l) == l.kind = "decided" /\ (rows[l.cell].flag = None \/ force)

Ingested(r, l) == [r EXCEPT !.flag = l.flag, !.note = l.note]

\* Variant of IngestLine: the first bad line ends the ingestion.
IngestUpToBadLine ==
  /\ line \in DOMAIN sheet
  /\ LET l == sheet[line]
     IN  /\ rows' = IF Takes(l) THEN [rows EXCEPT ![l.cell] = Ingested(@, l)] ELSE rows
         /\ line' = IF l.kind \in {"invalid", "lost"} THEN Len(sheet) + 1 ELSE line + 1
  /\ UNCHANGED <<queue, sheet, edited, force, others>>

IngestLine ==
  /\ line \in DOMAIN sheet
  /\ LET l == sheet[line]
     IN  rows' = IF Takes(l) THEN [rows EXCEPT ![l.cell] = Ingested(@, l)] ELSE rows
  /\ line' = line + 1
  /\ UNCHANGED <<queue, sheet, edited, force, others>>

\* The summary of the ingestion is printed.
IngestEnds ==
  /\ line = Len(sheet) + 1
  /\ line' = 0 /\ others' = {}
  /\ UNCHANGED <<rows, queue, sheet, edited, force>>

\* Ctrl-C, or a StorageError: the lines taken so far stay in the store.
IngestStops ==
  /\ line \in DOMAIN sheet
  /\ line' = 0 /\ others' = {}
  /\ UNCHANGED <<rows, queue, sheet, edited, force>>

\* The judge gives a row that has no score its score.
Judge(x) ==
  /\ rows[x].rubric = NaN
  /\ \E v \in Levels : rows' = [rows EXCEPT ![x].rubric = v, ![x].final = v]
  /\ UNCHANGED <<queue, sheet, edited, line, force, others>>

Next ==
  \/ OpenQueue \/ Skip \/ Quit
  \/ \E flag \in {0, 1}, note \in Notes \cup {None} :
       \/ Answer(flag, note)
       \/ \E x \in Cells : CsvLine(x, flag, note)
       \/ \E i \in DOMAIN sheet : Decide(i, flag, note)
  \/ Export
  \/ \E i \in DOMAIN sheet, kind \in {"invalid", "lost"} : Spoil(i, kind)
  \/ \E forced \in BOOLEAN : Ingest(forced)
  \/ IngestLine \/ IngestEnds \/ IngestStops
  \/ \E x \in Cells : Judge(x)

Spec == Init /\ [][Next]_vars
-----------------------------------------------------------------------------
Lines == [cell : Cells, kind : {"open", "decided", "invalid", "lost"},
          flag : {None, 0, 1}, note : Notes \cup {None}]

TypeOK ==
  /\ rows \in [Cells -> [final : Levels \cup {NaN}, rubric : Levels \cup {NaN},
                         flag : {None, 0, 1}, note : Notes \cup {None}]]
  /\ queue \in Seq(Cells)
  /\ sheet \in Seq(Lines)
  /\ edited \in SUBSET Cells /\ others \in SUBSET Cells
  /\ line \in 0..(Len(sheet) + 1) /\ force \in BOOLEAN

(***************************************************************************)
(* An ingestion only changes rows the specialist decided since the export: *)
(* a sheet that comes back untouched, however old and whether forced or    *)
(* not, undoes no annotation made in the meantime (cli.py:1255,            *)
(* ingest_annotation.py:98-103).                                           *)
(***************************************************************************)
OnlyDecisionsIngested ==
  [][IngestLine => \A x \in Cells : rows'[x] # rows[x] => x \in edited]_vars

(***************************************************************************)
(* An ingestion that ended left no decision behind: every row the          *)
(* specialist decided is annotated, by the line itself when --force was    *)
(* given and nobody else wrote the row meanwhile, whatever bad lines the   *)
(* sheet holds and however often it was stopped and started again          *)
(* (ingest_annotation.py:82-151).                                          *)
(***************************************************************************)
Arrived(l) ==
  /\ rows[l.cell].flag # None
  /\ force /\ l.cell \notin others =>
       rows[l.cell].flag = l.flag /\ rows[l.cell].note = l.note

DecisionsArrive ==
  line = Len(sheet) + 1 =>
    \A i \in DOMAIN sheet : sheet[i].kind = "decided" => Arrived(sheet[i])
-----------------------------------------------------------------------------
(* The inductive invariant.                                                *)

\* A line with a decision was decided by the specialist, a row has one line.
SheetIsEdited ==
  /\ \A i \in DOMAIN sheet :
       sheet[i].kind = "decided" => sheet[i].cell \in edited /\ sheet[i].flag # None
  /\ \A i, j \in DOMAIN sheet : sheet[i].cell = sheet[j].cell => i = j

\* The decisions of the lines taken so far have arrived.
TakenArrived ==
  \A i \in DOMAIN sheet : i < line /\ sheet[i].kind = "decided" => Arrived(sheet[i])

IInv == TypeOK /\ SheetIsEdited /\ TakenArrived
=============================================================================
