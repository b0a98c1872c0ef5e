------------------------ MODULE ConcurrentAnnotation ------------------------
(***************************************************************************)
(* A run and two annotation sessions on the same store at the same time:   *)
(* the annotate command, interactive or from a CSV (annotation_workflow),  *)
(* and the ingestion of a JSONL (ingest_annotation).  Each is a process of *)
(* its own and nothing locks a file: an update reads the file, replaces    *)
(* columns in memory, truncates the file and writes it again, and each of  *)
(* these is a step here.  The run loads the rows of a pass hours before it *)
(* writes them; annotate loads the row it writes back; ingest looks at the *)
(* row before it updates it.                                               *)
(***************************************************************************)
EXTENDS ResultRow

CONSTANTS
  Cells,    \* the cells of the round
  NoCell,   \* no cell
  Flags     \* flags found in a CSV or a JSONL, valid or not

ASSUME CellsAssumption == NoCell \notin Cells

VARIABLES
  disk,     \* [Cells -> Row]; while a file is being rewritten, what it was before
  pc,       \* where each process is with the row in hand
  cell,     \* the row in hand, NoCell when there is none
  buf,      \* the content each process is about to write
  pass,     \* the pass of the run
  snap,     \* the rows its pass loaded
  todo,     \* those of them the pass has not come to
  seen,     \* the row annotate loaded, or ingest looked at
  force,    \* the --force of the ingestion
  missed,   \* per process, what it read that another process has rewritten since
  mixed     \* processes whose write overlapped with another of the same file

vars == <<disk, pc, cell, buf, pass, snap, todo, seen, force, missed, mixed>>

Processes == {"run", "annotate", "ingest"}

TypeOK ==
  /\ disk \in [Cells -> Row]
  /\ pc \in [Processes -> {"idle", "ready", "merged", "writing"}]
  /\ cell \in [Processes -> Cells \cup {NoCell}]
  /\ buf \in [Processes -> Row]
  /\ pass \in {"metrics", "judge"}
  /\ snap \in [Cells -> Row]
  /\ todo \in SUBSET Cells
  /\ seen \in [Processes -> Row]
  /\ force \in BOOLEAN
  /\ missed \in [Processes -> SUBSET {"load", "read"}]
  /\ mixed \in SUBSET Processes

NoRows == [c \in Cells |-> AbsentRow]

Init ==
  /\ disk = NoRows
  /\ pc = [p \in Processes |-> "idle"]
  /\ cell = [p \in Processes |-> NoCell]
  /\ buf = [p \in Processes |-> AbsentRow]
  /\ pass = "metrics"
  /\ snap = NoRows
  /\ todo = {}
  /\ seen = [p \in Processes |-> AbsentRow]
  /\ force = FALSE
  /\ missed = [p \in Processes |-> {}]
  /\ mixed = {}

-----------------------------------------------------------------------------
(* A file is readable when it is whole and nobody is rewriting it; it is   *)
(* found (_find_file) even when it is not readable.                        *)
BeingWritten(c) == \E p \in Processes : pc[p] = "writing" /\ cell[p] = c
Readable(c) == Whole(disk[c]) /\ ~BeingWritten(c)
RoundReadable == \A c \in Cells : disk[c].file = "absent" \/ Readable(c)

\* Process p is done with the row in hand.
Leave(p) ==
  /\ pc' = [pc EXCEPT ![p] = IF p = "run" /\ todo' # {} THEN "ready" ELSE "idle"]
  /\ cell' = [cell EXCEPT ![p] = NoCell]
  /\ buf' = [buf EXCEPT ![p] = AbsentRow]
  /\ seen' = [seen EXCEPT ![p] = AbsentRow]
  /\ snap' = IF todo' = {} THEN NoRows ELSE snap
  /\ force' = (force /\ p # "ingest")
  /\ mixed' = mixed \ {p}

\* Process p holds the new content of the file of c.
Hold(p, c, r) ==
  /\ pc' = [pc EXCEPT ![p] = "merged"]
  /\ cell' = [cell EXCEPT ![p] = c]
  /\ buf' = [buf EXCEPT ![p] = r]
  /\ seen' = [seen EXCEPT ![p] = AbsentRow]
  /\ UNCHANGED <<disk, pass, snap, force, missed, mixed>>

\* Process p has looked at the row of c and is about to update it.
Look(p, c) ==
  /\ pc[p] = "idle"
  /\ pc' = [pc EXCEPT ![p] = "ready"]
  /\ cell' = [cell EXCEPT ![p] = c]
  /\ seen' = [seen EXCEPT ![p] = disk[c]]
  /\ UNCHANGED <<disk, buf, pass, snap, todo, missed, mixed>>

-----------------------------------------------------------------------------
(* Writing a file: pq.write_table truncates it, then fills it.             *)
Truncate(p) ==
  /\ pc[p] = "merged"
  /\ pc' = [pc EXCEPT ![p] = "writing"]
  /\ LET others == {q \in Processes : pc[q] = "writing" /\ cell[q] = cell[p]}
     IN  mixed' = IF others = {} THEN mixed ELSE mixed \cup others \cup {p}
  /\ UNCHANGED <<disk, cell, buf, pass, snap, todo, seen, force, missed>>

\* What another process has read of c is out of date once p has written it.
Outdate(p, c) ==
  [q \in Processes |->
     IF q = p THEN {}
     ELSE IF cell[q] # c THEN missed[q]
     ELSE IF pc[q] = "ready" THEN missed[q] \cup {"load"}
     ELSE {"load", "read"}]

\* The write is over.  Two writes of a file at the same time leave the content
\* of the one that ends last, or a mixture nobody can read.
Fill(p) ==
  /\ pc[p] = "writing"
  /\ \E r \in {buf[p], TornRow} :
       /\ r = buf[p] \/ p \in mixed
       /\ disk' = [disk EXCEPT ![cell[p]] = r]
  /\ UNCHANGED <<pass, todo>>
  /\ Leave(p)
  /\ missed' = Outdate(p, cell[p])

-----------------------------------------------------------------------------
(* The run.                                                                *)

\* Variant of Generate: a row that is there is not looked for.
GenerateAnyway(c, a) ==
  /\ pc["run"] = "idle"
  /\ disk' = [disk EXCEPT ![c] = Generated(a)]
  /\ UNCHANGED <<pc, cell, buf, pass, snap, todo, seen, force, missed, mixed>>

\* The generation pass appends a row that is not there.  (One step: nobody can
\* have read the row before.)
Generate(c, a) ==
  /\ pc["run"] = "idle"
  /\ disk[c].file = "absent"
  /\ disk' = [disk EXCEPT ![c] = Generated(a)]
  /\ UNCHANGED <<pc, cell, buf, pass, snap, todo, seen, force, missed, mixed>>

\* A pass loads the round and keeps the rows it has to fill in.  (It raises
\* when a file cannot be read, one being rewritten included; a pass without
\* rows does nothing.)
LoadPass(which) ==
  /\ pc["run"] = "idle"
  /\ RoundReadable
  /\ pass' = which
  /\ todo' = {c \in Cells : /\ Answered(disk[c])
                            /\ IF which = "metrics" THEN Unmeasured(disk[c])
                                                    ELSE Unjudged(disk[c])}
  /\ todo' # {}
  /\ snap' = disk
  /\ pc' = [pc EXCEPT !["run"] = "ready"]
  /\ UNCHANGED <<disk, cell, buf, seen, force, missed, mixed>>

NewMetrics(c, scores, rubric) ==
  IF pass = "metrics" THEN Layer1Only(scores) ELSE WithRubric(snap[c].metrics, rubric)

\* Variants of MergePass: the columns that are kept come from the row loaded;
\* the score is that of the row in the store.
MergeLoaded(c, mv) ==
  /\ pc["run"] = "ready"
  /\ c \in todo
  /\ Readable(c)
  /\ Hold("run", c, UpdateMetrics(snap[c], mv, FinalOf(mv),
            IF pass = "metrics" THEN "generator" ELSE "judge", None, None))
  /\ todo' = todo \ {c}
MergeStoredScore(c, mv) ==
  /\ pc["run"] = "ready"
  /\ c \in todo
  /\ Readable(c)
  /\ Hold("run", c, UpdateMetrics(disk[c], mv, disk[c].final,
            IF pass = "metrics" THEN "generator" ELSE "judge", None, None))
  /\ todo' = todo \ {c}

\* update_metrics reads the file of the row and replaces the metric columns.
MergePass(c, mv) ==
  /\ pc["run"] = "ready"
  /\ c \in todo
  /\ Readable(c)
  /\ Hold("run", c, UpdateMetrics(disk[c], mv, FinalOf(mv),
            IF pass = "metrics" THEN "generator" ELSE "judge", None, None))
  /\ todo' = todo \ {c}

\* The file cannot be read: the metrics pass counts an error and goes on, the
\* judge pass raises.
FailPass(c) ==
  /\ pc["run"] = "ready"
  /\ c \in todo
  /\ ~Readable(c)
  /\ todo' = IF pass = "metrics" THEN todo \ {c} ELSE {}
  /\ Leave("run")
  /\ UNCHANGED <<disk, pass, missed>>

-----------------------------------------------------------------------------
(* annotate: the row is loaded with the whole round, and written back with *)
(* the flag and the note.                                                  *)
AnnotateLoad(c) ==
  /\ RoundReadable
  /\ Whole(disk[c])
  /\ Look("annotate", c)
  /\ UNCHANGED force

\* Variant of AnnotateMerge: the flag is not looked at.
AnnotateAnyFlag(flag, note) ==
  /\ pc["annotate"] = "ready"
  /\ LET c == cell["annotate"] r == seen["annotate"]
     IN  /\ Readable(c)
         /\ Hold("annotate", c, UpdateMetrics(disk[c], r.metrics, r.final, r.regime, flag, note))
  /\ UNCHANGED todo

\* Variant of AnnotateMerge: the row is written as one the judge has seen.
AnnotateAsJudge(flag, note) ==
  /\ pc["annotate"] = "ready"
  /\ flag \in {0, 1}
  /\ LET c == cell["annotate"] r == seen["annotate"]
     IN  /\ Readable(c)
         /\ Hold("annotate", c, UpdateMetrics(disk[c], r.metrics, r.final, "judge", flag, note))
  /\ UNCHANGED todo

\* Only 0 and 1 are flags; an empty note is None and leaves the old one.
AnnotateMerge(flag, note) ==
  /\ pc["annotate"] = "ready"
  /\ flag \in {0, 1}
  /\ LET c == cell["annotate"] r == seen["annotate"]
     IN  /\ Readable(c)
         /\ Hold("annotate", c, UpdateMetrics(disk[c], r.metrics, r.final, r.regime, flag, note))
  /\ UNCHANGED todo

-----------------------------------------------------------------------------
(* ingest: a line is skipped when its row is annotated, unless --force.    *)

IngestLook(c, forced) ==
  /\ Readable(c)
  /\ disk[c].flag = None \/ forced
  /\ Look("ingest", c)
  /\ force' = forced

\* Variant of IngestMerge: the columns that are kept come from the row looked at.
IngestSeen(flag, note) ==
  /\ pc["ingest"] = "ready"
  /\ flag \in {0, 1}
  /\ LET c == cell["ingest"]
     IN  /\ Readable(c)
         /\ Hold("ingest", c, UpdateAnnotation(seen["ingest"], flag, note))
  /\ UNCHANGED todo

\* update_annotation reads the file again and replaces both columns.
IngestMerge(flag, note) ==
  /\ pc["ingest"] = "ready"
  /\ flag \in {0, 1}
  /\ LET c == cell["ingest"]
     IN  /\ Readable(c)
         /\ Hold("ingest", c, UpdateAnnotation(disk[c], flag, note))
  /\ UNCHANGED todo

\* The file cannot be read any more: StorageError, nothing is written.
FailAnnotation(p) ==
  /\ pc[p] = "ready"
  /\ ~Readable(cell[p])
  /\ UNCHANGED <<disk, pass, todo>>
  /\ Leave(p)
  /\ missed' = [missed EXCEPT ![p] = {}]

-----------------------------------------------------------------------------
(* A process is stopped or killed; a file it was rewriting is torn.        *)
Kill(p) ==
  /\ pc[p] # "idle"
  /\ disk' = IF pc[p] = "writing" THEN [disk EXCEPT ![cell[p]] = TornRow] ELSE disk
  /\ todo' = IF p = "run" THEN {} ELSE todo
  /\ Leave(p)
  /\ missed' = [missed EXCEPT ![p] = {}]
  /\ UNCHANGED pass

\* The operator deletes a file that cannot be read, with nothing under way.
DeleteTorn(c) ==
  /\ \A p \in Processes : pc[p] = "idle"
  /\ disk[c].file = "torn"
  /\ disk' = [disk EXCEPT ![c] = AbsentRow]
  /\ UNCHANGED <<pc, cell, buf, pass, snap, todo, seen, force, missed, mixed>>

-----------------------------------------------------------------------------
RunStep ==
  \/ \E c \in Cells, a \in Answers : Generate(c, a)
  \/ \E which \in {"metrics", "judge"} : LoadPass(which)
  \/ \E c \in Cells, scores \in Layer1Vector, rubric \in Values :
       MergePass(c, NewMetrics(c, scores, rubric))
  \/ \E c \in Cells : FailPass(c)

AnnotateStep ==
  \/ \E c \in Cells : AnnotateLoad(c)
  \/ \E flag \in Flags, note \in Notes \cup {None} : AnnotateMerge(flag, note)

IngestStep ==
  \/ \E c \in Cells, forced \in BOOLEAN : IngestLook(c, forced)
  \/ \E flag \in Flags, note \in Notes \cup {None} : IngestMerge(flag, note)

FileStep ==
  \/ \E p \in Processes : Truncate(p) \/ Fill(p) \/ Kill(p)
  \/ \E p \in {"annotate", "ingest"} : FailAnnotation(p)
  \/ \E c \in Cells : DeleteTorn(c)

Next == RunStep \/ AnnotateStep \/ IngestStep \/ FileStep

Spec == Init /\ [][Next]_vars

-----------------------------------------------------------------------------
(* Safety.                                                                 *)

\* A row is coherent whichever of the three wrote it last, and whatever the
\* others did between its read and its write.
RowsCoherent == \A c \in Cells : Whole(disk[c]) => Coherent(disk[c])

\* Process p ends a write of c that replaces a whole row by a whole row.
Rewrites(p, c) ==
  /\ pc[p] = "writing" /\ pc'[p] # "writing"
  /\ cell[p] = c
  /\ Whole(disk[c]) /\ Whole(disk'[c])

SameMetrics(r, s) == r.metrics = s.metrics /\ r.final = s.final /\ r.regime = s.regime
SameAnnotation(r, s) == r.flag = s.flag /\ r.note = s.note

\* A row keeps its answer, however the three interleave.
AnswerKept ==
  [][\A c \in Cells :
       (Whole(disk[c]) /\ Whole(disk'[c])) => disk'[c].answer = disk[c].answer]_vars

\* A pass that loaded its rows hours ago keeps the annotations made since: it
\* can only undo one written between its own read and write of the file.
PassKeepsAnnotation ==
  [][\A c \in Cells : (Rewrites("run", c) /\ "read" \notin missed["run"]) =>
        SameAnnotation(disk[c], disk'[c])]_vars

\* Likewise for the ingestion and what a pass has written.
IngestKeepsMetrics ==
  [][\A c \in Cells : (Rewrites("ingest", c) /\ "read" \notin missed["ingest"]) =>
        SameMetrics(disk[c], disk'[c])]_vars

\* An update nothing came in between of is an atomic one: a pass changes the
\* metric columns only, annotate and ingest the annotation only, and without
\* --force an annotation is never replaced.
AtomicUnlessOverlapped ==
  [][\A c \in Cells :
       /\ (Rewrites("run", c) /\ missed["run"] = {}) => SameAnnotation(disk[c], disk'[c])
       /\ \A p \in {"annotate", "ingest"} :
            (Rewrites(p, c) /\ missed[p] = {}) => SameMetrics(disk[c], disk'[c])
       /\ (Rewrites("ingest", c) /\ missed["ingest"] = {} /\ ~force) => disk[c].flag = None]_vars

-----------------------------------------------------------------------------
(* The inductive invariant.                                                *)

\* Process p has the new content of a file in hand.
Holding(p) == pc[p] \in {"merged", "writing"}

\* Who has a row in hand, and what the run still has to do.
RowInHand ==
  /\ \A p \in Processes : Holding(p) => cell[p] \in Cells /\ Whole(buf[p]) /\ Coherent(buf[p])
  /\ \A p \in {"annotate", "ingest"} :
       pc[p] = "ready" => cell[p] \in Cells /\ Whole(seen[p]) /\ Coherent(seen[p])
  /\ pc["run"] = "idle" => todo = {}
  /\ \A c \in todo : Answered(snap[c]) /\ Coherent(snap[c])
  /\ \A p \in Processes : pc[p] = "idle" => cell[p] = NoCell

\* Nobody works on a row that has no file.
NoFileNoWork ==
  \A c \in Cells : disk[c].file = "absent" =>
    c \notin todo /\ \A p \in Processes : cell[p] # c

\* Whatever anybody holds or remembers of a cell is about the same answer.
AnswerIs(c, a) ==
  /\ Whole(disk[c]) => disk[c].answer = a
  /\ c \in todo => snap[c].answer = a
  /\ \A p \in Processes : (Holding(p) /\ cell[p] = c) => buf[p].answer = a
  /\ \A p \in {"annotate", "ingest"} : (pc[p] = "ready" /\ cell[p] = c) => seen[p].answer = a
OneAnswer == \A c \in Cells : \E a \in Answers : AnswerIs(c, a)

\* What a process has read is what the store holds, or it has missed a write.
ReadIsCurrent ==
  /\ \A c \in Cells : Whole(disk[c]) =>
       /\ (Holding("run") /\ cell["run"] = c /\ "read" \notin missed["run"]) =>
            SameAnnotation(disk[c], buf["run"])
       /\ (Holding("ingest") /\ cell["ingest"] = c /\ "read" \notin missed["ingest"]) =>
            SameMetrics(disk[c], buf["ingest"])
       /\ (Holding("annotate") /\ cell["annotate"] = c /\ missed["annotate"] = {}) =>
            SameMetrics(disk[c], buf["annotate"])
       /\ (pc["annotate"] = "ready" /\ cell["annotate"] = c /\ missed["annotate"] = {}) =>
            SameMetrics(disk[c], seen["annotate"])
       /\ (pc["ingest"] # "idle" /\ cell["ingest"] = c /\ missed["ingest"] = {}) =>
            force \/ disk[c].flag = None

IInv == TypeOK /\ RowsCoherent /\ RowInHand /\ NoFileNoWork /\ OneAnswer /\ ReadIsCurrent

=============================================================================
