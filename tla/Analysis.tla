------------------------------ MODULE Analysis ------------------------------
(***************************************************************************)
(* What the commands that read the store make of it while the judge and    *)
(* the reviewers still write: the aggregation of the rows by configuration *)
(* and the rank score (domain/services/aggregation.py and rank_score.py),  *)
(* the ranking file and the report (application/aggregate_results.py,      *)
(* cli.py `report`, html_report.py), the best configuration `status` and   *)
(* the summary of a run show, the statistical tests and their correction   *)
(* (application/statistical_analysis.py, stats_adapters.py) and the        *)
(* agreement of the judge with the reviewers (judge_validation.py).        *)
(*                                                                         *)
(* Scores, rates and thresholds are integers in units of 1 / Scale, and a  *)
(* rank score in units of 1 / (20 * Scale), so that equality is exact.     *)
(***************************************************************************)
EXTENDS Integers, Sequences, FiniteSets, SequencesExt

CONSTANTS
  ConfigOrder,      \* the configurations [base, llm], by (base, llm)
  Cells,            \* rows a round can have: [run, phase, config, question]
  Run,              \* the run the commands are asked about
  Stores,           \* what the earlier commands may have left in the store
  NaN, None,
  Scale,
  Levels,           \* the rubrics and final scores
  FailureThreshold, \* scoring.failure_threshold, and the default of `report`
  JudgeThreshold,   \* --threshold of validate-judge
  MinSample,        \* --min-sample of validate-judge
  MinPairs,         \* min_pairs_wilcoxon
  MinLLMs,          \* the groups a Friedman test needs (3 in the code)
  PValues, Alpha,   \* p-values a test can return, the level of significance
  MaxWrites         \* bound: rows written while a report is being made

Configs == ToSet(ConfigOrder)

Row == [layer1 : BOOLEAN, rubric : Levels \cup {NaN}, flag : {0, 1, None}]

\* A score is a number of 0..1, a p-value one of percents; Scale is such that
\* a win shared by some of the configurations and averaged over the questions
\* is a whole number of units.
ASSUME AnalysisAssumption ==
  /\ ConfigOrder \in Seq(Configs)
  /\ \A i, j \in DOMAIN ConfigOrder : ConfigOrder[i] = ConfigOrder[j] => i = j
  /\ IsFiniteSet(Cells) /\ \A x \in Cells : x.config \in Configs
  /\ \A s \in Stores : DOMAIN s \subseteq Cells /\ s \in [DOMAIN s -> Row]
  /\ NaN \notin Int /\ None \notin {0, 1}
  /\ Scale \in Nat \ {0} /\ Levels \subseteq 0..Scale
  /\ {FailureThreshold, JudgeThreshold, Alpha} \subseteq Int
  /\ MinSample \in Nat \ {0} /\ MaxWrites \in Nat
  /\ PValues \subseteq 0..100
  /\ \A k \in 1..Cardinality(Configs), n \in 1..Cardinality({x.question : x \in Cells}) :
       \E unit \in 1..Scale : Scale = k * n * unit

VARIABLES
  rows,     \* the store: present cells -> [layer1, rubric, flag]
  stage,    \* where the command under way is
  frame,    \* what `report` loaded first, for the figures and the counts
  table,    \* the aggregates, in the order of the ranking file
  stats,    \* what the statistical tests gave
  shown,    \* what the last command told its user
  writes    \* rows written since the report began

vars == <<rows, stage, frame, table, stats, shown, writes>>

Nothing == [by |-> "nobody"]
-----------------------------------------------------------------------------
(***************************************************************************)
(* Frames: ParquetStorage.load with a run and a phase.                     *)
(***************************************************************************)
Load(s, runs, phases) ==
  LET X == {x \in DOMAIN s : x.run \in runs /\ x.phase \in phases}
  IN  [x \in X |-> s[x]]
AllRuns == {x.run : x \in Cells}
AllPhases == {"A", "B"}

\* The final score of a row, NaN as soon as Layer 1 or the judge gave none.
Final(r) == IF r.layer1 THEN r.rubric ELSE NaN

Group(s, c) == {x \in DOMAIN s : x.config = c}
Valid(s, c) == {x \in Group(s, c) : Final(s[x]) # NaN}
Annotated(s, X) == {x \in X : s[x].flag # None}

(***************************************************************************)
(* AggregationService: one aggregate per configuration found in the frame. *)
(***************************************************************************)
Ratio(k, n) == IF n = 0 THEN NaN ELSE (k * Scale) \div n

FailureRate(s, c) ==
  Ratio(Cardinality({x \in Valid(s, c) : Final(s[x]) < FailureThreshold}),
        Cardinality(Valid(s, c)))

CriticalFailureRate(s, c) ==
  LET A == Annotated(s, Group(s, c))
  IN  Ratio(Cardinality({x \in A : s[x].flag = 1}), Cardinality(A))

\* The k-th score of a configuration: the least that k scores do not exceed.
Smallest(s, c, k) ==
  Min({v \in Levels : Cardinality({x \in Valid(s, c) : Final(s[x]) <= v}) >= k})

Median(s, c) ==
  LET n == Cardinality(Valid(s, c))
  IN  IF n = 0 THEN NaN
      ELSE (Smallest(s, c, (n + 1) \div 2) + Smallest(s, c, n \div 2 + 1)) \div 2

\* The rows of a configuration that count for a question, and their mean.
Attempts(s, c, q) == {x \in Valid(s, c) : x.question = q}
QuestionMean(s, c, q) ==
  SumFunction([x \in Attempts(s, c, q) |-> Final(s[x])]) \div Cardinality(Attempts(s, c, q))

Winners(s, q) ==
  LET Scored == {c \in Configs : Attempts(s, c, q) # {}}
  IN  {c \in Scored : \A d \in Scored : QuestionMean(s, c, q) >= QuestionMean(s, d, q)}

QuestionsOf(s) == {x.question : x \in DOMAIN s}

\* Variant of WinShare: every configuration of a tie takes the whole win.
WholeWin(s, c, q) == IF c \in Winners(s, q) THEN Scale ELSE 0

\* A question won by k configurations counts 1/k for each of them.
WinShare(s, c, q) == IF c \in Winners(s, q) THEN Scale \div Cardinality(Winners(s, q)) ELSE 0

WinRate(s, c) ==
  SumFunction([q \in QuestionsOf(s) |-> WinShare(s, c, q)]) \div Cardinality(QuestionsOf(s))

\* Variant of RankScore: the penalty is added.
RankWithoutPenalty(s, c) ==
  LET inputs == <<Median(s, c), FailureRate(s, c), WinRate(s, c), CriticalFailureRate(s, c)>>
  IN  IF NaN \in ToSet(inputs)
        THEN NaN
        ELSE 10 * inputs[1] + 4 * (Scale - inputs[2]) + 3 * inputs[3] + 3 * inputs[4]

\* RankScoreCalculator.compute with DEFAULT_WEIGHTS (0.50, 0.20, 0.15, 0.15).
RankScore(s, c) ==
  LET inputs == <<Median(s, c), FailureRate(s, c), WinRate(s, c), CriticalFailureRate(s, c)>>
  IN  IF NaN \in ToSet(inputs)
        THEN NaN
        ELSE 10 * inputs[1] + 4 * (Scale - inputs[2]) + 3 * inputs[3] - 3 * inputs[4]

Aggregate(s, c) ==
  [config |-> c, rank |-> RankScore(s, c),
   observations |-> Cardinality(Valid(s, c)),
   excluded |-> Cardinality(Group(s, c) \ Valid(s, c))]

\* The elements of D in the strict total order R, each at the place that the
\* number of those before it gives.
InOrder(D, R) ==
  [k \in 1..Cardinality(D) |->
     CHOOSE i \in D : Cardinality({j \in D : <<j, i>> \in R}) = k - 1]

Ascending(D) == InOrder(D, {e \in D \X D : e[1] < e[2]})

AggregateAll(s) ==
  LET present == Ascending({i \in DOMAIN ConfigOrder : Group(s, ConfigOrder[i]) # {}})
  IN  [k \in DOMAIN present |-> Aggregate(s, ConfigOrder[present[k]])]
-----------------------------------------------------------------------------
(***************************************************************************)
(* Orders.  A comparison with NaN is false, so what sorts or maximises raw *)
(* ranks depends on the order it finds them in.                            *)
(***************************************************************************)
RawLess(a, b) == a # NaN /\ b # NaN /\ a < b

\* Variant of RankKey: NaN before every rank.
KeyNaNFirst(a) == IF a.rank = NaN THEN 100 * Scale ELSE a.rank

\* _rank_key: NaN after every rank (a rank is above -3 * Scale).
RankKey(a) == IF a.rank = NaN THEN -100 * Scale ELSE a.rank

\* sorted(..., key=_rank_key, reverse=True), which is stable.
Before(aggs) ==
  {e \in (DOMAIN aggs) \X (DOMAIN aggs) :
     \/ RankKey(aggs[e[1]]) > RankKey(aggs[e[2]])
     \/ RankKey(aggs[e[1]]) = RankKey(aggs[e[2]]) /\ e[1] < e[2]}

Ranking(aggs) == [k \in DOMAIN aggs |-> aggs[InOrder(DOMAIN aggs, Before(aggs))[k]]]

(***************************************************************************)
(* list.sort of a few aggregates by their raw rank: the first run of the   *)
(* list is kept, turned round when it descends, and the others are         *)
(* inserted by halving.                                                    *)
(***************************************************************************)
Less(a, b) == RawLess(a.rank, b.rank)

FirstRun(l) ==
  LET down == Len(l) > 1 /\ Less(l[2], l[1])
      fits == {n \in DOMAIN l : \A i \in 2..n : Less(l[i], l[i - 1]) <=> down}
      n == CHOOSE k \in fits : \A j \in fits : j <= k
  IN  IF down THEN Reverse(SubSeq(l, 1, n)) ELSE SubSeq(l, 1, n)

InsertSorted(l, x) ==
  LET Bounds == 1..(Len(l) + 1)
      place[w \in Bounds \X Bounds] ==
        IF w[1] >= w[2] THEN w[1]
        ELSE LET mid == (w[1] + w[2]) \div 2
             IN  IF Less(x, l[mid]) THEN place[<<w[1], mid>>] ELSE place[<<mid + 1, w[2]>>]
  IN  InsertAt(l, place[<<1, Len(l) + 1>>], x)

ListSort(l) ==
  IF l = <<>> THEN <<>>
  ELSE LET first == FirstRun(l)
       IN  FoldLeft(InsertSorted, first, SubSeq(l, Len(first) + 1, Len(l)))

\* sorted(..., key=rank_score, reverse=True) of the report and the summary.
SortedByRawRank(aggs) == Reverse(ListSort(Reverse(aggs)))

\* Variant of MaxByRawRank: a later one is taken unless it is lower.
LastByRawRank(aggs) ==
  FoldLeft(LAMBDA best, a : IF Less(a, best) THEN best ELSE a, Head(aggs), Tail(aggs))

\* max(..., key=rank_score) of `status`: the first that no later one exceeds.
MaxByRawRank(aggs) ==
  FoldLeft(LAMBDA best, a : IF Less(best, a) THEN a ELSE best, Head(aggs), Tail(aggs))
-----------------------------------------------------------------------------
(***************************************************************************)
(* The statistical tests.  A test says it has too little data (p = 1, not  *)
(* significant) or returns any p-value, NaN when the library cannot tell.  *)
(***************************************************************************)
Bases(s) == {x.config.base : x \in DOMAIN s}
LLMs(s) == {x.config.llm : x \in DOMAIN s}
Scored(s) == {x \in DOMAIN s : Final(s[x]) # NaN}

\* Pairs of the first two bases by question: a question counts once whatever
\* the number of models that answered it.
Pairs(s) ==
  {q \in QuestionsOf(s) : \A b \in Bases(s) : \E x \in Scored(s) : x.question = q /\ x.config.base = b}

\* Blocks (question, base) every model of the frame has a score for.
Blocks(s) ==
  {b \in QuestionsOf(s) \X Bases(s) :
     \A m \in LLMs(s) : \E x \in Scored(s) :
        x.question = b[1] /\ x.config = [base |-> b[2], llm |-> m]}

One == 100  \* the p-value of a test that was not made, in percent

WilcoxonP(s) ==
  IF Cardinality(Bases(s)) < 2 \/ Cardinality(Pairs(s)) < MinPairs THEN {One} ELSE PValues \cup {NaN}

FriedmanP(s) ==
  IF Cardinality(LLMs(s)) < MinLLMs \/ Blocks(s) = {} THEN {One} ELSE PValues \cup {NaN}

Significant(p) == p # NaN /\ p < Alpha

(***************************************************************************)
(* _apply_multiple_correction: the p-values that are numbers are corrected *)
(* together and put back at the position they came from.  Benjamini and    *)
(* Hochberg's adjusted value of the i-th smallest of m is the least of     *)
(* p_j * m / j over j >= i.                                                *)
(***************************************************************************)
PlaceOf(p, j) == Cardinality({k \in DOMAIN p : p[k] < p[j] \/ (p[k] = p[j] /\ k <= j)})
Later(p, i) == {j \in DOMAIN p : PlaceOf(p, j) >= PlaceOf(p, i)}

AdjustBH(p) ==
  [i \in DOMAIN p |-> Min({One} \cup {(p[j] * Len(p)) \div PlaceOf(p, j) : j \in Later(p, i)})]

Positions(p) == Ascending({i \in DOMAIN p : p[i] # NaN})

\* Variant of Correct: the k-th corrected value goes to the k-th report.
CorrectInPlace(p) ==
  LET adjusted == AdjustBH([k \in DOMAIN Positions(p) |-> p[Positions(p)[k]]])
  IN  [i \in DOMAIN p |-> IF i \in DOMAIN adjusted THEN adjusted[i] ELSE p[i]]

Correct(p) ==
  LET at == Positions(p)
      adjusted == AdjustBH([k \in DOMAIN at |-> p[at[k]]])
  IN  [i \in DOMAIN p |->
         IF p[i] = NaN THEN NaN ELSE adjusted[CHOOSE k \in DOMAIN at : at[k] = i]]

(***************************************************************************)
(* StatsReport: the flags come from the corrected p-values, the top model  *)
(* from the pairs the Friedman adapter compared on its raw p-value.        *)
(***************************************************************************)
StatsReports(s) ==
  {[p |-> p, corrected |-> Correct(p),
    base |-> Significant(Correct(p)[1]), llm |-> Significant(Correct(p)[2]), top |-> top] :
     p \in {<<w, f>> : w \in WilcoxonP(s), f \in FriedmanP(s)}, top \in LLMs(s) \cup {None}}

Tests(s) == {r \in StatsReports(s) : r.top # None => Significant(r.p[2])}

\* What `report` prints when the analysis raised.
NoStats == [p |-> <<>>, corrected |-> <<>>, base |-> FALSE, llm |-> FALSE, top |-> None]
-----------------------------------------------------------------------------
(***************************************************************************)
(* JudgeValidationUseCase.run: the judge fails a row below the threshold,  *)
(* the reviewers' flag is the reference.                                   *)
(***************************************************************************)
JudgeBinary(r) == IF r.rubric < JudgeThreshold THEN 1 ELSE 0

Matrix(s) ==
  LET Compared == {x \in Annotated(s, DOMAIN s) : s[x].rubric # NaN}
      Count(h, j) == Cardinality({x \in Compared : s[x].flag = h /\ JudgeBinary(s[x]) = j})
  IN  [tp |-> Count(1, 1), tn |-> Count(0, 0), fp |-> Count(0, 1), fn |-> Count(1, 0)]

Compared(m) == m.tp + m.tn + m.fp + m.fn

\* cohen_kappa_score in percent: NaN (0/0) when all labels are the same.
Kappa(m) ==
  LET n == Compared(m)
      chance == (m.tp + m.fn) * (m.tp + m.fp) + (m.tn + m.fp) * (m.tn + m.fn)
  IN  IF chance = n * n THEN NaN
      ELSE (100 * (n * (m.tp + m.tn) - chance)) \div (n * n - chance)

InterpretKappa(k) ==
  CASE k = NaN -> "fraca"
    [] k # NaN /\ k >= 80 -> "quase-perfeita"
    [] k # NaN /\ k \in 60..79 -> "substancial"
    [] k # NaN /\ k \in 40..59 -> "moderada"
    [] k # NaN /\ k \in 20..39 -> "razoavel"
    [] OTHER -> "fraca"
-----------------------------------------------------------------------------
Init ==
  /\ rows \in Stores
  /\ stage = "idle"
  /\ frame = <<>> /\ table = <<>> /\ stats = NoStats
  /\ shown = Nothing
  /\ writes = 0

(***************************************************************************)
(* Writers: the judge pass of a run, the review and the ingestion of       *)
(* annotations.  Each replaces one row, at any moment of a report.         *)
(***************************************************************************)
Writable == stage = "idle" \/ (stage # "shown" /\ writes < MaxWrites)

Write(x, r) ==
  /\ Writable
  /\ rows' = [rows EXCEPT ![x] = r]
  /\ writes' = IF stage = "idle" THEN 0 ELSE writes + 1
  /\ UNCHANGED <<stage, frame, table, stats, shown>>

Judge(x) ==
  /\ rows[x].rubric = NaN
  /\ \E v \in Levels : Write(x, [rows[x] EXCEPT !.rubric = v])

Annotate(x) ==
  \E f \in {0, 1} \ {rows[x].flag} : Write(x, [rows[x] EXCEPT !.flag = f])

(***************************************************************************)
(* A command ends with what it shows; the next one starts when its user    *)
(* has read it.                                                            *)
(***************************************************************************)
Show(what) ==
  /\ stage' = "shown"
  /\ shown' = what
  /\ writes' = 0
  /\ UNCHANGED rows

Close ==
  /\ stage = "shown"
  /\ stage' = "idle"
  /\ frame' = <<>> /\ table' = <<>> /\ stats' = NoStats
  /\ shown' = Nothing
  /\ UNCHANGED <<rows, writes>>

(***************************************************************************)
(* `report` reads the store for the figures and again for the ranking.  An *)
(* aggregation of nothing raises ValueError, which no handler takes.       *)
(***************************************************************************)
ReportLoad ==
  /\ stage = "idle"
  /\ stage' = "loaded"
  /\ frame' = Load(rows, {Run}, AllPhases)
  /\ UNCHANGED <<rows, table, stats, shown, writes>>

ReportAggregate ==
  /\ stage = "loaded"
  /\ LET aggs == AggregateAll(Load(rows, {Run}, {"A"}))
     IN  IF aggs = <<>>
           THEN Show([by |-> "traceback"]) /\ UNCHANGED <<frame, table, stats>>
           ELSE /\ stage' = "aggregated"
                /\ table' = Ranking(aggs)
                /\ UNCHANGED <<rows, frame, stats, shown, writes>>

\* The tests are the ones `analyze` makes; whether they return or raise, the
\* report goes on with the ranking it has.
ReportShow ==
  /\ stage = "aggregated"
  /\ Show([by |-> "report", best |-> Head(SortedByRawRank(table)),
           questions |-> Cardinality(QuestionsOf(frame))])
  /\ UNCHANGED <<frame, table, stats>>

\* `status`: every phase of the run; "N/A" only when there is no aggregate.
Status ==
  /\ stage = "idle"
  /\ LET aggs == AggregateAll(Load(rows, {Run}, AllPhases))
     IN  /\ table' = aggs
         /\ Show([by |-> "status", best |-> IF aggs = <<>> THEN Nothing ELSE MaxByRawRank(aggs)])
  /\ UNCHANGED <<frame, stats>>

\* The summary at the end of a run: every run and every phase of the round.
Summary ==
  /\ stage = "idle"
  /\ LET aggs == AggregateAll(Load(rows, AllRuns, AllPhases))
     IN  /\ aggs # <<>>
         /\ table' = aggs
         /\ Show([by |-> "summary", best |-> Head(SortedByRawRank(aggs))])
  /\ UNCHANGED <<frame, stats>>

\* `analyze`: the tests without the report; what they raise reaches the user.
Analyze ==
  /\ stage = "idle"
  /\ \/ /\ stats' \in Tests(Load(rows, {Run}, {"A"}))
        /\ Show([by |-> "analyze"])
     \/ /\ Show([by |-> "traceback"])
        /\ UNCHANGED stats
  /\ UNCHANGED <<frame, table>>

\* `validate-judge`: too few rows with both verdicts is an error of its own.
ValidateJudge ==
  /\ stage = "idle"
  /\ LET m == Matrix(Load(rows, {Run}, AllPhases))
     IN  Show(IF Compared(m) < MinSample
                THEN [by |-> "insufficient"]
                ELSE [by |-> "validate", matrix |-> m, kappa |-> Kappa(m),
                      reading |-> InterpretKappa(Kappa(m))])
  /\ UNCHANGED <<frame, table, stats>>

Next ==
  \/ \E x \in DOMAIN rows : Judge(x) \/ Annotate(x)
  \/ ReportLoad \/ ReportAggregate \/ ReportShow
  \/ Status \/ Summary \/ Analyze \/ ValidateJudge
  \/ Close

Spec == Init /\ [][Next]_vars
-----------------------------------------------------------------------------
NotBelow(a, b) == (a = NaN <=> b = NaN) /\ (a # NaN => a >= b)

(***************************************************************************)
(* The ranking answers to the scores and to the reviewers: a row whose     *)
(* score rises or whose critical failure is taken back never lowers the    *)
(* rank of its configuration and never raises a rival's, through the       *)
(* median, the rates, the mean of a question and the sharing of a win      *)
(* (aggregation.py:86-146 and 171-250, rank_score.py:109-143).             *)
(***************************************************************************)
Improved(r) ==
  {[r EXCEPT !.rubric = v] : v \in {l \in Levels : Final(r) # NaN /\ l > Final(r)}}
    \cup {[r EXCEPT !.flag = 0] : f \in {r.flag} \cap {1}}

RankAnswersToRows ==
  stage = "idle" =>
    LET s == Load(rows, {Run}, AllPhases)
    IN  \A x \in DOMAIN s : \A r \in Improved(s[x]) :
          LET better == [s EXCEPT ![x] = r]
          IN  \A c \in Configs :
                IF c = x.config
                  THEN NotBelow(RankScore(better, c), RankScore(s, c))
                  ELSE NotBelow(RankScore(s, c), RankScore(better, c))

(***************************************************************************)
(* Rates are shares of what they count: a rate is NaN or lies in 0..1, and *)
(* the win rates of all configurations add up to the share of the          *)
(* questions somebody has a score for, however the ties fall               *)
(* (aggregation.py:86-146 and 214-224).                                    *)
(***************************************************************************)
RatesAreShares ==
  stage = "idle" =>
    LET s == Load(rows, AllRuns, AllPhases)
        won == {q \in QuestionsOf(s) : Winners(s, q) # {}}
    IN  /\ \A c \in Configs :
             {FailureRate(s, c), CriticalFailureRate(s, c)} \subseteq 0..Scale \cup {NaN}
        /\ QuestionsOf(s) # {} =>
             SumFunction([c \in Configs |-> WinRate(s, c)]) * Cardinality(QuestionsOf(s))
               = Scale * Cardinality(won)

\* a is the best of aggs: no rank is above its own, and it is a number when
\* any of them is one.
Best(a, aggs) ==
  /\ a \in ToSet(aggs)
  /\ \A b \in ToSet(aggs) : b.rank # NaN => a.rank # NaN /\ a.rank >= b.rank

(***************************************************************************)
(* The row the report marks as the best configuration has the highest rank *)
(* score, although the template sorts again by a key that NaN spoils: it   *)
(* relies on the order AggregateResultsUseCase left (aggregate_results.py: *)
(* 78-81 and 131, html_report.py:137, report_template.html.j2:62).         *)
(***************************************************************************)
ReportMarksTheBest == shown.by = "report" => Best(shown.best, table)

(***************************************************************************)
(* The corrected p-values belong to their tests: a test without a p-value  *)
(* gets none, no correction makes a test more significant than it was, and *)
(* the order of the tests is kept (statistical_analysis.py:139-174).       *)
(***************************************************************************)
CorrectionFollowsTests ==
  \A i, j \in DOMAIN stats.p :
    /\ stats.p[i] = NaN <=> stats.corrected[i] = NaN
    /\ stats.p[i] # NaN => stats.corrected[i] >= stats.p[i]
    /\ NaN \notin {stats.p[i], stats.p[j]} /\ stats.p[i] <= stats.p[j]
         => stats.corrected[i] <= stats.corrected[j]

(***************************************************************************)
(* The kappa `validate-judge` reports never flatters the judge: it has     *)
(* none when all labels are the same, it is never above the share of the   *)
(* rows on which judge and reviewers agree, it is 100% only without a      *)
(* discordance, and a judge that disagrees on more than one row in five is *)
(* not called almost perfect (judge_validation.py:77-95 and 174-245).      *)
(***************************************************************************)
KappaFollowsAgreement ==
  shown.by = "validate" =>
    LET m == shown.matrix
        k == shown.kappa
        n == Compared(m)
    IN  /\ n >= MinSample
        /\ k = NaN <=> n \in {m.tp, m.tn}
        /\ k # NaN => k * n <= 100 * (m.tp + m.tn)
        /\ k = 100 => m.fp + m.fn = 0
        /\ shown.reading = "quase-perfeita" => 5 * (m.fp + m.fn) <= n

\* The statistics a command shows: its corrected p-values and its kappa.
StatisticsAreSound == CorrectionFollowsTests /\ KappaFollowsAgreement

(***************************************************************************)
(* The configuration `status` names as the best has the highest rank score *)
(* of those it compares, as soon as one of them has a rank                 *)
(* (cli.py:1782-1806).                                                     *)
(***************************************************************************)
StatusNamesTheBest ==
  shown.by = "status" /\ shown.best # Nothing => Best(shown.best, table)

(***************************************************************************)
(* What keeps `status` from it is only the first of the configurations it  *)
(* compares: if that one has a rank, the others may lack theirs.           *)
(***************************************************************************)
StatusFollowsTheFirst ==
  shown.by = "status" /\ table # <<>> /\ table[1].rank # NaN => Best(shown.best, table)

(***************************************************************************)
(* The configuration the summary of a run names has the highest rank score *)
(* when all of them have one, although list.sort compares only some of the *)
(* pairs (cli.py:505-540).                                                  *)
(***************************************************************************)
SummaryNamesTheBest ==
  shown.by = "summary" /\ (\A i \in DOMAIN table : table[i].rank # NaN)
    => Best(shown.best, table)

(***************************************************************************)
(* What a command calls the best is the best it could know: each of them   *)
(* finds it by a sort or a maximum of its own, and NaN spoils all but the  *)
(* one the report relies on (html_report.py:137, cli.py:505-540 and        *)
(* 1782-1806).                                                             *)
(***************************************************************************)
ShownBestIsBest == ReportMarksTheBest /\ StatusFollowsTheFirst /\ SummaryNamesTheBest

(***************************************************************************)
(* The ranking of a report lists every configuration with a row of phase A *)
(* in the run, each once and with the rank of these rows, although they    *)
(* are grouped, put in order and ranked apart (aggregate_results.py:131    *)
(* and aggregation.py:196-252).                                            *)
(***************************************************************************)
ListsRows(l, s) ==
  /\ {l[k].config : k \in DOMAIN l} = {c \in Configs : Group(s, c) # {}}
  /\ \A i, j \in DOMAIN l : l[i].config = l[j].config => i = j
  /\ \A k \in DOMAIN l : l[k].rank = RankScore(s, l[k].config)

RankingListsTheRows ==
  [][ReportAggregate /\ stage' = "aggregated" => ListsRows(table', Load(rows, {Run}, {"A"}))]_vars

(***************************************************************************)
(* Types, and the inductive invariant: between commands nothing is shown,  *)
(* an aggregated report has a ranking in the order of its keys, and what a *)
(* command has shown stays true while its user reads it.                   *)
(***************************************************************************)
Frame(s) == DOMAIN s \subseteq Cells /\ s \in [DOMAIN s -> Row]

Ranks == {NaN} \cup (-3 * Scale)..(17 * Scale)
Aggregates == [config : Configs, rank : Ranks, observations : Nat, excluded : Nat]

TypeOK ==
  /\ Frame(rows) /\ Frame(frame)
  /\ stage \in {"idle", "loaded", "aggregated", "shown"}
  /\ table \in Seq(Aggregates)
  /\ writes \in 0..MaxWrites

Ranked(l) ==
  l # <<>> /\ \A i, j \in DOMAIN l : i < j => RankKey(l[i]) >= RankKey(l[j])

IInv ==
  /\ TypeOK
  /\ stage # "shown" => shown = Nothing
  /\ stage = "aggregated" => Ranked(table)
  /\ ShownBestIsBest
  /\ CorrectionFollowsTests
=============================================================================
