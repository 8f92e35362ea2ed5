--------------------------- MODULE EvaluationSummary ---------------------------
(***************************************************************************)
(* What routecraft_evaluation.py summarize makes of the log: tasks per     *)
(* mode, what recall was worth, what memory saved, and a scorecard of nine *)
(* parts, each scored only from evidence enough.  The log is taken as the  *)
(* number of tasks of each kind, a kind being its place in TaskKinds;      *)
(* scores are in hundredths, rounded to the nearest as the code does (but   *)
(* for halves, which its binary fractions round either way).               *)
(***************************************************************************)
EXTENDS Integers, Sequences, FiniteSets, FiniteSetsExt

CONSTANTS
  TaskKinds,   \* sequence of [mode, repository, device, class, success, elapsed, hypotheses, records, source, kept]
  Batches,     \* how many tasks of one kind finish between two summaries
  MaxOfKind,   \* bound: tasks of each kind
  MaxLines,    \* bound: lines of the log that cannot be read
  Missing      \* null, or no name

\* finish_task and record_recall: a record has one rank and at most one verdict;
\* every finished task made its one recall, but in mode off none.
ASSUME SummaryAssumption ==
  /\ Batches \subseteq Nat \ {0} /\ MaxOfKind \in Nat /\ MaxLines \in Nat /\ Missing \notin Int
  /\ Len(TaskKinds) \in Nat /\ DOMAIN TaskKinds = 1 .. Len(TaskKinds)
  /\ \A i \in DOMAIN TaskKinds : LET k == TaskKinds[i] IN
       /\ k.mode \in {"off", "recall", "full"} /\ k.success \in BOOLEAN /\ k.elapsed \in Nat
       /\ k.hypotheses \in Nat \cup {Missing} /\ {k.source, k.kept} \subseteq Nat
       /\ IsFiniteSet(k.records) /\ (k.mode = "off" => k.records = {})
       /\ \A r \in k.records : r.rank \in Nat \ {0} /\ r.verdict \in {"useful", "misleading", "stale", Missing}

VARIABLES
  finished,   \* how many tasks of each kind the log finishes
  malformed,  \* lines that are no event
  told        \* what the last summary shown had scored, and which mode it compared
summaryVars == <<finished, malformed, told>>

--------------------------------------------------------------------------------
Kinds == DOMAIN TaskKinds
Elapsed == [k \in Kinds |-> TaskKinds[k].elapsed]
Hypotheses == [k \in Kinds |-> TaskKinds[k].hypotheses]
Logged == {k \in Kinds : finished[k] > 0}
Total(amount, set) == MapThenSumSet(LAMBDA x : amount[x], set)
Tally(kinds) == Total(finished, kinds)
TallyOf(kinds, amount) == Total([k \in kinds |-> finished[k] * amount[k]], kinds)
InMode(mode) == {k \in Logged : TaskKinds[k].mode = mode}

\* Twice the median of a field: the two values in the middle, added.
Below(kinds, v, field) == Tally({k \in kinds : field[k] <= v})
Middle(kinds, i, field) == Min({v \in {field[k] : k \in kinds} : Below(kinds, v, field) >= i})
Median(kinds, field) ==
  IF kinds = {} THEN Missing
  ELSE LET n == Tally(kinds) IN Middle(kinds, (n + 1) \div 2, field) + Middle(kinds, n \div 2 + 1, field)
\* round of n / d to a whole number
Rounded(n, d) == (2 * n + d) \div (2 * d)
\* A mean, in thousandths, of the tasks that say it.
Mean(kinds, field) ==
  LET telling == {k \in kinds : field[k] # Missing} IN
  IF telling = {} THEN Missing ELSE Rounded(1000 * TallyOf(telling, field), Tally(telling))

\* pct_reduction, in hundredths of a percent
Reduction(baseline, now) ==
  IF baseline = Missing \/ now = Missing \/ baseline <= 0 THEN Missing ELSE Rounded((baseline - now) * 10000, baseline)

\* Faulty variant of ComparisonReady: as many tasks on one side as on the other.
ComparisonReadyMatched(mode) == Tally(InMode("off")) >= 3 /\ Tally(InMode(mode)) = Tally(InMode("off"))

\* comparison: three tasks on each side, or nothing is compared.
ComparisonReady(mode) == Tally(InMode("off")) >= 3 /\ Tally(InMode(mode)) >= 3
Compared(mode, before, now) == IF ComparisonReady(mode) THEN Reduction(before, now) ELSE Missing
TimeReduction(mode) == Compared(mode, Median(InMode("off"), Elapsed), Median(InMode(mode), Elapsed))
HypothesisReduction(mode) == Compared(mode, Mean(InMode("off"), Hypotheses), Mean(InMode(mode), Hypotheses))
--------------------------------------------------------------------------------
(* What recall was worth *)

Verdicts(k, verdict) == {r \in TaskKinds[k].records : r.verdict = verdict}
Judged(verdict) == TallyOf(Logged, [k \in Logged |-> Cardinality(Verdicts(k, verdict))])
RecalledRecords == TallyOf(Logged, [k \in Logged |-> Cardinality(TaskKinds[k].records)])
Recalling == Logged \ InMode("off")
RecallTasks == Tally(Recalling)
UsefulTasks == {k \in Logged : Verdicts(k, "useful") # {}}
\* 1 / rank of the best useful record, in ten thousandths, over the tasks that
\* recalled any record
RankedTasks == {k \in Logged : TaskKinds[k].records # {}}
ReciprocalRank(k) ==
  IF k \in UsefulTasks THEN Rounded(10000, Min({r.rank : r \in Verdicts(k, "useful")})) ELSE 0
MeanReciprocalRank ==
  IF RankedTasks = {} THEN Missing ELSE Rounded(TallyOf(RankedTasks, [k \in RankedTasks |-> ReciprocalRank(k)]), Tally(RankedTasks))

\* Of the useful records, those whose place and whose task's place are known.
Known(k, place) == {r \in Verdicts(k, "useful") : r[place] # Missing /\ TaskKinds[k][place] # Missing}
KnownIn(place) == TallyOf(Logged, [k \in Logged |-> Cardinality(Known(k, place))])
CrossIn(place) == TallyOf(Logged, [k \in Logged |-> Cardinality({r \in Known(k, place) : r[place] # TaskKinds[k][place]})])
Repositories == {TaskKinds[k].repository : k \in Logged} \ {Missing}
Devices ==
  ({TaskKinds[k].device : k \in Logged} \cup UNION {{r.device : r \in Verdicts(k, "useful")} : k \in Logged}) \ {Missing}

\* estimated_saved_seconds, doubled: against the median of the successful tasks
\* of the same class without memory, when there are two
Baseline(class) == {k \in InMode("off") : TaskKinds[k].class = class /\ TaskKinds[k].success}
Saved(k) == Max({0, Median(Baseline(TaskKinds[k].class), Elapsed) - 2 * TaskKinds[k].elapsed})
Comparable == {k \in Recalling : TaskKinds[k].success /\ Tally(Baseline(TaskKinds[k].class)) >= 2}
EstimatedSaved == TallyOf(Comparable, [k \in Comparable |-> Saved(k)])

Written == {k \in Logged : TaskKinds[k].source > 0}
SourceChars == TallyOf(Written, [k \in Written |-> TaskKinds[k].source])
KeptChars == TallyOf(Written, [k \in Written |-> TaskKinds[k].kept])
--------------------------------------------------------------------------------
(* The scorecard *)

\* Faulty variant of Clamp: a memory that made things worse counts below zero.
ClampAbove(n, d) == IF n > d THEN d ELSE n

\* clamp of n / d to 0 .. 1, as n
Clamp(n, d) == IF n < 0 THEN 0 ELSE IF n > d THEN d ELSE n

Part(max, available, score, sample) == [max |-> max, score |-> IF available THEN score ELSE Missing, sample |-> sample]

\* 12 for the share of the recalls that were useful, 8 for the mean rank
RetrievalQuality ==
  LET able == RecallTasks >= 3 /\ MeanReciprocalRank # Missing IN
  Part(20, able, IF able THEN Rounded(30000 * Tally(UsefulTasks) + 2 * MeanReciprocalRank * RecallTasks, 25 * RecallTasks) ELSE 0, RecallTasks)
\* full when it can be compared, and else recall
TargetMode == IF ComparisonReady("full") THEN "full" ELSE "recall"
TaskTimeReduction ==
  LET r == TimeReduction(TargetMode) IN
  Part(20, r # Missing, IF r = Missing THEN 0 ELSE Rounded(2000 * Clamp(r, 4000), 4000), Tally(InMode(TargetMode)))
FailedHypothesisReduction ==
  LET r == HypothesisReduction(TargetMode) IN
  Part(15, r # Missing, IF r = Missing THEN 0 ELSE Rounded(1500 * Clamp(r, 4000), 4000), Tally(InMode(TargetMode)))
Transfer(places, cross, known) ==
  LET able == Cardinality(places) >= 2 /\ known >= 3 IN
  Part(10, able, IF able THEN Rounded(1000 * Clamp(4 * cross, known), known) ELSE 0, known)
MemoryCorrectness ==
  LET able == RecalledRecords >= 5 IN
  Part(10, able, IF able THEN Rounded(1000 * (RecalledRecords - Judged("misleading")), RecalledRecords) ELSE 0, RecalledRecords)
StaleResistance ==
  LET bad == Judged("stale") + Judged("misleading") IN
  Part(5, bad > 0, IF bad > 0 THEN Rounded(500 * Judged("stale"), bad) ELSE 0, bad)
PrivacyIntegrity == Part(5, TRUE, IF malformed = 0 THEN 500 ELSE 0, 2 * Tally(Logged) + RecallTasks)
DecisionCompression ==
  LET able == SourceChars > 0 IN
  Part(5, able, IF able THEN Rounded(500 * Clamp(10 * (SourceChars - KeptChars), 9 * SourceChars), 9 * SourceChars) ELSE 0, SourceChars)
Components ==
  <<RetrievalQuality, TaskTimeReduction, FailedHypothesisReduction, Transfer(Repositories, CrossIn("repository"), KnownIn("repository")),
    Transfer(Devices, CrossIn("device"), KnownIn("device")), MemoryCorrectness, StaleResistance, PrivacyIntegrity, DecisionCompression>>

Scored(parts) == {i \in DOMAIN parts : parts[i].score # Missing}
Coverage(parts) == Total([i \in Scored(parts) |-> parts[i].max], Scored(parts))
\* out of a hundred, in tenths
Provisional(parts) == Rounded(10 * Total([i \in Scored(parts) |-> parts[i].score], Scored(parts)), Coverage(parts))
ScoreStatus(parts) ==
  IF Coverage(parts) < 50 THEN "insufficient-data" ELSE IF Tally(Logged) < 20 THEN "provisional" ELSE "established"
Score(parts) == IF ScoreStatus(parts) = "insufficient-data" THEN Missing ELSE Provisional(parts)
--------------------------------------------------------------------------------
SummaryInit == finished = [k \in Kinds |-> 0] /\ malformed = 0 /\ told = [scored |-> {}, target |-> "recall"]
FinishTasks(k, n) ==
  finished[k] + n <= MaxOfKind /\ finished' = [finished EXCEPT ![k] = @ + n] /\ UNCHANGED <<malformed, told>>
WriteMalformed == malformed < MaxLines /\ malformed' = malformed + 1 /\ UNCHANGED <<finished, told>>
\* evaluation_summary_command, and the dashboard that shows it
Summarize == told' = [scored |-> Scored(Components), target |-> TargetMode] /\ UNCHANGED <<finished, malformed>>
SummaryNext == WriteMalformed \/ Summarize \/ \E k \in Kinds, n \in Batches : FinishTasks(k, n)
SummarySpec == SummaryInit /\ [][SummaryNext]_summaryVars
--------------------------------------------------------------------------------
\* The score is earned: no part is worth less than nothing or more than its
\* maximum however the tasks went, a score is shown only when half of the parts
\* have evidence, a part of the comparison rests on three tasks with and three
\* without memory, and full marks for retrieval mean that every recall put a
\* useful record first, up to five hundred of them: of more, two places could
\* not tell (summarize).
ScoreEarned ==
  LET parts == Components IN
  /\ \A i \in Scored(parts) : parts[i].score \in 0 .. 100 * parts[i].max /\ (i # 8 => parts[i].sample > 0)
  /\ Score(parts) # Missing => Score(parts) \in 0 .. 1000 /\ Coverage(parts) >= 50
  /\ {2, 3} \cap Scored(parts) # {} => Tally(InMode("off")) >= 3 /\ Tally(Recalling) >= 3
  /\ parts[1].score = 2000 /\ RecallTasks <= 500 => \A k \in Recalling : \E r \in Verdicts(k, "useful") : r.rank = 1
  /\ EstimatedSaved > 0 =>
       \E k \in Recalling, b \in InMode("off") :
          TaskKinds[k].class = TaskKinds[b].class /\ TaskKinds[k].elapsed < TaskKinds[b].elapsed

\* What a summary showed as scored stays scored as the log grows, so that a score
\* does not come and go: but for a comparison, when full takes the place of
\* recall, or when what it is compared with falls to nothing (comparison,
\* full_cmp).
EvidenceStays ==
  LET now == Scored(Components) IN
  /\ told.scored \ {2, 3} \subseteq now
  /\ (~(told.scored \subseteq now) /\ told.target = TargetMode) =>
       \/ Median(InMode("off"), Elapsed) = 0
       \/ Mean(InMode("off"), Hypotheses) = 0
================================================================================
