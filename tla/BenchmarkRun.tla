------------------------------ MODULE BenchmarkRun ------------------------------
(***************************************************************************)
(* The real benchmark (routecraft_real_benchmark.py).  main checks a plan  *)
(* of runs against its ceilings and hands it out in batches of threads;    *)
(* run_one takes one run through the treatment under test, a disposable    *)
(* broker home that holds a copy of the credentials, the proof of the      *)
(* sandbox, the model, the acceptance tests and its judgement; summaries   *)
(* are made of the rows.  A step that raises ends its run; the batch is    *)
(* waited for, and main fails without a summary.                           *)
(***************************************************************************)
EXTENDS Integers, Sequences, FiniteSets, FiniteSetsExt

CONSTANTS Plans,          \* the work lists main may be given: sequences of modes
          Parallelism,    \* threads of a batch
          MaxRuns, MaxTotalTokens, MaxTokensPerRun,   \* the ceilings asked for
          Outputs,        \* what a model may print, by what is read from it
          MaxMatches,     \* matches a recall returns at most
          EnoughRows,     \* rows that make evidence "measured" (10 in the code)
          Crossings,      \* what a host's sandbox may grant beyond its profiles
          Files, Oracle,  \* of the fixture; those that judge it
          Required,       \* what a change has to touch
          Unknown

ASSUME BenchmarkAssumption ==
  /\ {Parallelism, EnoughRows, MaxTokensPerRun} \subseteq Nat \ {0}
  /\ {MaxRuns, MaxTotalTokens, MaxMatches} \subseteq Nat /\ Unknown \notin Nat
  /\ \A plan \in Plans : plan \in Seq({"A", "B", "C", "D", "E", "F"})
  /\ \A out \in Outputs : out.ranks \in Seq(Nat) /\ out.logged \in Nat \cup {Unknown}

VARIABLES
  main,      \* planned, running, refused, failed, done or died
  work,      \* the planned runs, by mode
  offset,    \* runs handed out so far
  run,       \* what each run is doing and has seen
  results,   \* rows collected by main, in the order they came
  summary    \* summary.json, by mode

benchVars == <<main, work, offset, run, results, summary>>

Slots == UNION {DOMAIN plan : plan \in Plans}
None == Unknown
\* MODE_SPECS: the Decision Memory mode a treatment is measured under.
EvaluationMode(m) == CASE m = "A" -> "none" [] m = "B" -> "off" [] m = "C" -> "recall" [] OTHER -> "full"
On(m) == m # "A"
Recalls(m) == EvaluationMode(m) \in {"recall", "full"}
Profiles == {"solver", "outer", "acceptance"}
\* launcher, rest and apart: what is alive of the model's processes, the others
\* of the launcher's process group, and those that made a session of their own.
\* stuck: the copied credentials could not be removed.  counted: the useful
\* memories that the run's evaluation log told of.
Fresh == [at |-> "waiting", condition |-> TRUE, eval |-> <<>>, matches |-> 0, auth |-> FALSE, sandbox |-> [p \in Profiles |-> {}],
          launcher |-> FALSE, rest |-> FALSE, apart |-> FALSE, timed |-> FALSE, tests |-> FALSE, stuck |-> FALSE, counted |-> Unknown]

BenchInit ==
  /\ main = "planned" /\ work \in Plans /\ offset = 0
  /\ run = [i \in Slots |-> Fresh] /\ results = <<>> /\ summary = None

RunAt(i, at) == run[i].at = at
Becomes(i, r) == run' = [run EXCEPT ![i] = r]
MainRests == UNCHANGED <<main, work, offset, summary>>
--------------------------------------------------------------------------------
(* The treatment *)

\* _start_graph_condition: only observe can be established.
GraphEstablished(m) == m # "F"

\* _readonly_recall: as many matches as the store has and the budget allows
Recallable(m) == IF Recalls(m) THEN 0 .. MaxMatches ELSE {0}

\* _start_routecraft_condition: off needs nothing; else the graph is compiled,
\* a task started and, where the mode has memory, its recall recorded.  A
\* failure is followed by a "cancelled" finish, which memory_loop_status
\* refuses but in mode full with its recall.
Treat(i, matches) ==
  /\ RunAt(i, "waiting") /\ i <= offset /\ (On(work[i]) => GraphEstablished(work[i]))
  /\ matches \in Recallable(work[i])
  /\ Becomes(i, [run[i] EXCEPT !.at = "treated", !.matches = matches, !.eval =
       IF ~On(work[i]) THEN <<>> ELSE IF Recalls(work[i]) THEN <<"start", "recall">> ELSE <<"start">>])
  /\ MainRests /\ UNCHANGED results
TreatmentFails(i) ==
  /\ RunAt(i, "waiting") /\ i <= offset /\ On(work[i])
  /\ \E eval \in {<<>>} \cup (IF Recalls(work[i]) /\ GraphEstablished(work[i]) THEN {<<"start">>} ELSE {}) :
       Becomes(i, [run[i] EXCEPT !.at = "raised", !.eval = eval])
  /\ MainRests /\ UNCHANGED results

--------------------------------------------------------------------------------
(* The broker home and the sandbox *)

\* _permission_profile_config: what each profile of the configuration grants
\* beside the reading of the workspace.
Profile(p) ==
  CASE p = "solver" -> {"workspace write", "evaluation write"}
    [] p = "outer" -> {"workspace write", "evaluation write", "broker", "network"}
    [] p = "acceptance" -> {"harness read"}

\* A host that enforces the configuration, and one that grants more.
HostGrants == {[p \in Profiles |-> Profile(p)]} \cup
  {[p \in Profiles |-> Profile(p) \cup {more}] : more \in Crossings}

\* Faulty variant of ProbeFailures: the harness is not probed.
ProbeFailuresBlind(p, granted) ==
  ({"private home"} \cap granted) \cup
  {b \in {"broker", "network", "workspace write"} :
     (b \in granted) # (p \in (IF b = "workspace write" THEN {"solver", "outer"} ELSE {"outer"}))}

\* _verify_sandbox_profiles: the boundaries that its probe finds crossed; what
\* may be written of the evaluation is not probed.
ProbeFailures(p, granted) ==
  ({"private home"} \cap granted) \cup
  {b \in {"broker", "network", "workspace write", "harness read"} :
     (b \in granted) # (p \in (CASE b = "workspace write" -> {"solver", "outer"}
                                 [] b = "harness read" -> {"acceptance"} [] OTHER -> {"outer"}))}

\* materialize_case and _prepare_acceptance_harness
Materialize(i) ==
  /\ RunAt(i, "treated") /\ Becomes(i, [run[i] EXCEPT !.at = "materialized"])
  /\ MainRests /\ UNCHANGED results

\* _isolated_codex_home: the credentials are copied into a home of the run's
\* own before anything else there is made.
EnterBroker(i) ==
  /\ RunAt(i, "materialized")
  /\ \E granted \in HostGrants : Becomes(i, [run[i] EXCEPT !.at = "broker", !.auth = TRUE, !.sandbox = granted])
  /\ MainRests /\ UNCHANGED results

\* Faulty variant of LeaveBroker: the copy stays behind a run that raised.
LeaveBrokerDone(r) ==
  IF r.at = "raised" THEN {r}
  ELSE {[r EXCEPT !.auth = FALSE], [r EXCEPT !.auth = FALSE, !.at = "raised"], [r EXCEPT !.at = "raised", !.stuck = TRUE]}

\* _isolated_codex_home, finally: the credentials are removed, then the rest of
\* the home; either may raise, and only a missing copy is passed over.
LeaveBroker(r) ==
  {[r EXCEPT !.auth = FALSE]} \cup
  IF r.auth THEN {[r EXCEPT !.auth = FALSE, !.at = "raised"], [r EXCEPT !.at = "raised", !.stuck = TRUE]} ELSE {}

\* _verify_routecraft_plugin_registration found one registration of the broker's.
VerifyPlugin(i) ==
  /\ RunAt(i, "broker") /\ Becomes(i, [run[i] EXCEPT !.at = "registered"])
  /\ MainRests /\ UNCHANGED results

\* run_one starts the model once every profile has been probed, in a session of
\* its own.
StartModel(i) ==
  /\ RunAt(i, "registered") /\ \A p \in Profiles : ProbeFailures(p, run[i].sandbox[p]) = {}
  /\ Becomes(i, [run[i] EXCEPT !.at = "model", !.launcher = TRUE, !.rest = TRUE])
  /\ MainRests /\ UNCHANGED results

\* Anything else before or after the model raises: git, the broker's files, the
\* plugin, the probes, the acceptance harness.
RunRaises(i) ==
  /\ run[i].at \in {"treated", "materialized", "broker", "registered", "acceptance", "finishing"}
  /\ \E left \in LeaveBroker([run[i] EXCEPT !.at = "raised"]) : Becomes(i, left)
  /\ MainRests /\ UNCHANGED results

--------------------------------------------------------------------------------
(* The model's process group *)

\* _model_process_tree: the launcher ends in time; a descendant that has let go
\* of its pipes may stay.
ModelEnds(i) ==
  /\ RunAt(i, "model")
  /\ \E stays \in BOOLEAN : Becomes(i, [run[i] EXCEPT !.at = "acceptance", !.launcher = FALSE, !.rest = stays])
  /\ MainRests /\ UNCHANGED results

\* once the launcher has ended, its group is killed whatever it ignored; a
\* session of its own is out of killpg's reach.
Gone(r) == [r EXCEPT !.launcher = FALSE, !.rest = FALSE]

\* A descendant may have made a session of its own by then.
TimesOut(i) ==
  /\ RunAt(i, "model") /\ \E apart \in BOOLEAN : Becomes(i, [run[i] EXCEPT !.at = "SIGTERM", !.timed = TRUE, !.apart = apart])
  /\ MainRests /\ UNCHANGED results
\* After both signals it raises while something holds the pipes of the model.
Terminate(i) ==
  /\ run[i].at \in {"SIGTERM", "SIGKILL"}
  /\ \/ Becomes(i, [Gone(run[i]) EXCEPT !.at = "acceptance"])
     \/ RunAt(i, "SIGTERM") /\ Becomes(i, [run[i] EXCEPT !.at = "SIGKILL"])
     \/ /\ RunAt(i, "SIGKILL")
        /\ \E launcher, rest \in BOOLEAN :
             /\ launcher \/ rest \/ run[i].apart
             /\ \E left \in LeaveBroker([run[i] EXCEPT !.at = "raised", !.launcher = launcher, !.rest = rest]) : Becomes(i, left)
  /\ MainRests /\ UNCHANGED results

\* _run_acceptance; the broker home is left when its tests have run.
Accept(i, pass) ==
  /\ RunAt(i, "acceptance")
  /\ \E left \in LeaveBroker([run[i] EXCEPT !.at = "finishing", !.tests = pass]) : Becomes(i, left)
  /\ MainRests /\ UNCHANGED results

--------------------------------------------------------------------------------
(* The judgement *)

\* parse_ndjson: the largest total seen, or the sum of input and output.
TotalTokens(out) ==
  IF out.total # {} THEN Max(out.total)
  ELSE IF out.input # {} /\ out.output # {} THEN Max(out.input) + Max(out.output) ELSE Unknown

\* inspect_routecraft_markers: the blocks around the work of the model; the
\* ranks found useful are of matches that were recalled, in order, once.
RanksValid(m, out, matches) ==
  /\ out.ranks # <<>> => Recalls(m)
  /\ \A k \in DOMAIN out.ranks : out.ranks[k] \in 1 .. matches /\ (k > 1 => out.ranks[k - 1] < out.ranks[k])
MarkersPass(m, out, matches) ==
  IF On(m) THEN out.plans = 1 /\ out.conditions = 1 /\ out.exact /\ RanksValid(m, out, matches)
  ELSE out.plans = 0 /\ out.conditions = 0
Useful(m, out, matches) == IF On(m) /\ out.exact /\ RanksValid(m, out, matches) THEN Len(out.ranks) ELSE 0

\* _changed_requirements: only files of the fixture that do not judge it.
ChangesPass(changed) == changed \subseteq Files \ Oracle /\ Required \subseteq changed /\ changed # {}

\* run_one: what the evaluator is told
Outcome(r, pass, condition, returned) ==
  IF r.timed THEN "cancelled" ELSE IF pass /\ condition THEN "success" ELSE IF returned THEN "partial" ELSE "failed"

\* _finish_routecraft_condition: a finish that raises fails the condition.
FinishCondition(m, condition, finished) == condition /\ (On(m) => finished)

\* _evaluation_metrics: the sum over every finished task of the log, those the
\* model finished there itself included.
Counted(logged, finished, useful) ==
  IF ~finished THEN logged ELSE useful + (IF logged = Unknown THEN 0 ELSE logged)

\* Faulty variant of RoundTrips: any count that comes back will do.
RoundTripsUncompared(m, marked, counted, useful) == (Recalls(m) /\ marked) => counted # Unknown

\* The solver's count of useful memories comes back from the evaluation log.
RoundTrips(m, marked, counted, useful) == (Recalls(m) /\ marked) => counted = useful

\* run_one from parse_ndjson to result.json, and main's collecting of the row.
Judge(i, out, changed, finished) ==
  LET m == work[i]
      marked == MarkersPass(m, out, run[i].matches)
      useful == Useful(m, out, run[i].matches)
      pass == run[i].tests /\ ChangesPass(changed)
      returned == out.returned /\ ~run[i].timed
      outcome == Outcome(run[i], pass, marked, returned)
      counted == Counted(out.logged, On(m) /\ finished, useful)
      condition == FinishCondition(m, marked, finished) /\ RoundTrips(m, marked, counted, useful)
      row == [run |-> i, mode |-> m, condition |-> condition, success |-> returned /\ condition, useful |-> useful,
              accepted |-> pass /\ condition, timed |-> run[i].timed, tokens |-> TotalTokens(out)]
  IN
  /\ RunAt(i, "finishing") /\ (~On(m) => finished)
  /\ Becomes(i, [run[i] EXCEPT !.at = "ended", !.condition = condition, !.counted = counted,
                   !.eval = IF On(m) /\ finished THEN Append(@, outcome) ELSE @])
  /\ results' = Append(results, row) /\ MainRests
--------------------------------------------------------------------------------
(* main *)

\* what each row counts as; a run of unknown cost, as the most it may cost
Cost == [k \in DOMAIN results |-> IF results[k].tokens = Unknown THEN MaxTokensPerRun ELSE results[k].tokens]
SumOf(cost, rows) == MapThenSumSet(LAMBDA k : cost[k], rows)
Accounted(rows) == SumOf(Cost, rows)
Oversized(rows) == \E k \in rows : results[k].tokens # Unknown /\ results[k].tokens > MaxTokensPerRun
Batch == {i \in 1 .. offset : (i - 1) \div Parallelism = (offset - 1) \div Parallelism}
BatchOver == \A i \in Batch : run[i].at \in {"ended", "raised"}

\* planned_run_count and the ceilings, before anything is run
Plan ==
  /\ main = "planned"
  /\ main' = IF (\E k \in DOMAIN work : work[k] = "F") \/ Len(work) > MaxRuns \/ Len(work) * MaxTokensPerRun > MaxTotalTokens
             THEN "refused" ELSE "running"
  /\ UNCHANGED <<work, offset, run, results, summary>>

\* Faulty variant of MayGoOn: the ceilings are looked at when all is over.
MayGoOnBlind == BatchOver /\ \A i \in Batch : RunAt(i, "ended")

\* the accounting after each batch
MayGoOn ==
  /\ BatchOver /\ \A i \in Batch : RunAt(i, "ended")
  /\ ~Oversized(DOMAIN results) /\ Accounted(DOMAIN results) <= MaxTotalTokens
Submit ==
  /\ main = "running" /\ offset < Len(work) /\ MayGoOn
  /\ offset' = Min({offset + Parallelism, Len(work)}) /\ UNCHANGED <<main, work, run, results, summary>>
MainFails ==
  /\ main = "running" /\ BatchOver /\ ~MayGoOn /\ main' = "failed"
  /\ UNCHANGED <<work, offset, run, results, summary>>

\* _metric_evidence: the rows a metric is known of, here the cost.
Metered(rows, evidence) == {k \in evidence : rows[k].tokens # Unknown}

\* summarize: one row that failed its condition takes the evidence of its mode.
ModeSummary(rows, m) ==
  LET mine == {k \in DOMAIN rows : rows[k].mode = m}
      whole == mine # {} /\ \A k \in mine : rows[k].condition
      evidence == IF whole THEN mine ELSE {} IN
  [size |-> Cardinality(mine), evidence |-> Cardinality(evidence),
   accepted |-> Cardinality({k \in evidence : rows[k].accepted}), tokens |-> Cardinality(Metered(rows, evidence)),
   status |-> CASE mine = {} -> "unavailable" [] ~whole -> "failed"
                [] Cardinality(evidence) >= EnoughRows -> "measured" [] OTHER -> "insufficient_evidence"]
Summarized(rows) == [m \in {"A", "B", "C", "D", "E", "F"} |-> ModeSummary(rows, m)]

\* to_d1_aggregate: the counts of every mode fit each other.
Exportable(s) == \A m \in DOMAIN s : s[m].tokens <= s[m].size /\ s[m].accepted <= s[m].evidence

\* The end of run: --d1-output and the device id are looked at only now, and
\* to_d1_aggregate may refuse them.
Finish ==
  /\ main = "running" /\ offset = Len(work) /\ MayGoOn
  /\ \/ main' = "done" /\ summary' = Summarized(results) /\ Exportable(summary')
     \/ main' = "failed" /\ UNCHANGED summary
  /\ UNCHANGED <<work, offset, run, results>>

\* the summarize command: result.json of every run that came so far
SummarizeCommand ==
  /\ summary' = Summarized(results) /\ UNCHANGED <<main, work, offset, run, results>>

\* The process is killed: its threads stop where they are, and what they had
\* copied or started stays.
MainDies ==
  /\ main = "running" /\ main' = "died" /\ UNCHANGED <<work, offset, run, results, summary>>

RunStep(i) ==
  \/ \E matches \in 0 .. MaxMatches : Treat(i, matches)
  \/ TreatmentFails(i) \/ Materialize(i) \/ EnterBroker(i) \/ VerifyPlugin(i) \/ StartModel(i) \/ RunRaises(i)
  \/ ModelEnds(i) \/ TimesOut(i) \/ Terminate(i)
  \/ \E pass \in BOOLEAN : Accept(i, pass)
  \/ \E out \in Outputs, changed \in SUBSET (Files \cup {"stray"}), finished \in BOOLEAN : Judge(i, out, changed, finished)
BenchNext ==
  \/ (main = "running" /\ \E i \in Slots : RunStep(i))
  \/ Plan \/ Submit \/ MainFails \/ MainDies \/ Finish \/ SummarizeCommand
Spec == BenchInit /\ [][BenchNext]_benchVars
--------------------------------------------------------------------------------
Running(r) == r.at \notin {"waiting", "treated", "materialized", "broker", "registered", "raised"}

\* While a model works or its tests run, the solver reaches neither the tests
\* that judge it, nor the credentials, the network or the user's home, and the
\* tests cannot rewrite what they judge (_verify_sandbox_profiles before the
\* model is started).
ModelConfined ==
  \A i \in Slots : Running(run[i]) =>
    /\ run[i].sandbox["solver"] \cap {"harness read", "broker", "network", "private home"} = {}
    /\ run[i].sandbox["acceptance"] \cap {"workspace write", "broker", "network", "private home"} = {}

\* However a run ends, by raising too, it leaves no copy of the credentials but
\* one that could not be removed; and what works after a timeout, the tests and
\* the accounting, works when the model's process group has ended.
NothingOutlivesTheBroker ==
  \A i \in Slots :
    /\ run[i].at \in {"waiting", "treated", "materialized", "finishing", "ended", "raised"} => ~run[i].auth \/ run[i].stuck
    /\ (run[i].timed /\ run[i].at \in {"acceptance", "finishing", "ended"}) => ~run[i].launcher /\ ~run[i].rest

\* "A timeout terminates the sandbox launcher and its descendants before broker
\* credentials are cleaned up or post-run accounting proceeds": the promise of
\* _model_process_tree, which the code does not keep for a descendant that made
\* a session of its own, nor when both signals were of no use.
DescendantsGone ==
  \A i \in Slots :
    run[i].timed /\ (~run[i].auth \/ run[i].at \in {"finishing", "ended"})
      => ~run[i].launcher /\ ~run[i].rest /\ ~run[i].apart

\* Together: what a run hands to a model is out of its reach, and the run cleans
\* up behind it.
ModelContained == ModelConfined /\ NothingOutlivesTheBroker

\* A row that claims its treatment is backed by the evaluation log of its run:
\* one start, one recall where the mode has memory, one finish, and a success
\* just when the row was accepted within its time.  The useful memories it
\* reports are all that the log tells of, whatever the model logged there.
RowsBacked ==
  \A k \in DOMAIN results : LET row == results[k] IN
    (row.condition /\ On(row.mode)) =>
      LET eval == run[row.run].eval IN
      /\ Len(eval) = IF Recalls(row.mode) THEN 3 ELSE 2
      /\ (eval[Len(eval)] = "success") <=> (row.accepted /\ ~row.timed)
      /\ Recalls(row.mode) => run[row.run].counted = row.useful

\* No model is started after a batch that broke a ceiling, and none was broken
\* when run ends well: a run of unknown cost counts as the most it may cost.
CeilingsHold ==
  LET before == {k \in DOMAIN results : main = "done" \/ results[k].run \notin Batch} IN
  main \in {"running", "done"} /\ (main = "done" \/ \E i \in Batch : run[i].launcher)
    => ~Oversized(before) /\ Accounted(before) <= MaxTotalTokens

\* What run summarises at its end is its whole plan, each planned run once; and
\* in every summary the evidence of a mode is all of its rows or none, and the
\* aggregate made of it is not refused.
SummaryWhole ==
  /\ main = "done" => \A m \in DOMAIN summary : summary[m].size = Cardinality({i \in DOMAIN work : work[i] = m})
  /\ summary # None => Exportable(summary) /\ \A m \in DOMAIN summary : summary[m].evidence \in {0, summary[m].size}

\* Together: nothing is summarised that no run did.
ResultsBacked == RowsBacked /\ SummaryWhole
================================================================================
