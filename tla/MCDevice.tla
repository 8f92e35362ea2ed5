------------------------------ MODULE MCDevice ---------------------------------
\* What runs on the user's own machine, in three scopes.  "runs": two threads, one
\* run after them in the longest plan; the summarize command is given once main
\* has ended.  "fixtures": the security rules are validated on two rules, with
\* manifests that pair them, that pair one of them, that name a fixture twice and
\* that contradict themselves.  "install": one agent file, two releases, two
\* transactions: an upgrade over an earlier installation, its rollback, and a
\* crash or an exception at any step of both.  The user edits from the first
\* transaction on, the fleet's other device publishes before it or never.
EXTENDS BenchmarkRun, SecurityValidation, InstallTransaction

VARIABLE scope
MCAgents == <<"a1">>
MCPlans == {<<"D", "D">>, <<"B", "A", "C">>, <<"E", "F">>, <<"D", "D", "D", "D">>}
Printed(plans, exact, ranks, total, input, returned, logged) ==
  [plans |-> plans, conditions |-> plans, exact |-> exact, ranks |-> ranks, total |-> total, input |-> input,
   output |-> {1}, returned |-> returned, logged |-> logged]
MCOutputs == {Printed(0, FALSE, <<>>, {}, {}, TRUE, Unknown), Printed(1, TRUE, <<>>, {1, 2}, {}, TRUE, Unknown),
              Printed(1, TRUE, <<>>, {1, 2}, {}, TRUE, 1), Printed(1, FALSE, <<1>>, {3}, {1}, FALSE, Unknown)}

MCRules == {"token", "exec"}
MCCategory == [r \in MCRules |-> "code"]
Case(id, rule, expectation, expected, forbidden) ==
  [id |-> id, rule |-> rule, category |-> "code", expectation |-> expectation, expected |-> expected, forbidden |-> forbidden]
Vulnerable(id, rule) == Case(id, rule, "vulnerable", {rule}, {})
Safe(id, rule) == Case(id, rule, "safe", {}, {rule})
MCManifests ==
  {<<Vulnerable(1, "token"), Safe(2, "token"), Vulnerable(3, "exec"), Safe(4, "exec")>>,
   <<Case(1, "token", "vulnerable", MCRules, {}), Safe(2, "token"), Vulnerable(3, "token"), Safe(4, "exec")>>,
   <<Vulnerable(1, "token"), Safe(1, "token")>>, <<Case(1, "token", "safe", {"exec"}, {"token"})>>}
MCScans == [critical : {0}, high : {0, 1}, other : {0}] \cup {[critical |-> 0, high |-> 0, other |-> 1]}

\* The runs of a batch share nothing but main's results: each goes on at once to
\* the start of its model, the first run first, and from the model's end to its
\* own, in any order of the runs.  Timeouts and credentials that cannot be
\* removed are left to the plan of two runs.
MCRuns ==
  /\ \A i, j \in Batch :
       \/ run[i].at \notin {"waiting", "model", "ended", "raised"} /\ i # j
       \/ run[i].at = "waiting" /\ i < j
       => run'[j] = run[j]
  /\ \A i \in Slots : run'[i].timed \/ run'[i].stuck => Len(work) = 2
  /\ summary' # summary => main' \in {"done", "failed", "died"}

MCOthers ==
  /\ files' # files /\ job' = job => txns # <<>>
  /\ shared' = "other" /\ shared # shared' => txns = <<>>

MCInit ==
  /\ BenchInit /\ ValidationInit /\ Init /\ scope \in {"runs", "fixtures", "install"}
  /\ scope # "runs" => work = <<"D", "D">>
MCSpec ==
  /\ MCInit
  /\ [][ /\ UNCHANGED scope
         /\ \/ scope = "runs" /\ BenchNext /\ MCRuns /\ UNCHANGED <<validationVars, vars>>
            \/ scope = "fixtures" /\ ValidationNext /\ UNCHANGED <<benchVars, vars>>
            \/ scope = "install" /\ Next /\ MCOthers /\ UNCHANGED <<benchVars, validationVars>>]_<<benchVars, validationVars, vars, scope>>
===============================================================================
