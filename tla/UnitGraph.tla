------------------------------- MODULE UnitGraph -------------------------------
(***************************************************************************)
(* The execution graph of 0.6 (routecraft_execution_graph.py): units with  *)
(* dependencies, bounded attempts and a bounded number of steps.  Every    *)
(* function takes a state and returns a copy, so a call is one action;     *)
(* advance_graph applies its outcomes one unit at a time, and `round` is   *)
(* the part of its selection it has still to apply.  An output is valid    *)
(* for the unit's schema or not, or absent.                                *)
(***************************************************************************)
EXTENDS UnitTopology

CONSTANTS Graphs,         \* dependency graphs create_graph may be given
          Owner,          \* Owner[u]: the ownership u claims
          GraphLimit,     \* limits.max_attempt_per_unit
          UnitPolicy,     \* retry_policy.max_attempt_per_unit of a unit
          StagePolicy,    \* retry_policy.max_<stage>_attempts of a unit
          MaxSteps, MaxRuns, MaxParallelism,
          WallLimit       \* whether a wall-time limit is configured

Stages == {"produce", "check", "correct"}
\* Every output schema requires a value: an absent output is not valid.
Outputs == {"none", "valid", "invalid"}
Failure == [ok |-> FALSE, verified |-> FALSE, output |-> "none"]
Outcomes == {Failure} \cup [ok : {TRUE}, verified : BOOLEAN, output : Outputs]

ASSUME UnitAssumption ==
  /\ Graphs \subseteq [Units -> SUBSET Units] /\ \A g \in Graphs, u \in Units : u \notin g[u]
  /\ GraphLimit \in Nat \ {0} /\ UnitPolicy \in [Units -> Nat \ {0}]
  /\ StagePolicy \in [Units -> [Stages -> Nat \ {0}]]
  /\ MaxSteps \in Nat /\ MaxRuns \in Nat /\ MaxParallelism \in Nat /\ WallLimit \in BOOLEAN

VARIABLES
  deps,      \* dependencies of each unit, fixed by create_graph
  status,    \* status of each unit
  attempts,  \* attempts of each unit in each stage
  accepted,  \* accepted_outputs: the unit's accepted output, or "none"
  working,   \* working_outputs
  failed,    \* the units in failed_outputs
  phase,     \* status of the graph
  steps, runs, \* counters.graph_steps, counters.total_child_runs
  round      \* units the running advance_graph has still to apply

unitVars == <<status, attempts, accepted, working, failed>>
vars == <<deps, unitVars, phase, steps, runs, round>>

\* create_graph refuses a graph with a cycle: nothing can be done with it.
Init ==
  /\ deps \in Graphs
  /\ status = [u \in Units |-> "pending"] /\ attempts = [u \in Units |-> [s \in Stages |-> 0]]
  /\ accepted = [u \in Units |-> "none"] /\ working = [u \in Units |-> "none"]
  /\ failed = {} /\ phase = IF HasCycle(deps) THEN "refused" ELSE IF Units = {} THEN "accepted" ELSE "pending"
  /\ steps = 0 /\ runs = 0 /\ round = {}

\* _effective_attempt_limit and _stage_attempt_limit
AttemptLimit(u) == Min({GraphLimit, UnitPolicy[u]})
StageAttemptLimit(u, s) == Min({AttemptLimit(u), StagePolicy[u][s]})
Total(u) == attempts[u]["produce"] + attempts[u]["check"] + attempts[u]["correct"]
DepsAccepted(u) == \A d \in deps[u] : status[d] = "accepted"
\* _check_unit_ready
Executable(u) ==
  status[u] \in {"pending", "ready", "reopened", "produced", "accepted"} /\ DepsAccepted(u)
\* ready_nodes, and the ownership-free prefix parallel_ready_nodes selects
Ready == {u \in Units : status[u] \in {"pending", "ready", "reopened"} /\ DepsAccepted(u)}
FirstOfOwner == {u \in Ready : \A w \in Ready : w < u => Owner[w] # Owner[u]}
ParallelReady == {u \in FirstOfOwner : Cardinality({w \in FirstOfOwner : w < u}) < MaxParallelism}

\* Faulty variant of Refreshed: a unit with an accepted output counts as done.
RefreshedByOutput(st) ==
  IF phase = "convergence_failed" THEN phase
  ELSE IF \A u \in Units : st[u] = "accepted" \/ accepted[u] # "none" THEN "accepted"
  ELSE IF \E u \in Units : st[u] = "failed" THEN "retry_pending" ELSE "running"

\* _refresh_graph_status over the statuses st
Refreshed(st) ==
  IF phase = "convergence_failed" THEN phase
  ELSE IF \A u \in Units : st[u] = "accepted" THEN "accepted"
  ELSE IF \E u \in Units : st[u] = "failed" THEN "retry_pending" ELSE "running"

ConvergenceFailed == phase' = "convergence_failed" /\ round' = {} /\ UNCHANGED unitVars

\* _guard_step: the counters grow, or the graph fails to converge; the wall
\* clock is read after the counters were written.
Within(child) == steps + 1 <= MaxSteps /\ (child => runs + 1 <= MaxRuns)
\* Faulty variant of Spend: a child run is checked against its limits and not
\* written to the counters.
SpendUnrecorded(child) == steps' = (IF child THEN steps ELSE steps + 1) /\ UNCHANGED runs

Spend(child) == steps' = steps + 1 /\ runs' = IF child THEN runs + 1 ELSE runs
GuardStops(child) ==
  /\ ConvergenceFailed
  /\ \/ ~Within(child) /\ UNCHANGED <<steps, runs>>
     \/ WallLimit /\ Within(child) /\ Spend(child)
BudgetExhausted == ConvergenceFailed /\ UNCHANGED <<steps, runs>>

\* Faulty variant of SendBack: only the direct dependents are reopened.
SendBackDirect(u) ==
  /\ status' = [x \in Units |-> IF x = u THEN "failed"
                                ELSE IF x \in Dependents(deps, u) THEN "reopened" ELSE status[x]]
  /\ accepted' = [x \in Units |-> IF x \in {u} \cup Dependents(deps, u) THEN "none" ELSE accepted[x]]
  /\ working' = [x \in Units |-> IF x \in {u} \cup Dependents(deps, u) THEN "none" ELSE working[x]]
  /\ failed' = (failed \ Dependents(deps, u)) \cup {u} /\ phase' = "retry_pending"

\* Faulty variant of SendBack: reopened units keep their failure record.
SendBackKeepsFailures(u) ==
  /\ status' = [x \in Units |-> IF x = u THEN "failed"
                                ELSE IF x \in Behind(deps, u) THEN "reopened" ELSE status[x]]
  /\ accepted' = [x \in Units |-> IF x \in {u} \cup Behind(deps, u) THEN "none" ELSE accepted[x]]
  /\ working' = [x \in Units |-> IF x \in {u} \cup Behind(deps, u) THEN "none" ELSE working[x]]
  /\ failed' = failed \cup {u} /\ phase' = "retry_pending"

\* A unit fails (_affected_dependents): everything behind it is reopened and
\* loses its working and failed outputs, and its accepted one if it has status
\* accepted.
SendBack(u) ==
  /\ status' = [x \in Units |-> IF x = u THEN "failed"
                                ELSE IF x \in Behind(deps, u) THEN "reopened" ELSE status[x]]
  /\ accepted' = [x \in Units |->
       IF x = u \/ (x \in Behind(deps, u) /\ status[x] = "accepted") THEN "none" ELSE accepted[x]]
  /\ working' = [x \in Units |-> IF x = u \/ x \in Behind(deps, u) THEN "none" ELSE working[x]]
  /\ failed' = (failed \ Behind(deps, u)) \cup {u}
  /\ phase' = "retry_pending"

Accept(u, output) ==
  /\ status' = [status EXCEPT ![u] = "accepted"] /\ accepted' = [accepted EXCEPT ![u] = output]
  /\ working' = [working EXCEPT ![u] = "none"] /\ failed' = failed \ {u}
  /\ phase' = Refreshed(status')

Produced(u, output) ==
  /\ status' = [status EXCEPT ![u] = "produced"]
  /\ working' = IF output = "none" THEN working ELSE [working EXCEPT ![u] = output]
  /\ failed' = failed \ {u} /\ UNCHANGED accepted
  /\ phase' = Refreshed(status')

Count(u, s) == attempts' = [attempts EXCEPT ![u][s] = @ + 1]

\* fail_unit: the explicit send-back, which counts as a check.
FailUnit(u) ==
  /\ phase # "convergence_failed"
  /\ \/ GuardStops(TRUE)
     \/ /\ Within(TRUE) /\ Spend(TRUE)
        /\ IF Total(u) >= AttemptLimit(u) THEN ConvergenceFailed
           ELSE Count(u, "check") /\ SendBack(u) /\ round' = round \ {u}

\* Faulty variant of CompleteUnit: the unit's attempt limit is not checked.
CompleteUnitUnlimited(u, output) ==
  /\ phase # "convergence_failed" /\ Within(TRUE) /\ Executable(u) /\ Spend(TRUE)
  /\ round' = round \ {u}
  /\ \/ output = "valid" /\ Count(u, "check") /\ Accept(u, output)
     \/ output # "valid" /\ SendBack(u) /\ UNCHANGED attempts

\* complete_unit: an invalid output fails the unit and counts no attempt.
CompleteUnit(u, output) ==
  /\ phase # "convergence_failed"
  /\ \/ GuardStops(TRUE)
     \/ /\ Within(TRUE) /\ Executable(u) /\ Spend(TRUE)
        /\ IF Total(u) >= AttemptLimit(u) THEN ConvergenceFailed
           ELSE /\ round' = round \ {u}
                /\ \/ output = "valid" /\ Count(u, "check") /\ Accept(u, output)
                   \/ output # "valid" /\ SendBack(u) /\ UNCHANGED attempts

\* record_unit_attempt: a check, or a correction that is verified, accepts the
\* output or the working output when it is valid; other successes only
\* produce.
Candidate(u, output) == IF output = "none" THEN working[u] ELSE output
RecordUnitAttempt(u, stage, outcome) ==
  /\ phase # "convergence_failed" /\ Executable(u)
  /\ IF Total(u) >= AttemptLimit(u) \/ attempts[u][stage] >= StageAttemptLimit(u, stage) THEN BudgetExhausted
     ELSE \/ GuardStops(TRUE)
          \/ /\ Within(TRUE) /\ Spend(TRUE) /\ round' = round \ {u} /\ Count(u, stage)
             /\ LET produces == stage = "produce" \/ (stage = "correct" /\ ~outcome.verified)
                    valid == Candidate(u, outcome.output) = "valid"
                IN \/ outcome.ok /\ produces /\ Produced(u, outcome.output)
                   \/ outcome.ok /\ ~produces /\ valid /\ Accept(u, "valid")
                   \/ (~outcome.ok \/ (~produces /\ ~valid)) /\ SendBack(u)

\* retry_unit checks the unit and its budget, not the graph.
RetryUnit(u) ==
  /\ status[u] = "failed" /\ UNCHANGED <<steps, runs, attempts, accepted, working, round>>
  /\ IF Total(u) >= AttemptLimit(u)
     THEN phase' = "convergence_failed" /\ UNCHANGED <<status, failed>>
     ELSE /\ status' = [status EXCEPT ![u] = "reopened"] /\ failed' = failed \ {u}
          /\ phase' = "retry_pending"

\* finalize_graph looks at the units only.
FinalizeGraph ==
  /\ phase' = IF \A u \in Units : status[u] = "accepted" THEN "accepted" ELSE Refreshed(status)
  /\ UNCHANGED <<unitVars, steps, runs, round>>

\* advance_graph: select a round (here, those of it that have an outcome), or
\* spend a step when no outcome is given; then apply the outcomes in order.
MarkSelected ==
  status' = [u \in Units |-> IF u \in ParallelReady THEN "ready" ELSE status[u]]
AdvanceGraph(outcomes) ==
  /\ phase \notin {"accepted", "convergence_failed"} /\ MarkSelected
  /\ UNCHANGED <<attempts, accepted, working, failed>>
  /\ IF outcomes = {}
     THEN /\ round' = {}
          /\ IF Within(FALSE) THEN Spend(FALSE) ELSE UNCHANGED <<steps, runs>>
          /\ \/ Within(FALSE) /\ phase' = Refreshed(status')
             \/ (WallLimit \/ ~Within(FALSE)) /\ phase' = "convergence_failed"
     ELSE round' = outcomes \cap ParallelReady /\ phase' = Refreshed(status') /\ UNCHANGED <<steps, runs>>

Apply(u) ==
  \/ FailUnit(u)
  \/ \E output \in Outputs : CompleteUnit(u, output)
  \/ \E stage \in Stages, outcome \in Outcomes : RecordUnitAttempt(u, stage, outcome)

ApplyRound == \E u \in round : (\A w \in round : u <= w) /\ Apply(u)

Idle == round = {}
Step ==
  \/ ApplyRound
  \/ Idle /\ FinalizeGraph
  \/ \E u \in Units : Idle /\ (Apply(u) \/ RetryUnit(u))
  \/ \E outcomes \in SUBSET Units : Idle /\ AdvanceGraph(outcomes)
Next == phase # "refused" /\ Step /\ UNCHANGED deps

Spec == Init /\ [][Next]_vars
--------------------------------------------------------------------------------
\* Typing, and the bounds every call respects: attempts per unit, steps, runs.
TypeOK ==
  /\ status \in [Units -> {"pending", "ready", "produced", "accepted", "failed", "reopened"}]
  /\ attempts \in [Units -> [Stages -> Nat]] /\ accepted \in [Units -> {"none", "valid"}]
  /\ working \in [Units -> Outputs] /\ failed \subseteq Units /\ round \subseteq Units
  /\ phase \in {"pending", "running", "retry_pending", "accepted", "convergence_failed", "refused"}
  /\ steps \in 0 .. MaxSteps /\ runs \in 0 .. MaxRuns
  /\ \A u \in Units : Total(u) <= AttemptLimit(u)

\* Nothing behind a unit whose work is still to be done counts as done: a
\* failure reopens its transitive dependents whatever they had reached
\* (fail_unit: "reopen only its transitive dependents").
Open == {"pending", "ready", "reopened", "failed"}
NothingDoneBehindOpen ==
  \A u \in Units : status[u] \in Open =>
    \A v \in Behind(deps, u) : status[v] \in {"pending", "reopened", "failed"}

\* failed_outputs names exactly the failed units, through failures, retries,
\* reopened dependents and later successes.
FailedOutputsMatch == failed = {u \in Units : status[u] = "failed"}

\* An accepted graph holds a valid output of every unit (finalize_graph, and
\* the export of constraints after whole-task acceptance).
AcceptedIsWhole == phase = "accepted" => \A u \in Units : status[u] = "accepted" /\ accepted[u] = "valid"

\* Together: what the graph records of attempts, failures and acceptance is so,
\* and within its limits.
RecordsSound == TypeOK /\ FailedOutputsMatch /\ AcceptedIsWhole

\* Only units with no unit of theirs ahead are applied in one round: applying
\* one of them leaves the others executable.
RoundIndependent == \A u, v \in round : v \notin Behind(deps, u) /\ (u # v => Owner[u] # Owner[v])

\* The cycle search of create_graph and the topological order agree with each
\* other and with the transitive dependents: a graph is refused exactly when
\* some unit is behind itself, and else the order puts every unit after the
\* units it depends on.
OrderSound ==
  LET order == TopologicalOrder(deps) IN
  /\ phase = "refused" <=> \E u \in Units : u \in Behind(deps, u)
  /\ phase = "refused" <=> Len(order) < Cardinality(Units)
  /\ \A i, j \in DOMAIN order : order[i] \in Behind(deps, order[j]) => j < i

\* Under a host that keeps advancing the graph with an outcome for each ready
\* unit, checks what was produced and retries what failed, every graph is
\* accepted or fails to converge: no outcome can keep it running for ever.
HostWorks ==
  \/ ApplyRound
  \/ Idle /\ AdvanceGraph(Units)
  \/ Idle /\ \E u \in Units : RetryUnit(u)
  \/ Idle /\ \E u \in Units, outcome \in Outcomes :
       status[u] = "produced" /\ RecordUnitAttempt(u, "check", outcome)
FairSpec == Spec /\ WF_vars(phase # "refused" /\ HostWorks /\ UNCHANGED deps)
Converges == <>(phase \in {"accepted", "convergence_failed", "refused"})
================================================================================
