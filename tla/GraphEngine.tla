----------------------------- MODULE GraphEngine -----------------------------
(***************************************************************************)
(* One GraphEngine process executing one graph in enforce mode against its *)
(* durable store.  The engine is synchronous; an operation is one action   *)
(* when it commits one transaction and a chain of actions, named by pc,    *)
(* when it commits several.  A crash can fall between any two of them: the *)
(* store keeps what is committed, the process loses its attempt claims and *)
(* the continuation of the operation.                                      *)
(*                                                                         *)
(* The host is the environment: it chooses which operation to call and     *)
(* with which outcome, performs external operations, and restarts the      *)
(* process.  It calls plan once per graph id (ir.make_graph: "graph_id     *)
(* identifies one execution").                                             *)
(***************************************************************************)
EXTENDS GraphState, FiniteSetsExt

CONSTANTS
  MaxParallelism,   \* config graph.max_parallelism
  MaxFailedGates,   \* retry_policy.max_failed_gates of each node, or NoLimit
  NodeBudget,       \* retry_policy limit of each node, or NoLimit
  GraphBudget,      \* budgets limit of the graph, or NoLimit
  NoLimit,
  Amount,           \* measured usage of one attempt
  Unknown,          \* usage that was not measured (null)
  Outcome,          \* gate results the host reports
  HostReason        \* reason codes the host reports failures with

ASSUME EngineConstants ==
  /\ MaxParallelism \in Nat \ {0}
  /\ MaxFailedGates \in [Node -> Nat \cup {NoLimit}]
  /\ NodeBudget \in [Node -> Nat \cup {NoLimit}]
  /\ GraphBudget \in Nat \cup {NoLimit}
  /\ Amount \subseteq Nat
  /\ Outcome \subseteq GateResult
  /\ Unknown \notin Nat /\ NoLimit \notin Nat

VARIABLES
  \* durable
  snap,       \* latest STATE_SNAPSHOT of the revision, or NoGraph
  ckpt,       \* graph of the latest checkpoint, or NoGraph
  intent,     \* the Intent Ledger row is written
  progress,   \* Progress Ledger: status rows << status, node, attempt, reason >>
  usage,      \* Progress Ledger: ATTEMPT_USAGE rows [node, attempt, amount]
  approvals,  \* Progress Ledger: HUMAN_APPROVAL rows [node, attempt, input, op]
  prepared,   \* keys whose receipt is PREPARED
  committed,  \* keys whose receipt is COMMITTED
  \* of the process
  claims,     \* attempts the execution boundary has claimed
  granted,    \* keys the host was answered PREPARED for and has not used yet
  pc,         \* << >>, or the rest of the operation under way
  \* of the world
  effects     \* keys whose external operation the host has performed

durable == << snap, ckpt, intent, progress, usage, approvals, prepared, committed >>
vars == << durable, claims, granted, pc, effects >>

Idle == << >>
Planned == pc = Idle /\ snap # NoGraph

(* The idempotency key of an external operation of the running attempt.     *)
Key(n, op) == [node |-> n, attempt |-> snap.attempt[n],
               input |-> snap.input[n], op |-> op]

-----------------------------------------------------------------------------
(* Ledger rows.  A row's id is made of its subject; a second row with the   *)
(* same id and another payload aborts the transaction.                      *)

StatusRow(status, n, attempt, reason) == << status, n, attempt, reason >>

UsageRow(n, attempt, amount) ==
  [node |-> n, attempt |-> attempt, amount |-> amount]

UsageFits(row) ==
  \A r \in usage : r.node = row.node /\ r.attempt = row.attempt => r = row

ApprovalFits(row) ==
  \A r \in approvals : r.node = row.node /\ r.attempt = row.attempt => r = row

FailedGates(n) ==
  Cardinality({r \in progress :
    r[2] = n /\ r[4] \in {"GATE_FAIL", "GATE_INCONCLUSIVE"}})

(* A sum over a value that was not measured is not known.                   *)
Known(rows) == \A r \in rows : r.amount # Unknown
Total(rows) == MapThenSumSet(LAMBDA r : r.amount, rows)

(* An unknown total counts as a violation.                                  *)
Over(rows, limit) == limit # NoLimit /\ (Known(rows) => Total(rows) > limit)

(* Before a start, a limit that is reached is as good as exceeded, and      *)
(* nothing measured yet is no violation.                                    *)
Reached(rows, limit) ==
  limit # NoLimit /\ rows # {} /\ (Known(rows) => Total(rows) >= limit)

UsageOf(rows, n) == {r \in rows : r.node = n}

MayStart(n) ==
  ~Reached(UsageOf(usage, n), NodeBudget[n]) /\ ~Reached(usage, GraphBudget)

(* Faulty variant of BudgetViolated: the graph's own limit is not checked.  *)
NodeBudgetViolated(n, rows) == Over(UsageOf(rows, n), NodeBudget[n])

BudgetViolated(n, rows) ==
  Over(UsageOf(rows, n), NodeBudget[n]) \/ Over(rows, GraphBudget)

BudgetReason(n, rows) ==
  IF Over(UsageOf(rows, n), NodeBudget[n]) THEN "NODE_BUDGET" ELSE "GRAPH_BUDGET"

(* Faulty variant of CommitGraph: the checkpoint is left to a later one.     *)
CommitSnapshotOnly(g) == snap' = g /\ UNCHANGED ckpt

(* commit_result: snapshot, checkpoint and ledger rows, or nothing.         *)
CommitGraph(g) == snap' = g /\ ckpt' = g

CommitFailure(g, n, reason) ==
  /\ CommitGraph(FailNode(g, n))
  /\ progress' = progress \cup {StatusRow("FAILED", n, g.attempt[n], reason)}

-----------------------------------------------------------------------------
Init ==
  /\ snap = NoGraph /\ ckpt = NoGraph /\ intent = FALSE
  /\ progress = {} /\ usage = {} /\ approvals = {}
  /\ prepared = {} /\ committed = {}
  /\ claims = {} /\ granted = {} /\ pc = Idle /\ effects = {}

(* The graph plan accepts: nothing executed yet.                            *)
FreshGraph ==
  [gstatus |-> "COMPILED",
   status |-> [n \in Node |-> "PENDING"],
   attempt |-> [n \in Node |-> 0],
   verdict |-> [n \in Node |-> "NONE"],
   out |-> [n \in Node |-> NoOutput],
   input |-> [n \in Node |-> NoOutput],
   constraints |-> {}]

(* Faulty variant of Plan: the intent row is written first.                 *)
PlanIntentFirst ==
  /\ pc = Idle /\ snap = NoGraph
  /\ ckpt' = MarkReady(FreshGraph, MaxParallelism)
  /\ intent' = TRUE
  /\ pc' = << "save_plan" >>
  /\ UNCHANGED << snap, progress, usage, approvals, prepared, committed,
                  claims, granted, effects >>

(* plan: the compile checkpoint, then the revision, then the intent row.    *)
Plan ==
  /\ pc = Idle /\ snap = NoGraph
  /\ ckpt' = MarkReady(FreshGraph, MaxParallelism)
  /\ pc' = << "save_plan" >>
  /\ UNCHANGED << snap, intent, progress, usage, approvals, prepared, committed,
                  claims, granted, effects >>

SavePlan ==
  /\ pc = << "save_plan" >>
  /\ snap' = ckpt
  /\ pc' = << "append_intent" >>
  /\ UNCHANGED << ckpt, intent, progress, usage, approvals, prepared, committed,
                  claims, granted, effects >>

(* Also the end of resume, whose last checkpoint repeats the one it made.   *)
AppendIntent ==
  /\ pc = << "append_intent" >>
  /\ intent' = TRUE
  /\ pc' = Idle
  /\ UNCHANGED << snap, ckpt, progress, usage, approvals, prepared, committed,
                  claims, granted, effects >>

(* start: the RUNNING snapshot and the claim, then the ledger row.  There   *)
(* is no checkpoint: after a crash the attempt has not happened.  Claims of *)
(* the node's earlier attempts are kept by the code and never looked up.    *)
Startable(n) ==
  /\ NodeType[n] # "HUMAN_APPROVAL"
  /\ snap.status[n] = "READY"
  /\ n \in ReadyNodes(snap, MaxParallelism)
  /\ MayStart(n)

Start(n) ==
  /\ Planned /\ Startable(n)
  /\ snap' = StartNode(snap, n)
  /\ claims' = {c \in claims : c.node # n}
                 \cup {[node |-> n, attempt |-> snap.attempt[n] + 1,
                        input |-> snap.input[n]]}
  /\ pc' = << "append_running", n >>
  /\ UNCHANGED << ckpt, intent, progress, usage, approvals, prepared, committed,
                  granted, effects >>

AppendRunning(n) ==
  /\ pc = << "append_running", n >>
  /\ progress' = progress \cup {StatusRow("RUNNING", n, snap.attempt[n], "NONE")}
  /\ pc' = Idle
  /\ UNCHANGED << snap, ckpt, intent, usage, approvals, prepared, committed,
                  claims, granted, effects >>

(* Faulty variant of ResultAccepted: the claimed input is not compared.      *)
ResultAcceptedAnyInput(n, row) ==
  /\ Planned
  /\ NodeType[n] # "HUMAN_APPROVAL"
  /\ snap.status[n] = "RUNNING"
  /\ \E c \in claims : c.node = n /\ c.attempt = snap.attempt[n]
  /\ UsageFits(row)
  /\ usage' = usage \cup {row}
  /\ UNCHANGED << intent, approvals, prepared, committed, claims, granted, effects >>

(* record_result needs the claim of the running attempt, over its input.    *)
ResultAccepted(n, row) ==
  /\ Planned
  /\ NodeType[n] # "HUMAN_APPROVAL"
  /\ snap.status[n] = "RUNNING"
  /\ [node |-> n, attempt |-> snap.attempt[n], input |-> snap.input[n]] \in claims
  /\ UsageFits(row)
  /\ usage' = usage \cup {row}
  /\ UNCHANGED << intent, approvals, prepared, committed, claims, granted, effects >>

RecordOverBudget(n, amount) ==
  LET row == UsageRow(n, snap.attempt[n], amount) IN
  /\ ResultAccepted(n, row)
  /\ BudgetViolated(n, usage \cup {row})
  /\ CommitFailure(snap, n, BudgetReason(n, usage \cup {row}))
  /\ UNCHANGED pc

(* The gate_resolution transaction; a send_back is a second one.            *)
RecordGateResult(n, output, verdict, amount) ==
  LET row == UsageRow(n, snap.attempt[n], amount) IN
  /\ NodeType[n] = "GATE"
  /\ ResultAccepted(n, row)
  /\ ~BudgetViolated(n, usage \cup {row})
  /\ CommitGraph(ResolveGate(snap, n, output, verdict))
  /\ pc' = IF verdict # "PASS" /\ SendBackTargets(n) # {}
             THEN << "send_back", n >> ELSE Idle
  /\ UNCHANGED progress

RecordRejected(n, verdict, amount) ==
  LET row == UsageRow(n, snap.attempt[n], amount) IN
  /\ NodeType[n] # "GATE" /\ verdict # "PASS"
  /\ ResultAccepted(n, row)
  /\ ~BudgetViolated(n, usage \cup {row})
  /\ CommitFailure(snap, n, IF verdict = "FAIL" THEN "GATE_FAIL" ELSE "GATE_INCONCLUSIVE")
  /\ UNCHANGED pc

(* Faulty variant of RecordAccepted: the accepted state is not checkpointed. *)
RecordAcceptedInSnapshot(n, output, amount) ==
  LET row == UsageRow(n, snap.attempt[n], amount) IN
  /\ NodeType[n] # "GATE"
  /\ ResultAccepted(n, row)
  /\ ~BudgetViolated(n, usage \cup {row})
  /\ snap' = AcceptNode(snap, n, output, "NONE")
  /\ UNCHANGED << ckpt, progress, pc >>

RecordAccepted(n, output, amount) ==
  LET row == UsageRow(n, snap.attempt[n], amount) IN
  /\ NodeType[n] # "GATE"
  /\ ResultAccepted(n, row)
  /\ ~BudgetViolated(n, usage \cup {row})
  /\ CommitGraph(AcceptNode(snap, n, output, "NONE"))
  /\ UNCHANGED << progress, pc >>

RecordResult(n) ==
  \E amount \in Amount \cup {Unknown} :
    \/ RecordOverBudget(n, amount)
    \/ \E output \in Output, verdict \in Outcome :
         RecordGateResult(n, output, verdict, amount)
    \/ \E verdict \in Outcome : RecordRejected(n, verdict, amount)
    \/ \E output \in Output : RecordAccepted(n, output, amount)
-----------------------------------------------------------------------------
(* The second transaction of a failed gate with a send_back.                *)
SendBackDone(n) ==
  /\ pc = << "send_back", n >> /\ pc' = Idle
  /\ UNCHANGED << intent, usage, approvals, prepared, committed, claims, granted, effects >>

SendBackApplied(n) ==
  /\ SendBackDone(n)
  /\ ~SendBackExhausted(snap, n) /\ SendBackRetryable(snap, n)
  /\ CommitGraph(ApplySendBack(snap, n))
  /\ UNCHANGED progress

SendBackConverged(n) ==
  /\ SendBackDone(n)
  /\ SendBackExhausted(snap, n)
  /\ CommitGraph([snap EXCEPT !.gstatus = "FAILED"])
  /\ progress' = progress \cup
       {StatusRow("FAILED", n, snap.attempt[n], "NODE_CONVERGENCE_FAILED")}

(* Faulty variant of SendBackRefused: the targets before the one that       *)
(* cannot be failed have been failed in place.                              *)
SendBackPartial(n) ==
  LET failable == {t \in SendBackTargets(n) : snap.status[t] \in Failable} IN
  /\ SendBackDone(n)
  /\ ~SendBackExhausted(snap, n) /\ ~SendBackRetryable(snap, n)
  /\ CommitGraph(FailAll(snap, failable))
  /\ UNCHANGED progress

(* The error leaves the gate resolved and its send_back pending.            *)
SendBackRefused(n) ==
  /\ SendBackDone(n)
  /\ ~SendBackExhausted(snap, n) /\ ~SendBackRetryable(snap, n)
  /\ UNCHANGED << snap, ckpt, progress >>

(* approve_human: a checkpoint before, then start and acceptance of the     *)
(* node with all their rows in one transaction.                             *)
BeginApproval(n) ==
  /\ Planned
  /\ NodeType[n] = "HUMAN_APPROVAL" /\ ApproveOps[n] # {}
  /\ snap.status[n] = "READY" /\ n \in ReadyNodes(snap, MaxParallelism)
  /\ ckpt' = snap
  /\ pc' = << "approve", n >>
  /\ UNCHANGED << snap, intent, progress, usage, approvals, prepared, committed,
                  claims, granted, effects >>

CommitApproval(n, op, output, amount) ==
  LET g == StartNode(snap, n)
      k == g.attempt[n]
      row == UsageRow(n, k, amount)
      approval == [node |-> n, attempt |-> k, input |-> g.input[n], op |-> op]
      over == BudgetViolated(n, usage \cup {row})
  IN
  /\ pc = << "approve", n >> /\ pc' = Idle
  /\ op \in ApproveOps[n]
  /\ UsageFits(row) /\ usage' = usage \cup {row}
  /\ ApprovalFits(approval) /\ approvals' = approvals \cup {approval}
  /\ CommitGraph(IF over THEN FailNode(g, n) ELSE AcceptNode(g, n, output, "NONE"))
  /\ progress' = progress \cup {StatusRow("RUNNING", n, k, "NONE")} \cup
       (IF over THEN {StatusRow("FAILED", n, k, BudgetReason(n, usage \cup {row}))} ELSE {})
  /\ UNCHANGED << intent, prepared, committed, claims, granted, effects >>

(* record_failure: also of a node that is READY again or already accepted.  *)
(* Usage can be reported for a running attempt only.                        *)
RecordFailure(n, reason) ==
  /\ Planned
  /\ snap.status[n] \in Failable /\ snap.attempt[n] > 0
  /\ CommitFailure(snap, n, reason)
  /\ UNCHANGED << intent, usage, approvals, prepared, committed, claims,
                  granted, pc, effects >>

RecordMeasuredFailure(n, reason, amount) ==
  LET row == UsageRow(n, snap.attempt[n], amount)
      rows == usage \cup {row}
  IN
  /\ Planned
  /\ snap.status[n] = "RUNNING"
  /\ UsageFits(row) /\ usage' = rows
  /\ CommitFailure(snap, n, IF BudgetViolated(n, rows) THEN BudgetReason(n, rows)
                            ELSE reason)
  /\ UNCHANGED << intent, approvals, prepared, committed, claims, granted, pc, effects >>

(* retry saves a snapshot only.                                             *)
Retryable(n) ==
  /\ snap.status[n] = "FAILED"
  /\ snap.attempt[n] < MaxAttempts[n]
  /\ MaxFailedGates[n] # NoLimit => FailedGates(n) <= MaxFailedGates[n]

Retry(n) ==
  /\ Planned /\ Retryable(n)
  /\ snap' = RetryNode(snap, n)
  /\ UNCHANGED << ckpt, intent, progress, usage, approvals, prepared, committed,
                  claims, granted, pc, effects >>

Cancel ==
  /\ Planned
  /\ snap.gstatus \notin {"ACCEPTED", "CANCELLED"}
  /\ CommitGraph(CancelGraph(snap))
  /\ UNCHANGED << intent, progress, usage, approvals, prepared, committed,
                  claims, granted, pc, effects >>
-----------------------------------------------------------------------------
(* Faulty variant of Authorised: the node need not run.                     *)
AuthorisedAnytime(n, op) ==
  /\ Planned
  /\ op \in ExternalOps[n]
  /\ \E a \in approvals : a.op = op

(* External mutations of a running node whose operation a human approved.   *)
Authorised(n, op) ==
  /\ Planned
  /\ snap.status[n] = "RUNNING"
  /\ op \in ExternalOps[n]
  /\ \E a \in approvals : a.op = op

(* Faulty variant of Prepare: an existing receipt is prepared again.        *)
PrepareAgain(n, op) ==
  /\ Authorised(n, op)
  /\ prepared' = prepared \cup {Key(n, op)}
  /\ committed' = committed \ {Key(n, op)}
  /\ granted' = granted \cup {Key(n, op)}
  /\ UNCHANGED << snap, ckpt, intent, progress, usage, approvals, claims, pc, effects >>

(* prepare_external_mutation.  For a key already COMMITTED it answers with  *)
(* the recorded result, for one already PREPARED it refuses: no change.     *)
Prepare(n, op) ==
  /\ Authorised(n, op)
  /\ Key(n, op) \notin prepared \cup committed
  /\ prepared' = prepared \cup {Key(n, op)}
  /\ granted' = granted \cup {Key(n, op)}
  /\ UNCHANGED << snap, ckpt, intent, progress, usage, approvals, committed,
                  claims, pc, effects >>

(* The host performs the operation, once for each PREPARED answer.          *)
HostEffect(key) ==
  /\ key \in granted
  /\ effects' = effects \cup {key}
  /\ granted' = granted \ {key}
  /\ UNCHANGED << durable, claims, pc >>

(* Faulty variant of CommitReceipt: the receipt is removed, not committed.  *)
CommitReceiptRemoved(n, op) ==
  /\ Authorised(n, op)
  /\ Key(n, op) \in effects
  /\ Key(n, op) \in prepared \cup committed
  /\ prepared' = prepared \ {Key(n, op)}
  /\ pc' = << "external_checkpoint" >>
  /\ UNCHANGED << snap, ckpt, intent, progress, usage, approvals, committed, claims,
                  granted, effects >>

(* commit_external_mutation: the receipt, then a checkpoint.  The host      *)
(* reports only an operation it has performed.                              *)
CommitReceipt(n, op) ==
  /\ Authorised(n, op)
  /\ Key(n, op) \in effects
  /\ Key(n, op) \in prepared \cup committed
  /\ prepared' = prepared \ {Key(n, op)}
  /\ committed' = committed \cup {Key(n, op)}
  /\ pc' = << "external_checkpoint" >>
  /\ UNCHANGED << snap, ckpt, intent, progress, usage, approvals, claims,
                  granted, effects >>

CheckpointReceipt ==
  /\ pc = << "external_checkpoint" >>
  /\ ckpt' = snap
  /\ pc' = Idle
  /\ UNCHANGED << snap, intent, progress, usage, approvals, prepared, committed,
                  claims, granted, effects >>
-----------------------------------------------------------------------------
(* The process stops; the host keeps what it has done, not what it was told. *)
Crash ==
  /\ pc # Idle \/ claims # {} \/ granted # {}
  /\ claims' = {} /\ granted' = {} /\ pc' = Idle
  /\ UNCHANGED << durable, effects >>

(* Faulty variant of Resumable: an uncertain receipt does not stop it.      *)
ResumableUncertain == pc = Idle /\ ckpt # NoGraph

(* resume: refused while a receipt is uncertain.  The checkpoint is the     *)
(* state; send_backs it still owes are applied before it is materialised.   *)
Resumable == pc = Idle /\ ckpt # NoGraph /\ prepared = {}

Resume ==
  /\ Resumable
  /\ StuckSources(ckpt) = {}
  /\ CommitGraph(RecoverSendBacks(ckpt))
  /\ pc' = << "append_intent" >>
  /\ UNCHANGED << intent, progress, usage, approvals, prepared, committed,
                  claims, granted, effects >>

ResumeConverged ==
  /\ Resumable
  /\ StuckSources(ckpt) # {}
  /\ SendBackExhausted(ckpt, FirstStuck(ckpt))
  /\ CommitGraph([ckpt EXCEPT !.gstatus = "FAILED"])
  /\ UNCHANGED << intent, progress, usage, approvals, prepared, committed,
                  claims, granted, pc, effects >>
-----------------------------------------------------------------------------
NodeStep(n) ==
  \/ Start(n) \/ AppendRunning(n)
  \/ RecordResult(n)
  \/ SendBackApplied(n) \/ SendBackConverged(n) \/ SendBackRefused(n)
  \/ BeginApproval(n)
  \/ \E op \in Op, output \in Output, amount \in Amount \cup {Unknown} :
       CommitApproval(n, op, output, amount)
  \/ \E reason \in HostReason : RecordFailure(n, reason)
  \/ \E reason \in HostReason, amount \in Amount \cup {Unknown} :
       RecordMeasuredFailure(n, reason, amount)
  \/ Retry(n)
  \/ \E op \in Op : Prepare(n, op) \/ CommitReceipt(n, op)

Next ==
  \/ Plan \/ SavePlan \/ AppendIntent
  \/ \E n \in Node : NodeStep(n)
  \/ Cancel
  \/ \E key \in granted : HostEffect(key)
  \/ CheckpointReceipt
  \/ Crash \/ Resume \/ ResumeConverged

Spec == Init /\ [][Next]_vars
-----------------------------------------------------------------------------
(* Properties.                                                              *)

Graphs == {snap, ckpt} \ {NoGraph}

(* The type invariant. *)
TypeOK ==
  /\ \A g \in Graphs : GraphOK(g)
  /\ intent \in BOOLEAN
  /\ \A r \in usage : r.node \in Node /\ r.attempt \in Nat
  /\ \A a \in approvals : a.node \in Node /\ a.attempt \in Nat /\ a.op \in Op
  /\ prepared \cap committed = {}
  /\ ckpt = NoGraph => snap = NoGraph

(* No node of the branch a gate did not select runs or stays accepted: a    *)
(* node that does stands on edges its gates still select and on results     *)
(* that still stand, through failures, send_backs, retries, cancellation,   *)
(* crashes and resumes.                                                     *)
BranchesRespected == \A g \in Graphs : EdgesHold(g)

(* Concurrent attempts stay within the configured parallelism, never share  *)
(* a write scope, and at most one of them may touch the outside world.      *)
RunningExclusive == \A g \in Graphs : Exclusive(g, MaxParallelism)

(* An accepted graph is complete: its global gate passed and nothing is     *)
(* left open, also after a later failure, retry or crash.                   *)
AcceptedGraphSound == \A g \in Graphs : AcceptedSound(g)

(* What a crash can take back is a started attempt or a retry, never a      *)
(* result: snapshot and checkpoint agree on everything else.                *)
Lag(c, s, n) ==
  \/ s.status[n] = c.status[n] /\ s.attempt[n] = c.attempt[n]
  \/ c.status[n] = "FAILED" /\ s.status[n] = "READY" /\ s.attempt[n] = c.attempt[n]
  \/ /\ c.status[n] \in {"READY", "FAILED"} /\ s.status[n] = "RUNNING"
     /\ s.attempt[n] = c.attempt[n] + 1

CheckpointLag ==
  snap # NoGraph =>
    /\ ckpt # NoGraph
    /\ \A n \in Node : Lag(ckpt, snap, n)
    /\ snap.out = ckpt.out /\ snap.verdict = ckpt.verdict
    /\ snap.input = ckpt.input /\ snap.constraints = ckpt.constraints

(* Ledger rows of an attempt never outlive its snapshot: no state the       *)
(* engine can return to would measure or approve the same attempt again     *)
(* and collide with the immutable row (store.commit_result).                *)
Recorded(g, n, k) == k <= g.attempt[n] /\ (k = g.attempt[n] => g.status[n] # "RUNNING")

NoResultCollision ==
  \A r \in usage \cup approvals : \A g \in Graphs : Recorded(g, r.node, r.attempt)

(* Ledger rows are appended only to a revision that has a row; one without  *)
(* makes verify_integrity refuse the whole store.                           *)
LedgerHasRevision ==
  intent \/ progress # {} \/ usage # {} \/ approvals # {} => snap # NoGraph

(* A running attempt was claimed for the inputs it would be computed from   *)
(* now, and so was the claim its result is verified against.  A graph with  *)
(* a MERGE may break it: mark_ready (state.py:76) takes the inputs before   *)
(* it clears what it skips, so a MERGE can start on a result just cleared.  *)
RunningInputFresh ==
  snap # NoGraph => \A n \in Running(snap) : snap.input[n] = InputOf(snap, n)

(* The host never holds a fresh permission for an operation it has already  *)
(* performed, whatever crashes and rollbacks lie between.                   *)
ExternalOncePerKey == granted \cap effects = {}

(* No external operation without a receipt that says so.                    *)
EffectsReceipted == effects \cup granted \subseteq prepared \cup committed

(* An uncertain attempt is not rolled back under its receipt.               *)
PreparedNotRolledBack ==
  \A key \in prepared : snap # NoGraph /\ key.attempt <= snap.attempt[key.node]

(* Together: an external operation happens once under its key, by a receipt *)
(* that neither a crash nor a rollback takes away.                          *)
ExternalSound == ExternalOncePerKey /\ EffectsReceipted /\ PreparedNotRolledBack

(* Whenever the host is granted an operation, a node that may approve it is *)
(* accepted, by the approval of its present attempt and input.              *)
Approves(op, n) == op \in ApproveOps[n] /\ snap.status[n] \in Done

ApproverCurrent ==
  [][\A key \in granted' \ granted : \E a \in approvals :
       /\ Approves(key.op, a.node)
       /\ a.attempt = snap.attempt[a.node] /\ a.input = snap.input[a.node]]_vars

(* A graph is not accepted over its budget, and no result stands of a node  *)
(* over its own: not by work that ran in parallel with what used it up, nor *)
(* by attempts that were measured, failed and replaced before a crash.      *)
AcceptedWithinBudget ==
  snap # NoGraph =>
    /\ snap.gstatus = "ACCEPTED" => ~Over(usage, GraphBudget)
    /\ \A n \in Node : snap.status[n] \in Done => ~Over(UsageOf(usage, n), NodeBudget[n])

(* A send_back fails all of its targets or leaves the graph as it is: one   *)
(* that meets a target it may not fail has no partial effect.               *)
SendBackAllOrNothing ==
  [][\A n \in Node : pc = << "send_back", n >> /\ pc' = Idle =>
       \/ \A t \in SendBackTargets(n) : snap'.status[t] = "FAILED"
       \/ snap'.status = snap.status]_vars

(* resume leaves no send_back owed, unless it declares the graph failed.    *)
ResumeCompletesSendBack ==
  [][Resume \/ ResumeConverged =>
       \/ \A n \in Node : ~PendingSendBack(snap', n)
       \/ snap'.gstatus = "FAILED"]_vars

(* A graph that can still be completed can move: a node runs, can be        *)
(* started, or can be retried.  One thing wedges it: an external node that  *)
(* waits for the external lock, while the attempt that held it failed and   *)
(* is retried.  If it precedes the retried node, the scheduler offers it,   *)
(* but retry has not made it READY, and start refuses both.                 *)
Completable ==
  /\ snap.status[GlobalGate] \notin Success
  /\ \A n \in Node :
       \/ snap.status[n] \in Success \cup {"RUNNING"}
       \/ snap.status[n] # "CANCELLED" /\ snap.attempt[n] < MaxAttempts[n]

CanMove ==
  \E n \in Node :
    \/ snap.status[n] = "RUNNING"
    \/ Retryable(n)
    \/ snap.status[n] = "READY" /\ n \in ReadyNodes(snap, MaxParallelism)

LockedOut ==
  \E n \in ReadyNodes(snap, MaxParallelism) : External(n) /\ snap.status[n] # "READY"

NoWedge == Planned /\ Completable /\ ~LockedOut => CanMove
-----------------------------------------------------------------------------
(* What the repository says of the program and the program does not do.     *)

(* "Make resolved-but-unselected gate paths terminal without executing      *)
(* them" (state.py:51): no node that an accepted gate did not select is     *)
(* left waiting, nor its MERGE waiting for it.                              *)
UnselectedTerminal ==
  Planned => \A e \in Edge :
    EdgeInactive(snap, e) /\ snap.status[e.from] \in Done =>
      snap.status[e.to] \notin Waiting

(* A skipped node of an accepted graph lies on a branch that is not         *)
(* selected, or depends on one: no acceptance criterion is dropped by a     *)
(* skip (ROUTECRAFT-0.7-ARCHITECTURE.ja.md:189).                            *)
SkipJustified ==
  snap.gstatus = "ACCEPTED" =>
    \A n \in Node : snap.status[n] = "SKIPPED" =>
      \/ n \in InactiveTargets(snap)
      \/ \E p \in Deps[n] : snap.status[p] = "SKIPPED"

(* "v1 permits multiple bounded correction targets; their effects compose   *)
(* as a union of downstream closures" (state.py:186): a send_back within    *)
(* its bound can be applied.                                                *)
SendBackComposes ==
  \A n \in Node : pc = << "send_back", n >> =>
    SendBackExhausted(snap, n) \/ SendBackRetryable(snap, n)

(* "only through an explicit, input-bound transition" (engine.py:381): an   *)
(* operation is granted by the approval of that operation for the input its *)
(* approval node has now, not by one that a later approval superseded.      *)
ApprovalCurrent ==
  [][\A key \in granted' \ granted : \E a \in approvals :
       /\ a.op = key.op /\ Approves(key.op, a.node)
       /\ a.input = snap.input[a.node]]_vars
=============================================================================
