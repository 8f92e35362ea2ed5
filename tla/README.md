# A verification project for Codex RouteCraft

Codex RouteCraft is a Codex plugin: a set of local Python programs that plan
the work of coding agents, execute the plan as a durable graph of nodes, keep a
store of reviewed decisions, measure what happened and install all of it on a
user's devices.  This directory holds TLA+ models of it, TLC configurations that
check them on small instances, and TLAPS proofs of theorems about them for every
instance.  Paths without a prefix are relative to
`src/plugins/codex-routecraft/scripts/`.

The core of the system is the **graph kernel** (`routecraft_graph/`): it promises
that a graph of nodes is executed in the order of its dependencies, along the
branches its gates select, within its budgets and locks, that external
operations happen at most once per approval, and that all of this survives
crashes.  It is modelled first and in full depth.  Around it are modelled the parts
that keep state on the device or share it: the older execution graph, the
evaluation log with its hooks, the Decision Store and Memory Local, the collector,
the installer, the benchmark and the validation of the security rules.

## 1. Inventory

### 1.1 Graph kernel (`routecraft_graph/`)

| Part | State it keeps | Operations | Modelled |
|---|---|---|---|
| Compiler and IR (`compiler.py`, `ir.py`, `contracts.py`, `canonical.py`) | none | `compile_graph`, `make_graph`, validators | its rules are the assumptions of `GraphTopology` |
| Scheduler (`scheduler.py`) | none | `ready_nodes`, edge conditions, critical path, downstream closure | `GraphTopology`, `GraphState` |
| Graph state (`state.py`) | one graph: status, and per node status, attempt, verdict, output, input hash | `mark_ready`, `start_node`, `accept_node`, `resolve_gate_result`, `fail_node`, `apply_send_back`, `retry_node`, `add_constraint`, `replan` | `GraphState`; `replan` in `GraphStore` |
| Engine (`engine.py`) | attempt claims in memory | `plan`, `start`, `record_result`, `approve_human`, `record_failure`, `retry`, `cancel`, `resume`, `prepare_`/`commit_external_mutation`, `add_verified_constraint`, `replan` | `GraphEngine`, `GraphFeedback`; several engines and `replan` in `GraphStore` |
| Store (`store.py`) | SQLite: revisions, snapshots, checkpoints, ledgers, receipts, policies | one transaction per `save_revision`, `checkpoint`, `commit_result`, `append_ledger`, receipt operation | the transactions of `GraphEngine` for one process, `GraphStore` for several |
| Execution boundary (`execution_boundary.py`) | bindings | resolve an executor, begin an attempt, verify a result | claims in `GraphEngine` |
| Policy (`policy.py`) | policy candidates in the store | DRAFT, SHADOW, CANDIDATE, APPROVED transitions | `GraphStore` |
| Telemetry (`telemetry.py`), migration | none of its own: derived from checkpoints | the history of gates and send_backs, projection of a graph to rows | `GraphTelemetry`; the migration of an old plan is not |

How they interact.  The engine loads a graph (`GraphStore.load_revision`), applies
a pure transition of `state.py`, which calls the scheduler, and commits the result
in one or more transactions.  Nothing is shared in memory but the claims; all
coordination goes through the store.  The host (Codex) is outside: it calls the
operations, executes nodes, performs external operations, and restarts the
process.

What is hard about it:

* operations that commit **several transactions** (`plan` three, a failed gate with
  a send_back two, `approve_human` two, `start` two, `commit_external_mutation`
  two, `resume` two) and the crash between any two of them;
* the **snapshot runs ahead of the checkpoint**: `start` and `retry` save no
  checkpoint, so a resume takes them back and reuses attempt numbers, against
  ledgers that are immutable and receipts that are not taken back;
* **accepted work is reopened**: a failure invalidates everything downstream, a
  gate may be evaluated again and select another branch, a send_back fails
  several nodes at once, a MERGE joins branches some of which are skipped;
* the **ready set** depends on slots, write scopes, one lock for external
  operations, edge conditions and attempt limits, and is recomputed by `start`
  with other data than it was published with;
* **external operations** cannot be undone and their outcome may be unknown.

What makes it correct: nodes run only on edges that hold; exclusive resources stay
exclusive; an accepted graph is complete and within its budget; a crash loses no
result; ledger rows are unique per attempt; an operation is granted only under a
current approval and once; send_backs are atomic; nothing wedges.

### 1.2 The other components

| Component | State | Operations that matter | Hard behaviour | Modelled |
|---|---|---|---|---|
| Execution graph of 0.6 (`routecraft_execution_graph.py`) | one JSON document of units | `create_graph`, `advance_graph`, `complete_unit`, `fail_unit`, `retry_unit`, `record_unit_attempt`, `finalize_graph` | failures that reopen all that rests on a unit, four limits at once, a cycle search | `UnitTopology`, `UnitGraph` |
| Evaluation (`routecraft_evaluation.py`) | task log, configuration with a counter, session files, lock file | `configure`, `start`, `recall`, `finish`, `summarize` | a lock file of a dead process that two commands remove, a crash between session file and event, concurrent commands; a score made of thin evidence | `EvaluationLog`, `EvaluationSummary` |
| Source guard (`routecraft_source_guard.py`) | per-session baselines | SessionStart and Stop hooks | a Stop that is blocked and comes back, hooks that crash or fail, git that runs between them | `SessionHooks` |
| Loop bridge (`routecraft_local/loop_bridge.py`) | a session file, its configuration | `session_start`, `session_stop`, `configure` | the summary is saved before the session file is removed; a configuration that changes between two hooks | `SessionHooks`, partly: hooks without a session id, which leave nothing, the context text and the settings that shape it are left out |
| Decision Store (`routecraft_memory_lib/`) | records in a git worktree, a lock file | learn, reinforce, promote, `sync_store` | rollback of a mutation of several files that may fail itself, a lock file taken for a dead process's, pull and push against other devices, kills | `MemoryStore`, `SharedStore` |
| Memory Local (`routecraft_local/`) | SQLite, backups | imports, deletion, packages, backup, restore | a restore that fails or dies between its moves, imports at once | `LocalMemory` |
| Praxis Memory (`praxis_memory/store.py`) | SQLite records | migration of both stores | a migration that meets a restore | `LocalMemory` |
| Device and fleet installer (`routecraft_device.py`) | transaction manifests, owned files, plugin and marketplace registration, plugin cache, fleet section | install, bootstrap, rollback | any of a dozen writes raises or is the last one; a rollback long after its transaction | `InstallTransaction` |
| Collector, telemetry, control center (`routecraft_collector.py`, `routecraft_telemetry.py`, `routecraft_control_center.py`), graph command line (`routecraft_graph_cli.py`) | cache of graph exports, cycles, a server | export, collect, deliver | sources that change while they are read, payloads that are replaced, batches that fail half way | `Collector` |
| Real benchmark (`routecraft_real_benchmark.py`) | broker homes, results | `run`, `summarize` | threads, timeouts, processes that outlive them, credentials that cannot be removed, ceilings | `BenchmarkRun` |
| Security validation (`routecraft_security_validation.py`) | a row | validate, scan, report | fixtures without a partner, a scanner that raises | `SecurityValidation` |
| Benchmark lab, hardener, optimiser, endpoint migration | none | batch runs over files | I/O | no |
| Praxis Dashboard (`praxis_dashboard/`) | none (projection) | `project`, `query`, HTTP server | none | no |
| Routing core, protocols (`routecraft_core/`, `routecraft_protocols/`) | none | pure classification and validation | case analysis | no |
| Release scripts (`src/scripts/`) | archives | build, verify | I/O | no |

Components interact through files: the hooks of the source guard and the loop
bridge read what the evaluation writes, and `SessionHooks` composes the three; the
collector reads the cache of the graph command line, session files and stores, and
`Collector` holds writers and reader; Memory Local and its migration read the
Decision Store, whose records are the sources of `LocalMemory`; the installer shares
the fleet section of the Decision Store.

## 2. The modules

```
GraphTopology          the static graph; what compile_graph guarantees
  GraphState           the pure transitions and the scheduler
    GraphEngine        one engine process, its store, the host, crashes
      GraphFeedback    with verified constraints
        GraphEngineProofs  transitions, engine, recovery, budgets, constraints
      GraphTelemetry   the history its checkpoints tell
GraphStore             the store below several engines: revisions, replan, policies
  StoreProofs
UnitTopology           dependency graphs of 0.6: cycles, order, dependents
  UnitGraph            the life of its units
    UnitGraphProofs    limits, reopening, acceptance, the search and the order
EvaluationLog          lock, experiment, tasks
  SessionHooks         with SessionStart, Stop and the loop bridge
EvaluationSummary      what summarize makes of the log
  SessionProofs        (both)
SharedStore            what the Decision Stores of all devices promise together
  MemoryStore          how each keeps it; implements SharedStore
    MemoryProofs
LocalMemory            Memory Local and the migration to Praxis Memory
Collector              export, collection, delivery
  LocalProofs          (both)
InstallTransaction     install, bootstrap, rollback
BenchmarkRun           the real benchmark
SecurityValidation     fixtures, gate, row
  DeviceProofs         (the three)
SumTheorems            induction over naturals and finite sets, sums
MC*                    instances for TLC
```

Instances: `MCLoop` checks `GraphEngine` with `GraphTelemetry`, and `GraphStore`; `MCReturn`, `MCBranch`,
`MCParallel`, `MCExternal`, `MCFeedback` the engine on other graphs; `MCUnit`,
`MCSession`, `MCMemory`, `MCLocal`, `MCDevice` the rest.  An instance of several
modules has a variable `scope` that picks one of them (or one question about it)
in the initial state and holds the others still.

**GraphTopology** declares one revision's nodes, contracts, typed edges,
send_backs and scheduling order as constants.  Its assumptions are the checks of
`compile_graph` (`compiler.py:93-230`): acyclic, one global gate that everything
leads to, send_backs from gates to ancestors within both nodes' attempt limits,
write scopes of unordered nodes disjoint, external operations behind an approval.
A graph's static part never changes within a revision
(`store._save_revision_in`), which is why they are constants.

**GraphState** has one operator per function of `state.py`, over a record with one
function per mutable node field.  Loops over nodes are stated in closed form: the
fixpoint of `_skip_unselected_branches` and the greedy selection of `ready_nodes`
are recursive functions over the acyclic edges and the scheduling order;
`fail_node` applied to several nodes in turn is `FailAll`; `_pending_send_back_sources`
with the recovery loop is `PendingSources`.  Hashes are abstracted to what they are
computed from: an output is a model value, an input is the record of upstream
outputs, verdicts and constraints.  Evidence, timestamps and schemas are left out.

**GraphEngine** has one action per transaction.  The correspondence:

| Action | Code | Transaction |
|---|---|---|
| `Plan`, `SavePlan`, `AppendIntent` | `engine.plan` | checkpoint, revision, intent row |
| `Start`, `AppendRunning` | `engine.start` | RUNNING snapshot and claim, then the ledger row |
| `RecordOverBudget`, `RecordGateResult`, `RecordRejected`, `RecordAccepted` | `engine.record_result` | `commit_result` on its four paths |
| `SendBackApplied`, `SendBackConverged`, `SendBackRefused` | the send_back of `record_result` | its second `commit_result`, or its error |
| `BeginApproval`, `CommitApproval` | `engine.approve_human` | checkpoint, then everything else |
| `RecordFailure`, `RecordMeasuredFailure` | `engine.record_failure` | `commit_result` |
| `Retry`, `Cancel` | `engine.retry`, `engine.cancel` | snapshot; snapshot and checkpoint |
| `Prepare`, `CommitReceipt`, `CheckpointReceipt` | `engine.prepare_`, `commit_external_mutation` | receipt; receipt, checkpoint |
| `Resume`, `AppendIntent`, `ResumeConverged` | `engine.resume` | recovered graph, then the intent row |
| `HostEffect`, `Crash` | external | the host performs an operation; the process stops |

`pc` holds the rest of an operation that commits several transactions.  `snap`
and `ckpt` are the latest snapshot and checkpoint; `progress`, `usage` and
`approvals` are the rows of the Progress Ledger, whose identifiers are made of
their subject, so a second row with the same subject and another payload aborts
the transaction (`UsageFits`, `ApprovalFits`).  `claims` is the only state that a
crash destroys on the engine's side, `granted` on the host's: the answers it has
been given and not acted on.  Operations that only raise an error are not steps.

**GraphFeedback** adds `AddVerifiedConstraint` (`engine.add_verified_constraint`, one
transaction of `store.commit_constraint`) to the engine's steps.  It is a module of
its own because constraints break an invariant of the engine: they take back
accepted work without stopping what runs on it, so `BranchesRespected` does not
hold under them and is replaced by `ResultStands`.  A constraint cites evidence an
earlier result left in the ledger; evidence is not modelled, so the guard asks for
any such result.

**GraphTelemetry** adds to the engine's steps the checkpoint rows of two boundaries,
from which the store derives the events of gates and send_backs and the projection
the rows of the collector; nothing else remembers what a gate said once a send_back
has taken its verdict away.  `Told` is the loop of `transition_events` with all it
remembers from row to row.  `HistoryTold` has three parts: nothing makes the projection
raise (`HistoryExports`), verdicts are told once and the present ones last
(`VerdictsTold`), and a send_back is put down to a gate (`SendBacksTold`).  The third
does not hold of every graph.  With two gates that send back, one may fail and the
process stop before its send_back; when the host goes on without a resume and the other
gate fails and sends back, the checkpoint of that send_back makes the history forget
the first gate (store.py:800-801), and the resume that recovers the first send_back
later tells it with no gate and every node.  And a MERGE may have been accepted over a
branch that was skipped and then fails, so that a send_back affects fewer nodes than it
has targets.  Nothing in the repository promises otherwise, so this is no finding.

**GraphStore** looks at the same code from below, where `GraphEngine` assumes one
process and one revision.  A method is `Call`: it reads the store and lists the
transactions it will run; `Transact` runs the next one, and between two of them
anything of another engine, or `Stop`, may fall.  Each transaction verifies the
whole store first (`IntegrityHolds`, one part per loop of
`store.verify_integrity`) and is refused, ending the call, when that fails, when a
row of its identifier is there with another payload (`Fitting`), when its contract
differs from the one stored (`Saveable`) or when its key is held (`ReceiptAllowed`).
The tasks are the nodes of a graph that may run; what their results are is left to
`GraphEngine`; here a result is accepted or failed (a gate's verdict, a budget) in one
transaction with its rows, and a failure keeps the evidence of its task and freezes what
was accepted.  Policies share the store and its verification.

**UnitGraph** has one action per function of `routecraft_execution_graph.py` that
returns a changed state; `round` is the part of `advance_graph`'s selection still to
be applied.  `UnitTopology` has the depth-first search of `find_cycles` and the ordering
as recursive functions over their own state, compared with the transitive dependents.

**EvaluationLog** takes each command apart where it reads and where it writes, as
the lock file excludes commands but neither hooks nor crashes.  The lock is taken as
`EvalLock.__enter__` takes it: `Enter` creates the file, `Look` reads the age of one that
is there, `Clear` removes an old one, and each is a step of its own, tried twice; `Release`
removes whatever file is there.  So two commands may both find a dead process's file old,
and the second then removes the file the first has created since; `overtaken` remembers
that it happened, and `MCOvertaken.cfg` shows what follows (section 5).  A command that
finds nothing to do, or refuses, still takes and releases the lock (`Refuse`).
**SessionHooks** adds the turns of a session, the guard's baselines and the bridge's
file.  `Bridged` may leave no state file (no project of Local's, an exception), and
`ConfigureLoop` rewrites the bridge's configuration at any time.
**EvaluationSummary** takes the log as the number of tasks of each kind and computes
the scorecard in hundredths, with medians, means and the clamps.  `Rounded` rounds to the
nearest, halves up; Python rounds halves to even, and its binary fractions either way, so a
score may differ from the code's in the last place, which no property depends on.  The same
holds of a mean place near one: that full marks are earned is said of up to five hundred
recalls, as of more the code's two decimals cannot tell.

**MemoryStore** keeps a working tree, a head, a base and a stopped rebase per device,
and one remote; `write`, `unlink` and `restore` are the steps of a mutation and its
rollback.  The removal of a record may raise and end the rollback (`UnlinkFails`), and any
of the records to be written back may silently stay as it is (`Restore`, where the code
suppresses the error); `torn` remembers the rules that are gone while their candidates may
still be promoted to them.  The lock is the same three steps as the evaluation's.  Here the
file of a living process may grow old too, while it waits for the network: git's commands
have no timeout (`Old`).  The index is rebuilt from the records and left out.  **SharedStore** is the abstract specification: a set of records that only
accumulates, founded on captured cases.  `MemoryStore` instances it `WITH shared <-
remote` and `PublishedOnlyGrows == S!Spec` is the refinement: every step of every
device publishes or stutters, until the lock file of a process at work is removed
(`lapsed`): what two commands of one device publish at once is not promised.

**LocalMemory** has one action per transaction or file move; the operation lock is
the guard of those that take it.  **Collector** has the exporters of the command
line, the changing sources, the stages of a cycle in the order in which the code
reads them, the validation with its replacements, and delivery in batches.
**InstallTransaction** has one action per write that a restart could observe;
`Capture` is what a manifest remembers; a rollback that fails while it moves the cache
leaves any part of either copy.  **BenchmarkRun** has one action per stage of
`run_one`, `main` and its batches around them.  Of the processes of a model it knows the
launcher, the rest of its process group and those that made a session of their own, which
`killpg` does not reach; the removal of the credentials may fail (`LeaveBroker`), and the
benchmark itself may be killed (`MainDies`).  Useful memories are compared with what the
evaluation log tells of, which the model may have written to.  **SecurityValidation** has the
manifest's checks, one action per scan, and status, confidence, gate and row as
functions of what was observed.

Environment assumptions, each from the code: `plan` is called once per graph id
(`ir.make_graph`: "graph_id identifies one execution"); the host performs an
external operation once per PREPARED answer and reports only operations it has
performed; it attests results of attempts it was given.  In `GraphEngine` one
process uses the store.  Lock files grow old when their process is dead; of a living
process, only while a sync waits for the network (`MemoryStore`; no other command takes
as long as the age of a stale lock).  The system frees the file locks of a dead process
(`LocalMemory`).  A start of a task reads its configuration once in the model, twice under
one lock in the code; a line of the log that a crash cuts short is no event.

Definitions that begin with "Faulty variant" are deliberate mistakes in one
definition, a dropped guard or a swapped order.  Each property is checked to fail
under one of them; no specification uses them.

## 3. The runs

Constants common to all: one output value where the value does not matter, all
three gate results, host failures with one reason code unless stated otherwise.
Attempt limits are the smallest compiled graphs allow (1, and 2 where a retry or
a send_back is what the run is about); since attempts only grow, the state space
is finite without further bounds.

| Run | Instance | What it shows |
|---|---|---|
| `loop` | scope loop: work, a gate that can send it back once, the global gate. Scopes solo, frozen, crowd, race: one or two engines over a task, an approval and an action, two revisions, one stop. Scope policies: candidates of each status, two samples, two pieces of evidence | a checkpoint lags by starts and retries only (`CheckpointLag`); running inputs are fresh (`RunningInputFresh`); the exported history tells each verdict and send_back once (`HistoryTold`); the store can be opened, but for the replans of `replanned` (`StoreOpens`); a key is granted once, and in an approved revision (`GrantedOnce`); a replan can be resumed wherever it stops (`ReplanSafe`); what may be promoted went through every stage (`PolicyEarned`) |
| `replanned` | the same | a violation: see section 5 |
| `return` | a gated branch, a MERGE, a gate that sends both back; usage 1, 2 or unknown; a node budget of 2 and a graph budget of 8 | an accepted graph is not over its budget and no DONE node over its own (`AcceptedWithinBudget`); a send_back fails all its targets or nothing, also a SKIPPED one (`SendBackAllOrNothing`); a resume leaves none owed (`ResumeCompletesSendBack`) |
| `branch` | a gate with a pass and a fail branch, joined by a MERGE, the gate retried once | only selected branches run or stay accepted (`BranchesRespected`); only complete graphs are accepted (`AcceptedGraphSound`) |
| `parallel` | two external tools under one approval, the more urgent one also behind an independent root; two slots | slots, write scopes and the external lock hold (`RunningExclusive`); a graph that can be completed can move, but for an external node that is offered and not READY (`NoWedge`, section 5) |
| `external` | a draft, its approval, the tool it authorises; draft and approval done twice | permissions are unique per key, no effect without receipt, uncertain attempts are not rolled back (`ExternalSound`); grants rest on a current approval (`ApproverCurrent`) |
| `feedback` | a chain and an independent node, two outputs; a constraint that takes back the head of the chain, one that narrows the independent node | no constraint is lost, none is ignored by a result (`ConstraintsObeyed`); no result is accepted while its inputs are taken back (`ResultStands`) |
| `unit` | three units: a chain against the order of the names, a join, one beside another, every cyclic graph; limits of 1 to 3 attempts | nothing done stands behind open work (`NothingDoneBehindOpen`); records match (`RecordsSound`); cycles and order agree (`OrderSound`); under `FairSpec` every graph ends (`Converges`) |
| `session` | scope log: two tasks, a session and a terminal. Scope hooks: the life of a session around one task, with git, faults and a bridge that may be switched off. Scope summary: up to thirty tasks of five kinds, three at a time | each slot and each summary once, loops closed, slots and loops until the file of a process at work is removed (`SessionSound`); a first Stop never passes unreviewed work (`WorkAskedFor`); a blocked Stop is finalised, unless the bridge is switched off (`BlockedStopFinalised`); a score is worth its evidence (`ScoreEarned`), and evidence stays (`EvidenceStays`) |
| `memory` | two devices, a second process on the first; two cases, one candidate, two rules, faults up to two or three less the rules | each tree stays whole, but for what a rollback that failed left (`StoreWhole`); the remote only grows (`PublishedOnlyGrows`, the refinement); both until the lock file of a process at work is removed |
| `local` | two processes with files of one or two records, one kill; three scopes of the collector: sessions, graphs, measures, two cycles | nothing committed is lost (`NothingLost`), nothing imported twice (`ImportedOnce`); graph rows are coherent (`GraphCoherent`); the families of a payload name one device and claims are backed (`ClaimsBacked`); what was delivered is all there (`DeliveredWhole`) |
| `device` | scope install: one agent file, two releases, two transactions, edits of one file. Scope runs: four plans of up to four runs, two threads, ceilings of 3 runs and 7 tokens, four outputs of a model, one after it logged a memory of its own; timeouts and credentials that stay in the plan of two runs. Scope fixtures: four manifests over two rules, every answer of the scanner, up to two repositories | a successful rollback restores the disk and fleet metadata is shared by whole installations (`ReportsTrue`); a rollback takes back only its own (`UndoesOnlyItsOwn`); models are confined, and every run that ends removes its credentials or was refused it, nothing of a timed out model's process group beside its accounting (`ModelContained`); ceilings hold (`CeilingsHold`); rows and summaries are backed, their useful memories by all that the log tells of (`ResultsBacked`); the gate and the row are earned (`ReportEarned`) |

Type invariants are proved (section 4) and were checked of each module while it was
written; the runs spend their time on the rest.  Some
properties are conjunctions of named parts, which the counterexample names.

Why the bounds are enough.  The properties of the engine concern at most one gate
with its branches and a join, two nodes that compete for a lock, or one attempt and
its successor; every instance has all roles its property speaks of, one retry of
the node it is about, and crashes at any point.  Parallelism is 2, below the default
of 3 that `accept_node` uses, so the disagreement between both is in every run; what
happens above it is told in section 5.
The budget instance lets the graph limit be exceeded by the last of several
attempts and the node limit by a retried one.  Two engines are enough for a lost
update and a key that is claimed twice, two revisions for whatever one revision
leaves to the next.  Three units are enough for a chain whose middle fails, for a
cycle with a tail and for shared ownership.  Two devices and the gap between a pull
and a push are enough for a rejected push, and a second process for a lock left by a
dead one.  Two transactions are an installation and one over it; two threads and a
third run are a batch and its successor.  The runs that set `CHECK_DEADLOCK FALSE`
can stop for good, by a bound or because the program has ended.

Scopes of an instance leave out what they are not about, with the reason in the
instance's comment: git runs between two hooks and not within one, sources of the
collector change before they are read and not after, the terminal is quiet while a
session lives, the user edits files from the first transaction of the installer on,
and the fleet's other device publishes before it or never.  In the scope of two devices of
`memory` a command goes on at once until it waits for the network: processes of different
devices meet in the remote alone.  In the runs of `device` each run of a batch goes on at
once to its model and from the end of its model to its own, as runs share nothing but the
rows.  In scope solo of `loop` at most one task fails, and was measured; in scope frozen at
most one fails; in crowd and race none does.  `session` and `memory` stop where the lock
file of a process at work is removed, after which their properties say nothing;
`DeadLockSpec` of `MCOvertaken.cfg` goes on from there.  Symmetry is used in `local` alone,
over processes and over exporters, which no property orders.

Fairness.  `unit`: `FairSpec` asks that a host which can still advance a graph, apply
a round, check what was produced or retry what failed does one of these
(`WF_vars(HostWorks)`), which is the loop `advance_graph` is written for; the
outcomes stay arbitrary, so `Converges` says that the limits end every graph.
`session`: each hook and each command, once begun, runs on (weak fairness: they are
processes without waits).  A session whose Stop was blocked stops again: a block returns
the turn to the model, and the host asks again with `stop_hook_active`.  This fairness is
strong because the model may run commands in between, and while a command of the
session runs its Stop is disabled.  `BlockedStopFinalised` excuses behaviours with a
fault (a hook that failed or was killed is not run again by anyone) and a bridge that was
switched off, whose state file the next SessionStart that finds it on takes over.  For the engine no
fairness is assumed: the host is not obliged to call anything, and `NoWedge` is the
safety part of progress, a possible next step in every completable state but the wedge
it names.

## 4. The proofs

TLAPS proves, from the named assumptions of the modules alone (what the compiler, the
configuration and the file names guarantee), for every graph, every number of engines,
devices, processes, sessions, records and limits, and any number of operations, crashes
and restarts:

| Module | Theorem | Property | Run |
|---|---|---|---|
| GraphEngineProofs | `TypeCorrect` | `TypeOK` | - |
| | `BranchesAreRespected` | `BranchesRespected` | branch |
| | `RunningIsExclusive` | `RunningExclusive` | parallel |
| | `AcceptanceIsSound` | `AcceptedGraphSound` | branch |
| | `CheckpointLagsByStarts` | `CheckpointLag` | loop |
| | `RowsNeverCollide`, `LedgersHaveTheirRevision` | `NoResultCollision`, `LedgerHasRevision` | - |
| | `ReceiptsHold`, `UncertainAttemptsStay`, `ExternalIsSound` | `ExternalSound` and its parts | external |
| | `SendBacksAreAtomic` | `SendBackAllOrNothing` | return |
| | `ResumesComplete` | `ResumeCompletesSendBack` | return |
| | `BudgetsAreKept` | `AcceptedWithinBudget` | return |
| | `ApproversAreCurrent` | `ApproverCurrent` | external |
| | `NothingWedges`, `NothingWedgesInside` | `NoWedge`, for graphs without conditional branches and up to three slots; without exception when no node is external | parallel |
| | `InputsAreFresh`, `InputsAreFreshWithoutMerge` | `RunningInputFresh`, with an exception for MERGE, and in full without MERGE | loop |
| | `ConstraintsAreKept`, `ResultsObeyConstraints`, `ConstraintsAreObeyed` | `ConstraintsObeyed` and its parts | feedback |
| | `ResultsStand`, `ResultsStandWithoutMerge` | `ResultStands`, likewise | feedback |
| | `VerdictsAreExported`, `HistoryIsTold` | `HistoryTold`: its first two parts of every graph, all of it where one gate sends back and there is no MERGE | loop |
| StoreProofs | `StoreStaysOpen`, `KeysAreGrantedOnce`, `ReplansAreSafe`, `PoliciesAreEarned` | `StoreOpens`, `GrantedOnce`, `ReplanSafe`, `PolicyEarned` | loop |
| UnitGraphProofs | `NothingDoneIsBehindOpen` | `NothingDoneBehindOpen` | unit |
| | `UnitsTypeCorrect`, `FailuresAreRecorded`, `AcceptanceIsWhole`, `RecordsAreSound` | `RecordsSound` and its parts | unit |
| | `RoundsAreIndependent` | `RoundIndependent` | - |
| | `OrdersAreSound` | `OrderSound` | unit |
| | `WorkIsLeft`, `WorkRunsOut` | what `Converges` needs besides fairness | - |
| SessionProofs | `SessionsAreSound`, `WorkIsAskedFor` | `SessionSound`, `WorkAskedFor` | session |
| | `StopsFinalise` | what `BlockedStopFinalised` needs besides fairness | - |
| | `ScoresAreEarned`, `EvidenceStaysThere` | `ScoreEarned`, `EvidenceStays` | session |
| MemoryProofs | `StoreStaysWhole`, `PublishedGrows` | `StoreWhole`, the refinement `PublishedOnlyGrows` | memory |
| LocalProofs | `LosesNothing`, `ImportsOnce` | `NothingLost`, `ImportedOnce` | local |
| | `GraphsAreCoherent`, `ClaimsAreBacked`, `DeliveriesAreWhole` | `GraphCoherent`, `ClaimsBacked`, `DeliveredWhole` | local |
| DeviceProofs | `InstallTypeCorrect`, `RollbacksUndoTheirOwn` | `TypeOK`, `UndoesOnlyItsOwn` | device |
| | `RollbacksRestore`, `FleetFollowsInstall`, `ReportsAreTrue` | `ReportsTrue` and its parts | device |
| | `ModelIsContained`, `CeilingsAreHeld`, `ResultsAreBacked` | `ModelContained`, `CeilingsHold`, `ResultsBacked` | device |
| | `ReportsAreEarned` | `ReportEarned` | device |

Each inductive invariant was checked by TLC on the instances of the runs before it was
proved.  The arguments, module by module:

**GraphEngineProofs** has seven layers.

1. *Transitions.*  What a transition does to settled nodes is summarised by three
   relations: `Settled` (refreshing the ready set changes waiting nodes only), `Accepted`
   (one node is accepted, other settled nodes stay) and `Failed` (a set fails, nothing
   downstream of it runs or is done, elsewhere only ACCEPTED becomes FROZEN).  From them:
   the edges of running and done nodes go on holding (`EdgesHold`), the running set only
   shrinks except by a start that the scheduler offered, and an accepted graph is
   complete.  `Sound` is their conjunction, and every transition keeps it.
2. *The engine.*  The inductive invariant `IInv` says that the snapshot *and the
   checkpoint* are `Sound`, and that the rest of an operation finds what its first
   transaction had checked (`PcOK`).  Both parts are needed: a resume continues from the
   checkpoint, so a property of the snapshot alone is not inductive, and
   `CommitApproval` starts a node that `BeginApproval` had found ready.
3. *Recovery.*  `Kept` says that between two graphs no attempt begins.  Every transaction
   but a start replaces a graph by one it keeps, so ledger rows stay behind the attempts
   of every graph the engine can return to (`NoResultCollision`); that a resume is refused
   under an uncertain receipt is what keeps `PreparedNotRolledBack`.  The two are proved
   together with `LedgerHasRevision`, which covers the states before a snapshot exists.
   The recovery of send_backs is a recursive function over the nodes; like the other
   recursions of the model it is unfolded by `RecursionSolved`, which says once that a
   function which refers to elements of lower rank only has a solution.
4. *Results.*  `CInv` says of both graphs that an accepted node has the input its result
   was computed from, that an approval row stands for a present attempt and input, and
   that usage is within the budgets.  Freshness of inputs has one exception, which the
   proof found: `mark_ready` computes the input of a node first and clears the outputs of
   the branches it skips afterwards, so a MERGE may start over the result of a skipped
   dependency.  `InputsAreFresh` states it with the exception.
5. *Constraints*, for `FeedbackSpec`, where `IInv` does not hold.  `FInv` says that every
   input names the constraints that apply to its node (`Whole`), that snapshot and
   checkpoint carry the same constraints, and that the checkpoint knows no result the
   snapshot does not (`Behind`): without the last a resume could finish a running node.
   `BInv` adds that graphs and claims stand on accepted predecessors (`Based`,
   `ClaimBased`), from which `ResultsStand`.
6. *Progress.*  A node is `Due` when it is not done and all it depends on is.  `NInv` says
   of both graphs that nothing is skipped and that they are `Led`: unless the graph has
   stopped for good, every due node that is neither READY, running nor FAILED has one that
   is, earlier in the schedule or, if it is external, anywhere.  `NoWedge` alone is not
   inductive: it says nothing of a graph where a node runs, and that node may fail.
   `mark_ready` establishes `Led` since the greedy selection passes a candidate over for an
   earlier one only (`PassedOver`, from the recursion of `ReadyNodes`), and since a due node
   never meets a write lock (`DueUnlocked`).  A failure keeps it because whatever it takes
   back lies below a failed node, of which the first in the schedule is due and leads in its
   turn; for that the critical path must decrease downstream (`CriticalPathDecreases`).
   The conclusion takes the first due node: it is offered, so were it not READY, it would
   be led by an earlier one.
7. *History*, for `TelemetrySpec`, which implies `Spec`.  The fold over the checkpoint rows
   is unfolded one row at a time: a solution of its recursion over positions exists and two
   of them agree (`FoldsExist`, `FoldsAgree`), so a row more is told after those before it
   (`ToldAppend`).  `Quiet` says that a graph has nothing to tell that another did not, and
   every step but the verdict of a gate leaves graphs that are quiet towards those before it
   (`NextEchoes`).  The invariant `TInv` then says that what was told is what was judged:
   each verdict at one place, the signatures remembered those of the verdicts, as many
   send_back events as rows, and last of each gate its verdict *in the snapshot and in the
   checkpoint*.  That a verdict is new rests on the usage row its attempt has been measured
   with (`Measured`): as ledger rows never collide, no attempt is judged twice, also after
   a crash.  For the attribution `LInv` says that a send_back still owed is `Foretold`: the
   history remembers a gate, and a graph in which the targets had not failed, as without a
   MERGE everything upstream of a gate that is done is done (`DoneUpstream`).  A send_back
   leaves none owed when there is one gate to owe it (`SentBackTakesBack`).

**StoreProofs**.  `SInv` has a part for each kind of row (revisions, chains, ledgers,
receipts, checkpoints, anchors, policies) and one for calls (`Calls`): the transactions a
call has still to run, read from a store that others have changed since, are each either
refused or keep every part.  `OneAtATime` says what a single engine leaves between two of
its transactions.

**UnitGraphProofs**.  The life of the units rests on three facts about `Behind`: it is
closed under dependents, transitive, and whoever is in it has a dependency that is the
unit or in it too.  For `OrderSound` the recursive functions are unfolded: the search has
a solution because its paths grow (`SearchExists`), a visit below a path of units it is
behind meets that path only where a unit is behind itself (`VisitFindsCyclesOnly`), and a
visit without cycle finishes its unit and everything behind it, but nothing of its path
(`VisitFinishes`).  The order puts every unit after its dependencies (`SortedInOrder`), and
without cycles holds all units, as among those left one with the fewest units ahead could
follow (`OneIsFirst`, `OrderIsWhole`).  `Converges` itself is liveness; proved of it are
the two facts it combines with fairness.  An unfinished graph always leaves the host
something to do (`WorkIsLeft`): of the units not accepted one depends on none of the
others, and whatever its status, a call may move it, as `max_parallelism` is positive
(the code raises otherwise).  And each call that changes an unfinished graph decreases a
lexicographic variant of steps left, failed units, waiting units, the round and the status
of the graph (`WorkRunsOut`).  That each of these calls is ENABLED and the conclusion from
weak fairness are left to TLC.

**SessionProofs**.  As long as nothing is `overtaken`, whoever is past the lock's entry has
its file, which leaves one command at work (`Commanded`), and what a command
has read under it still holds when it writes (`Pending`); hooks write without the lock,
which `HInv` covers: the baseline is the first one seen, there is one summary.
`BlockedStopFinalised` is liveness; proved of it is that a Stop which was asked again is not
blocked once more, and that the end of a turn without a fault leaves no state file of the
bridge while that is on (`Finalised`, from `StopInv`); that the hooks run to their end is left to TLC.  The
score is argued from the counts alone: sums over kinds of tasks, medians and means are
unfolded with `SumTheorems`; each part is within its maximum, and what was told scored
had evidence, which more finished tasks do not take away (`EvidenceInv`).

**MemoryProofs**.  `OInv` holds of every state: either something is `overtaken`, of which
nothing more is said, or `MInv` holds: the lock is exclusive and no rebase is stopped under
a busy process; on each device copies extend one another from the base over the head to the
tree, and from the base over a rebase to the remote; what a process remembers for a
rollback (`was`) is whole and extends the commit; what it has still to write only adds; a
promoted candidate without its rule is one whose rule is `torn`, or in a rollback that has
not ended.  A rebase without conflict joins both sides.

**LocalProofs**.  `LInv`: every database a process may meet again, the archives and the
copies of a running restore included, lists each id and reference once; under the
operation lock whatever was written is in the database, archived or deleted by name.
`COInv`: the sources are sound, a payload is coherent, numbered and backed up to the stage
its cycle has reached, and the server has an observation whole or not at all.

**DeviceProofs**.  The installer's `IInv` is the progress of the one running process: how
far an installation or a rollback has come says what of the disk is already as recorded
(`Installing`, `Recorded`, `Restoring`).  The benchmark's `BenchInv` follows each run
through its stages, its batches (`BatchesInTurn`, with the arithmetic of batches) and its
rows; credentials are there from the broker's beginning to its end, or stuck, and after a
timeout the process group is gone before anything else is done.  The validation counts
fixtures: that enough pairs agreed follows from sums over rules.

**SumTheorems** states the least number principle and induction over finite sets of sets
instead of operators, which is what the provers here can instantiate, and from them what
the folds of the models compute.

Assumptions on constants beyond those the code checks at run time: names of agents are
distinct; identities of records are not integers, which number Local's own; session files,
tasks and kinds of tasks are finitely many.

`NothingWedges` needs three hypotheses, and without each there is a wedge: no edge is
conditional on a gate (`MCUnselected.cfg` is one), no limit on failed gates
(`max_failed_gates`) forbids a retry that the attempts allow, and `max_parallelism` is at
most the 3 that `accept_node` refreshes for, which is its default (section 5).

Model-checked only: `NoWedge` of graphs with conditional branches, and what asserts
liveness: `Converges`, `BlockedStopFinalised`, of which the safety half is proved
(`WorkIsLeft` and `WorkRunsOut`, `StopsFinalise`).  `RunningInputFresh` and `ResultStands` are
false of some graphs with a MERGE (section 5), and proved of the others; `SendBacksTold`
is false of some with a MERGE or two gates that send back (section 3), and proved of the
others.

## 5. Where the repository says something else than the program does

One run ends in a counterexample, and a finding in `PROJECT.json` quotes the statement.
`replanned`: a replan copies the evidence references of a node it freezes, the evidence
stays in the ledger of the old revision, and from then on the store refuses to open.

Further configurations are kept beside the runs; each ends in a counterexample to the
property it names.  The first three contradict what the repository says; they are also the
reason for the exemptions in `SessionSound`, `StoreWhole` and `ModelContained`.

| Configuration | With | What happens |
|---|---|---|
| `MCOvertaken.cfg` | `MCSession` | `FinishedOnce`: after a process died with the lock of the evaluation log, two commands find its file old (`routecraft_evaluation.py:113-130`); one removes it and goes on under a file of its own, the other removes that one, and a task is finished twice. `tests/test_routecraft_evaluation.py:219` expects one event of parallel finishes, which holds while no process has died with the lock |
| `MCRollback.cfg` | `MCMemory` | `RolledBackWhole`: a promotion fails at its index, the rollback removes the rule and cannot write the candidate back, which is passed over (`learning.py:143-149`): it stays promoted to a rule that is gone, without an error and without a kill. `CHANGELOG.md:140` calls the rollback transactional |
| `MCTimeout.cfg` | `MCDevice` | `DescendantsGone`: a descendant of the model in a session of its own is not in the process group that is signalled (`routecraft_real_benchmark.py:914-925`) and survives the timeout, the credentials and the accounting. The docstring (890-892) says that a timeout terminates the descendants; so it does where the host's sandbox ends them with the launcher |
| `MCOffered.cfg` | `MCFeedback` | accepted work that a constraint takes back is INVALIDATED; `ready` offers it, `start` refuses it, and nothing that can be called in a chain refreshes it |
| `MCUnselected.cfg` | `MCBranch` | a FAILED node of a branch that is no longer selected is never skipped; retried, it is READY for ever and its MERGE waits |
| `MCReopened.cfg` | `MCBranch` | a failed gate keeps its verdict; an unrelated acceptance skips the branch that verdict did not select, the gate then passes and selects it, and the graph is accepted without it |
| `MCNested.cfg` | `MCReturn` | a send_back to two nodes, one behind the other, is refused, and so is every resume afterwards |
| `MCSuperseded.cfg` | `MCExternal` | an operation approved over an input that was since invalidated, redone and approved for another operation is still granted |
| `MCUnfinished.cfg` | `MCSession` | a process killed between the session file and the event of its `start` leaves a task that SessionStart lists as unfinished and that nothing can finish |

With `Edge <- MCOneBranch` in `MCUnselected.cfg` and the invariant `RunningInputFresh`, TLC
shows in 21 steps the MERGE that starts over a skipped branch's result.

Two wedges of the scheduler came out of the proof of `NoWedge`.  READY is written by
`mark_ready` and by `retry`; `start` asks both that a node is READY and that `ready_nodes`
offers it now, and no operation a host may call refreshes the first.

* *The external lock.*  While one external tool runs, another that precedes it in the
  schedule becomes due, and is left PENDING for the lock.  The first one fails and is
  retried.  Now `ready` offers the second only, which is not READY, and the first is READY
  and not offered: `start` refuses both.  `NoWedge` exempts this state (`LockedOut`);
  without that conjunct `MCParallel.cfg` ends in it after 13 states.
* *More than three slots.*  With `max_parallelism` 4, a node and three others run; it is
  accepted, and `accept_node` refreshes for three slots, which the others fill.  Four urgent
  nodes behind it stay PENDING.  The three fail and are retried: `ready` offers the four,
  which are not READY, and READY are the three.  TLC finds it for those nine nodes with
  `MaxParallelism` 4 after 19 states.

Both are out of reach of the functions' own tests, which take one transition at a time,
and no document says that they cannot be.

Seen while modelling, and not run because no document contradicts it or because it lies
below what is modelled:

* Engine and state.  The result of an attempt that was running when a constraint changed
  its input can no longer be recorded, only failed; a MERGE accepted on a skipped node
  stands when a constraint takes that node back; a constraint on an ACCEPTED graph leaves
  it ACCEPTED; an external operation prepared before a constraint changed the input of
  its node cannot be committed after it; `plan` of a live graph resets it; `retry` revives
  a cancelled graph; after a failure and a
  retry an external operation is granted again, under a new key, while its first receipt is
  still PREPARED; a claim is lost when a sibling's checkpoint captures a RUNNING node
  and the process stops; a graph can be ACCEPTED with a PREPARED receipt that nothing
  reconciles; a node over its budget may be skipped and its graph accepted; a send_back
  is put down to the last gate resolved.
* Store.  `_write` verifies the store before `BEGIN IMMEDIATE`; two processes overwrite
  each other's snapshot (no version is compared); two engines may replan with different
  contracts; ledger identifiers of RUNNING and FAILED rows omit the revision, so a start
  raises after a replan; an uncertain receipt may race a replan.
* Execution graph of 0.6.  `retry_unit` revives a graph that failed to converge; a produce
  may be recorded for an accepted unit.
* Installer.  A rollback that is refused or fails after its manifest was loaded writes ROLLBACK_FAILED over
  the transaction's state, a final ROLLED_BACK included; a crash within a manual
  rollback leaves a cache that is restored in part.
* Benchmark and validation.  Run identifiers are salted by the configuration; `summarize`
  takes results that are incomplete; a benchmark that is killed leaves every copy of the
  credentials there was.
* Decision Store and Memory Local.  A kill between a rule and its candidate; a sync that
  waits for the network longer than the age of a stale lock is overtaken by the next command
  of its device; overlapping
  imports insert the same reference twice; `update_memory` may lose an update.
* Collector.  Runs, memory tasks and checks name the device by one salted hash, families by
  another identifier from other files, so a payload with both names one device twice, and in
  more ways when the configuration changes between their readings; `ClaimsBacked` speaks of
  the families.  Rows of the summary files have ids of their own and are sent again by later
  collections, so a failed delivery may leave some of them there and some not;
  `DeliveredWhole` asks wholeness of the other kinds of rows and, of a delivered
  collection, that every row is there.
* Not modelled parts.  The core accepts `{status: "succeeded"}` without `succeeded` and
  reports a status that contradicts it; a stale response of an earlier attempt is used for
  a verification when the last attempt raised; the dashboard's fold depends on the order
  of events of equal time when one has no sequence number.

## 6. What is not modelled, and why

* Evidence, privacy filters, output schemas, hash chains: validation of data, each
  check local to one call.  A call they refuse is not a step.
* `observe` mode, which runs nothing, and the policy check of `enforce` mode, which only
  refuses calls.
* Bindings and attestations of executors: an interface of the host, reduced to claims.
* The benchmark laboratory, the hardener, the optimiser and the migration of endpoints:
  each a batch of text over files, without state of its own.
* The migration of graphs of 0.6 into plans: a function of one document.
* The Praxis Dashboard: a read-only projection; its sums and folds are data.
* The routing core and the protocols: pure classification; case analysis over inputs.
* Release tooling: builds and verifies archives.

## 7. Plan

What is left, in this order; (M) marks model work, (P) proofs.

1. (M) `ExternalOnce`, an abstract specification of an external operation (unapproved,
   granted, performed, recorded) that `GraphEngine` implements under a refinement mapping;
   `NodeLife`, the abstract life cycle of one node, likewise.
2. (M) Reference definitions of the closed forms of `GraphState` as the literal loops of
   the code, compared on all small graphs.
3. (M) `RoutingCore` and the fold of the dashboard as functions over bounded inputs.
