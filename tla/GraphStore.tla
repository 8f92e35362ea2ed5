------------------------------ MODULE GraphStore ------------------------------
(***************************************************************************)
(* routecraft_graph/store.py under the engines that use it: the revisions  *)
(* of one graph, its ledger, receipts, checkpoints and the history of its  *)
(* policies.  A method of an engine reads the store and then runs the      *)
(* transactions it has made of what it read; another engine may write, and *)
(* a crash may fall, between any two.  Every transaction first verifies    *)
(* the whole store and is refused when that fails.                         *)
(*                                                                         *)
(* The tasks are the nodes of the graph whose dependencies are done.       *)
(***************************************************************************)
EXTENDS Integers, Sequences, FiniteSets, FiniteSetsExt

CONSTANTS
  Engines,
  Tasks,
  Approving, Acting,   \* tasks that are a human approval, and that act outside
  TaskAttempts,        \* retry_policy.max_attempts of each task
  MaxRevisions,        \* config graph.max_graph_revisions
  MaxStops,            \* bound: engines that die
  Candidates,          \* policy candidates: [status, sample, refs, normal, confidence]
  Nobody

ASSUME StoreAssumption ==
  /\ TaskAttempts \in [Tasks -> Nat \ {0}] /\ MaxRevisions \in Nat \ {0} /\ MaxStops \in Nat
  /\ Approving \cup Acting \subseteq Tasks /\ Approving \cap Acting = {}
  /\ \A c \in Candidates : c.sample \in Nat /\ c.status \in {"DRAFT", "SHADOW", "CANDIDATE", "APPROVED", "REJECTED", "RETIRED"}

VARIABLES
  sources,   \* graph_revisions: the contract of each revision
  states,    \* graph_events: the latest STATE_SNAPSHOT of each revision
  current,   \* graphs.current_revision, 0 before there is one
  rows,      \* ledger_entries
  points,    \* checkpoints: the last of each revision
  anchors,   \* store_metadata: the heads of the checkpoint chains
  receipts,  \* the statuses of each idempotency key
  policies,  \* policy_candidates
  calls,     \* transactions each engine has still to run
  claimed,   \* attempts each engine has claimed
  answers,   \* history: how often a key was answered PREPARED
  together,  \* history: two engines were in a call at once
  stops

storeVars == <<sources, states, current, rows, points, anchors, receipts, policies, calls, claimed, answers, together, stops>>
Revision == 1 .. MaxRevisions
StoreKey == UNION {[revision : Revision, task : {n}, attempt : 1 .. TaskAttempts[n]] : n \in Acting}

StoreInit ==
  /\ sources = <<>> /\ states = <<>> /\ current = 0 /\ rows = {} /\ points = <<>> /\ anchors = <<>>
  /\ receipts = [k \in StoreKey |-> <<>>] /\ policies = <<>> /\ together = FALSE /\ stops = 0
  /\ calls = [e \in Engines |-> <<>>] /\ claimed = [e \in Engines |-> {}] /\ answers = [k \in StoreKey |-> 0]
--------------------------------------------------------------------------------
(* Policy candidates: policy.py *)

\* validate_policy_candidate: what a status asks of the evidence
ValidCandidate(c) ==
  /\ c.status \in {"SHADOW", "CANDIDATE", "APPROVED"} => c.sample >= 1 /\ c.refs # {}
  /\ c.status \in {"CANDIDATE", "APPROVED"} => c.normal
  /\ c.status = "APPROVED" => c.confidence \in {"medium", "high"}

Following == [DRAFT |-> {"SHADOW", "REJECTED"}, SHADOW |-> {"CANDIDATE", "REJECTED", "RETIRED"},
              CANDIDATE |-> {"APPROVED", "REJECTED", "RETIRED"}, APPROVED |-> {"RETIRED"}, REJECTED |-> {}, RETIRED |-> {}]
\* Faulty variant of ValidTransition: only the candidate itself is looked at.
ValidAlone(history, c) == ValidCandidate(c)

\* validate_policy_transition: from DRAFT, along the statuses, evidence only added
ValidTransition(history, c) ==
  /\ ValidCandidate(c)
  /\ IF history = <<>> THEN c.status = "DRAFT"
     ELSE LET last == history[Len(history)] IN
          c.status \in Following[last.status] /\ c.sample >= last.sample /\ last.refs \subseteq c.refs

\* An approval names a human and evidence of the candidate; nothing else does.
Provenance(c, actor, ref) == IF c.status = "APPROVED" THEN actor # Nobody /\ ref \in c.refs ELSE actor = Nobody /\ ref = Nobody

PolicyRow(c, actor, ref) ==
  [status |-> c.status, sample |-> c.sample, refs |-> c.refs, normal |-> c.normal, confidence |-> c.confidence, actor |-> actor, ref |-> ref]

\* can_promote: what the evaluation of a candidate lets a human enforce
CanPromote(c, ref) == ValidCandidate(c) /\ c.status = "APPROVED" /\ ref \in c.refs
--------------------------------------------------------------------------------
(* verify_integrity *)

\* Each revision has a snapshot of its own contract, and the pointer is the last.
RevisionsSound ==
  /\ \A r \in DOMAIN sources : r \in DOMAIN states /\ states[r].contract = sources[r]
  /\ current > 0 => current \in DOMAIN states
\* Each row belongs to a revision that is there.
LedgersSound == \A row \in rows : row.revision \in DOMAIN sources
\* What a node of the latest snapshot rests on is in the ledger of its revision.
EvidenceOf(r, n) == {row.id : row \in {q \in rows : q.kind = "EVIDENCE" /\ q.revision = r /\ q.task = n}}
EvidencePresent == \A r \in DOMAIN sources, n \in Tasks : states[r].nodes[n].refs \subseteq EvidenceOf(r, n)
ReceiptsSound == \A k \in StoreKey : receipts[k] \in {<<>>, <<"PREPARED">>, <<"PREPARED", "COMMITTED">>}
PoliciesSound ==
  \A i \in DOMAIN policies :
    ValidTransition(SubSeq(policies, 1, i - 1), policies[i]) /\ Provenance(policies[i], policies[i].actor, policies[i].ref)
\* What a checkpoint refers to is still there.
CheckpointsSound ==
  \A r \in DOMAIN points :
    /\ points[r].ir.revision = r /\ points[r].heads \subseteq rows
    /\ \A k \in StoreKey : points[r].receipts[k] <= Len(receipts[k])
AnchorsSound == anchors = points

IntegrityHolds ==
  RevisionsSound /\ LedgersSound /\ EvidencePresent /\ ReceiptsSound /\ PoliciesSound /\ CheckpointsSound /\ AnchorsSound

\* save_policy_candidate: the same candidate again is no new row.
SavePolicyCandidate(c, actor, ref) ==
  /\ IntegrityHolds /\ Provenance(c, actor, ref) /\ ValidTransition(policies, c)
  /\ policies' = Append(policies, PolicyRow(c, actor, ref))
  /\ UNCHANGED <<sources, states, current, rows, points, anchors, receipts, calls, claimed, answers, together, stops>>
--------------------------------------------------------------------------------
(* Transactions: snapshots, checkpoints, rows and a receipt, or nothing *)

None == [none |-> TRUE]
Tx == [save |-> None, point |-> None, rows |-> {}, receipt |-> None, claim |-> {}]

\* INSERT .. ON CONFLICT DO UPDATE, and the reader that takes the last row
Put(table, r, row) == [x \in DOMAIN table \cup {r} |-> IF x = r THEN row ELSE table[x]]

\* _save_revision_in: revisions are contiguous, and the contract of one is immutable.
Saveable(ir) ==
  /\ ir.revision \in {current, current + 1} \ {0}
  /\ ir.revision \in DOMAIN sources => sources[ir.revision] = ir.contract
SaveRevision(ir) ==
  IF ir = None THEN UNCHANGED <<sources, states, current>>
  ELSE /\ sources' = Put(sources, ir.revision, ir.contract)
       /\ states' = Put(states, ir.revision, ir) /\ current' = ir.revision

\* _append_ledger_in: a row of the same id must be the same row.
Fitting(new) == \A row \in new, old \in rows : row.id = old.id => row = old

\* Faulty variant of Checkpoint: the anchor of the chain is left behind.
CheckpointOnly(ir, ledger) ==
  IF ir = None THEN UNCHANGED <<points, anchors>>
  ELSE /\ points' = Put(points, ir.revision, [ir |-> ir, heads |-> {r \in ledger : r.revision = ir.revision},
                                              receipts |-> [k \in StoreKey |-> Len(receipts[k])]])
       /\ UNCHANGED anchors

\* _checkpoint_in: the state, the heads of its ledgers, all receipts, and the anchor
Checkpoint(ir, ledger) ==
  IF ir = None THEN UNCHANGED <<points, anchors>>
  ELSE /\ points' = Put(points, ir.revision, [ir |-> ir, heads |-> {r \in ledger : r.revision = ir.revision},
                                              receipts |-> [k \in StoreKey |-> Len(receipts[k])]])
       /\ anchors' = points'

\* Faulty variant of Receipt: a key that is committed can be claimed once more.
ReceiptTwice(r) ==
  IF r = None THEN UNCHANGED <<receipts, answers>>
  ELSE /\ receipts' = [receipts EXCEPT ![r.key] = IF r.status = "PREPARED" THEN <<r.status>> ELSE <<"PREPARED", "COMMITTED">>]
       /\ answers' = [answers EXCEPT ![r.key] = IF r.status = "PREPARED" THEN @ + 1 ELSE @]

\* prepare_external_mutation of the store: a key is claimed once, a committed
\* one is answered from its receipt; commit_external_mutation after it.
ReceiptAllowed(r) ==
  r = None \/ (r.status = "PREPARED" /\ receipts[r.key] # <<"PREPARED">>) \/ (r.status = "COMMITTED" /\ receipts[r.key] # <<>>)
Receipt(r) ==
  IF r = None \/ (r.status = "PREPARED" /\ receipts[r.key] # <<>>) \/ Len(receipts[r.key]) = 2
  THEN UNCHANGED <<receipts, answers>>
  ELSE /\ receipts' = [receipts EXCEPT ![r.key] = Append(@, r.status)]
       /\ answers' = [answers EXCEPT ![r.key] = IF r.status = "PREPARED" THEN @ + 1 ELSE @]

\* _write: one transaction of a call, or the exception that ends it
Allowed(t) ==
  IntegrityHolds /\ Fitting(t.rows) /\ (t.save # None => Saveable(t.save)) /\ ReceiptAllowed(t.receipt)
Transact(e) ==
  /\ calls[e] # <<>> /\ UNCHANGED <<policies, together, stops>>
  /\ LET t == Head(calls[e]) IN
     IF Allowed(t)
     THEN /\ SaveRevision(t.save) /\ rows' = rows \cup t.rows /\ Checkpoint(t.point, rows') /\ Receipt(t.receipt)
          /\ calls' = [calls EXCEPT ![e] = Tail(@)] /\ claimed' = [claimed EXCEPT ![e] = @ \cup t.claim]
     ELSE calls' = [calls EXCEPT ![e] = <<>>] /\ UNCHANGED <<sources, states, current, rows, points, anchors, receipts, claimed, answers>>
--------------------------------------------------------------------------------
(* Rows.  Ids of RUNNING and FAILED rows do not name the revision. *)

Row(id, ir, kind, n) == [id |-> id, revision |-> ir.revision, kind |-> kind, task |-> n]
RunningRow(ir, n) == Row(<<"RUNNING", n, ir.nodes[n].attempt>>, ir, "PROGRESS", n)
FailedRow(ir, n) == Row(<<"FAILED", n, ir.nodes[n].attempt>>, ir, "PROGRESS", n)
UsageRowOf(ir, n) == Row(<<"USAGE", ir.revision, n, ir.nodes[n].attempt>>, ir, "PROGRESS", n)
ApprovalRow(ir, n) == Row(<<"APPROVAL", n, ir.nodes[n].attempt>>, ir, "PROGRESS", n)
EvidenceRow(ir, n) == Row(<<"EVIDENCE", ir.revision, n, ir.nodes[n].attempt>>, ir, "EVIDENCE", n)
IntentRow(ir) == Row(<<"INTENT", ir.revision>>, ir, "INTENT", Nobody)

\* Transitions of the state
NodeNow(status, attempt, refs) == [status |-> status, attempt |-> attempt, refs |-> refs]
Started(ir, n) == [ir EXCEPT !.nodes[n] = NodeNow("RUNNING", @.attempt + 1, @.refs)]
Accepted(ir, n) == [ir EXCEPT !.nodes[n] = NodeNow("ACCEPTED", @.attempt, @.refs \cup {EvidenceRow(ir, n).id})]
\* fail_node: the failed task keeps its evidence, what was accepted is frozen.
Settled(node) == IF node.status = "ACCEPTED" THEN NodeNow("FROZEN", node.attempt, node.refs) ELSE node
FailedNow(ir, n) ==
  [ir EXCEPT !.nodes = [m \in Tasks |-> IF m = n THEN NodeNow("FAILED", @[m].attempt, @[m].refs) ELSE Settled(@[m])]]
Again(ir, n) == [ir EXCEPT !.nodes[n] = NodeNow("READY", @.attempt, @.refs)]
--------------------------------------------------------------------------------
(* Methods of the engine: what they read, and the transactions they make of it *)

Call(e, transactions) ==
  /\ calls[e] = <<>> /\ IntegrityHolds /\ calls' = [calls EXCEPT ![e] = transactions]
  /\ together' = (together \/ \E f \in Engines \ {e} : calls[f] # <<>>)
  /\ UNCHANGED <<sources, states, current, rows, points, anchors, receipts, policies, claimed, answers, stops>>
Loaded == states[current]
Status(n) == Loaded.nodes[n].status
ClaimOf(ir, n) == <<ir.revision, n, ir.nodes[n].attempt>>
Uncertain == \E k \in StoreKey : receipts[k] = <<"PREPARED">>
ApprovedIn(r) == \E row \in rows : row.revision = r /\ row.id[1] = "APPROVAL"

FreshIr == [revision |-> 1, contract |-> [n \in Tasks |-> 1], nodes |-> [n \in Tasks |-> NodeNow("READY", 0, {})]]
CallPlan(e) ==
  current = 0 /\ Call(e, <<[Tx EXCEPT !.point = FreshIr], [Tx EXCEPT !.save = FreshIr], [Tx EXCEPT !.rows = {IntentRow(FreshIr)}]>>)

CallStart(e, n) ==
  /\ current > 0 /\ n \notin Approving /\ Status(n) = "READY" /\ Loaded.nodes[n].attempt < TaskAttempts[n]
  /\ LET ir == Started(Loaded, n) IN
     Call(e, <<[Tx EXCEPT !.save = ir, !.claim = {ClaimOf(ir, n)}], [Tx EXCEPT !.rows = {RunningRow(ir, n)}]>>)

\* commit_result: an accepted result, or a failed one (a gate's verdict, a
\* budget), and its rows are one transaction.
Failing(ir, n, with) ==
  LET failed == FailedNow(ir, n) IN [Tx EXCEPT !.save = failed, !.point = failed, !.rows = with \cup {FailedRow(ir, n)}]
Accepting(ir, n, with) == LET accepted == Accepted(ir, n) IN [Tx EXCEPT !.save = accepted, !.point = accepted, !.rows = with]
Finished(ir, n, with) == {Accepting(ir, n, with), Failing(ir, n, with)}

CallRecordResult(e, n) ==
  /\ current > 0 /\ Status(n) = "RUNNING" /\ ClaimOf(Loaded, n) \in claimed[e]
  /\ \E finished \in Finished(Loaded, n, {EvidenceRow(Loaded, n), UsageRowOf(Loaded, n)}) : Call(e, <<finished>>)
\* Usage is optional, and asks for a running task.
CallRecordFailure(e, n) ==
  /\ current > 0 /\ Status(n) \in {"RUNNING", "READY", "ACCEPTED", "FROZEN"}
  /\ \E measured \in {{}} \cup (IF Status(n) = "RUNNING" THEN {{UsageRowOf(Loaded, n)}} ELSE {}) :
       Call(e, <<Failing(Loaded, n, measured)>>)
CallRetry(e, n) ==
  /\ current > 0 /\ Status(n) = "FAILED" /\ Loaded.nodes[n].attempt < TaskAttempts[n]
  /\ Call(e, <<[Tx EXCEPT !.save = Again(Loaded, n)]>>)
CallApprove(e, n) ==
  /\ current > 0 /\ n \in Approving /\ Status(n) = "READY"
  /\ LET ir == Started(Loaded, n) IN
     \E finished \in Finished(ir, n, {RunningRow(ir, n), EvidenceRow(ir, n), ApprovalRow(ir, n), UsageRowOf(ir, n)}) :
       Call(e, <<[Tx EXCEPT !.point = Loaded], finished>>)

\* idempotency_key
KeyOf(n) == [revision |-> current, task |-> n, attempt |-> Loaded.nodes[n].attempt]
Acts(n) == current > 0 /\ n \in Acting /\ Status(n) = "RUNNING" /\ ApprovedIn(current)
CallPrepare(e, n) == Acts(n) /\ Call(e, <<[Tx EXCEPT !.receipt = [key |-> KeyOf(n), status |-> "PREPARED"]]>>)
CallCommit(e, n) ==
  Acts(n) /\ Call(e, <<[Tx EXCEPT !.receipt = [key |-> KeyOf(n), status |-> "COMMITTED"]], [Tx EXCEPT !.point = Loaded]>>)

\* replan: what was accepted under an unchanged contract is frozen, with its
\* evidence, unless it approves or acts; the rest begins anew.
Revised(changed) ==
  [revision |-> current + 1, contract |-> [n \in Tasks |-> IF n \in changed THEN current + 1 ELSE Loaded.contract[n]],
   nodes |-> [n \in Tasks |->
     IF n \notin changed \cup Approving \cup Acting /\ Status(n) \in {"ACCEPTED", "FROZEN"}
     THEN NodeNow("FROZEN", Loaded.nodes[n].attempt, Loaded.nodes[n].refs) ELSE FreshIr.nodes[n]]]

\* Faulty variant of ReplanTransactions: the revision is saved before its checkpoint.
ReplanSavedFirst(ir, revised) ==
  <<[Tx EXCEPT !.point = ir], [Tx EXCEPT !.save = revised], [Tx EXCEPT !.point = revised], [Tx EXCEPT !.rows = {IntentRow(revised)}]>>

ReplanTransactions(ir, revised) ==
  <<[Tx EXCEPT !.point = ir], [Tx EXCEPT !.point = revised], [Tx EXCEPT !.save = revised], [Tx EXCEPT !.rows = {IntentRow(revised)}]>>
CallReplan(e, changed) ==
  /\ current \in 1 .. MaxRevisions - 1 /\ (\A n \in Tasks : Status(n) # "RUNNING") /\ ~Uncertain
  /\ Call(e, ReplanTransactions(Loaded, Revised(changed)))

\* resume: the latest checkpoint of the latest revision that has one
LatestPoint == points[Max(DOMAIN points)].ir
CallResume(e) ==
  /\ DOMAIN points # {} /\ ~Uncertain
  /\ Call(e, <<[Tx EXCEPT !.save = LatestPoint, !.point = LatestPoint], [Tx EXCEPT !.rows = {IntentRow(LatestPoint)}],
               [Tx EXCEPT !.point = LatestPoint]>>)

Stop(e) ==
  /\ stops < MaxStops /\ stops' = stops + 1
  /\ (calls[e] # <<>> \/ claimed[e] # {})
  /\ calls' = [calls EXCEPT ![e] = <<>>] /\ claimed' = [claimed EXCEPT ![e] = {}]
  /\ UNCHANGED <<sources, states, current, rows, points, anchors, receipts, policies, answers, together>>

EngineNext(e) ==
  \/ Transact(e) \/ CallPlan(e) \/ CallResume(e) \/ Stop(e)
  \/ \E n \in Tasks :
       \/ CallStart(e, n) \/ CallRecordResult(e, n) \/ CallRecordFailure(e, n) \/ CallRetry(e, n)
       \/ CallApprove(e, n) \/ CallPrepare(e, n) \/ CallCommit(e, n)
  \/ \E changed \in SUBSET Tasks : CallReplan(e, changed)
PolicyNext ==
  \E c \in Candidates, actor \in {Nobody, "human"}, ref \in (UNION {d.refs : d \in Candidates}) \cup {Nobody} :
    SavePolicyCandidate(c, actor, ref)
StoreNext == PolicyNext \/ \E e \in Engines : EngineNext(e)
StoreSpec == StoreInit /\ [][StoreNext]_storeVars
--------------------------------------------------------------------------------
\* No sequence of calls, of one engine or of several, dying anywhere, makes the
\* store refuse itself (verify_integrity) - but for a replan that froze a node
\* with the evidence it had, which the ledger of another revision holds.
CarriedOver(ir) ==
  \E row \in rows : row.kind = "EVIDENCE" /\ row.revision # ir.revision /\ row.task \in Tasks /\ row.id \in ir.nodes[row.task].refs
StoreOpens == IntegrityHolds \/ \E r \in DOMAIN states : CarriedOver(states[r])

\* Refuted under MCReplanned.cfg: the ADR keeps accepted work as FROZEN over a
\* replan, and the architecture keeps the old revision beside the new one; so the
\* store of a graph that was replanned can still be read (replan).
RevisionOpens == current > 1 => IntegrityHolds

\* "A second process can never receive a fresh PREPARED claim for the same key":
\* of all engines, restarts and revisions together each key is granted once, and
\* only in a revision that a human approved (prepare_external_mutation).
GrantedOnce == \A k \in StoreKey : answers[k] <= 1 /\ (receipts[k] # <<>> => ApprovedIn(k.revision))

\* "Either crash ordering has a valid resume point": wherever one engine at a
\* time was stopped, the latest checkpoint can be saved, and no revision was
\* left behind with a receipt that is uncertain (plan, replan, resume).
ReplanSafe ==
  (~together /\ DOMAIN points # {}) =>
    Saveable(LatestPoint) /\ \A k \in StoreKey : receipts[k] = <<"PREPARED">> => k.revision = current

\* What may be promoted went through every stage, on evidence that only grew,
\* was normal from CANDIDATE on, and is what the human approved (policy.py).
PolicyEarned ==
  policies # <<>> =>
    LET last == policies[Len(policies)] IN
    CanPromote(last, last.ref) =>
      /\ [i \in DOMAIN policies |-> policies[i].status] = <<"DRAFT", "SHADOW", "CANDIDATE", "APPROVED">>
      /\ \A i \in 1 .. 3 : policies[i].refs \subseteq last.refs /\ policies[i].sample <= last.sample
      /\ last.actor # Nobody /\ last.normal
================================================================================
