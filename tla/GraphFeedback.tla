---------------------------- MODULE GraphFeedback ----------------------------
(***************************************************************************)
(* The long return path: a verified constraint is added to a graph that is *)
(* being executed.  It takes back accepted work, changes what other nodes  *)
(* are computed from, attempts that run included, and is kept for good.    *)
(***************************************************************************)
EXTENDS GraphEngine

(* A constraint cites evidence that an earlier result has left in the       *)
(* ledger; a second one with the same id changes nothing.                   *)
Constrainable(c) ==
  /\ Planned
  /\ usage # {}
  /\ \A d \in snap.constraints : d.id # c.id

(* Faulty variant of AddVerifiedConstraint: no checkpoint is taken.         *)
AddConstraintInSnapshot(c) ==
  /\ Constrainable(c)
  /\ snap' = AddConstraint(snap, c)
  /\ UNCHANGED << ckpt, intent, progress, usage, approvals, prepared, committed,
                  claims, granted, pc, effects >>

(* add_verified_constraint, with commit_constraint as its transaction.      *)
AddVerifiedConstraint(c) ==
  /\ Constrainable(c)
  /\ CommitGraph(AddConstraint(snap, c))
  /\ UNCHANGED << intent, progress, usage, approvals, prepared, committed,
                  claims, granted, pc, effects >>

FeedbackNext == Next \/ \E c \in Constraint : AddVerifiedConstraint(c)

FeedbackSpec == Init /\ [][FeedbackNext]_vars
-----------------------------------------------------------------------------
(* A verified constraint is never lost: every crash and every resume that   *)
(* follows its commit finds it.                                             *)
ConstraintsPersist ==
  [][snap # NoGraph => snap.constraints \subseteq snap'.constraints]_vars

Finished(n) ==
  snap # NoGraph /\ snap.status[n] = "RUNNING" /\ snap'.status[n] \in Done

(* The result of an attempt that was under way when a constraint came in is *)
(* not accepted as if it had obeyed it ("remaining graphへ適用する際は      *)
(* constraint hashをinput hashへ含める"): what is accepted was claimed with *)
(* every constraint that applies to the node by now.                        *)
ResultObeysConstraints ==
  [][\A n \in Node : Finished(n) =>
       \E c \in claims :
         /\ c.node = n /\ c.attempt = snap.attempt[n]
         /\ c.input.constraints = {d \in snap.constraints : n \in d.appliesTo}]_vars

(* Together: a verified constraint is neither lost nor ignored.             *)
ConstraintsObeyed == ConstraintsPersist /\ ResultObeysConstraints

(* The engine leaves an attempt running whose inputs a constraint has taken *)
(* back (add_constraint touches successful nodes only), yet none of its     *)
(* results is accepted before those inputs stand again: only the claimed    *)
(* input protects it.  A MERGE may be accepted on a skipped dependency that *)
(* a constraint took back; mark_ready then skips that dependency again.     *)
ResultStands ==
  [][\A n \in Node : Finished(n) =>
       \A e \in Edge : e.to = n =>
         EdgeActive(snap, e) /\ PredecessorReady(snap, e.from, n)]_vars
-----------------------------------------------------------------------------
(* What the repository says of the program and the program does not do.     *)

(* "node stateが`PENDING / INVALIDATED / READY`で" is the first condition    *)
(* for a node to be ready (ROUTECRAFT-0.7-ARCHITECTURE.ja.md:267): work that *)
(* a constraint took back is offered by `ready`, and what is offered can be  *)
(* started.                                                                 *)
OfferedStartable ==
  Planned => \A n \in ReadyNodes(snap, MaxParallelism) :
    NodeType[n] # "HUMAN_APPROVAL" => snap.status[n] = "READY"
=============================================================================
