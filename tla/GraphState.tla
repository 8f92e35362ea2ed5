------------------------------ MODULE GraphState ------------------------------
(***************************************************************************)
(* The pure transitions of one graph revision (state.py) and the           *)
(* scheduler they use (scheduler.py).  A graph is a record of its status,  *)
(* one function per mutable node field, and the verified constraints it    *)
(* carries.  The engine and the store decide when a transition happens and *)
(* what of it survives a crash; nothing here is a step of its own.         *)
(***************************************************************************)
EXTENDS GraphTopology

CONSTANTS
  Output,       \* what a node may produce (output_hash)
  NoOutput,     \* output_hash = null
  Constraint    \* verified constraints, records [id, appliesTo, invalidates]

ASSUME OutputsDistinct == NoOutput \notin Output

ASSUME ConstraintsTyped ==
  \A c \in Constraint : c.appliesTo \subseteq Node /\ c.invalidates \subseteq Node

NodeStatus == {"PENDING", "READY", "RUNNING", "ACCEPTED", "FROZEN", "FAILED",
               "INVALIDATED", "BLOCKED", "SKIPPED", "CANCELLED"}
Done == {"ACCEPTED", "FROZEN"}
Success == Done \cup {"SKIPPED"}
Waiting == {"PENDING", "READY", "INVALIDATED", "BLOCKED"}
Failable == {"RUNNING", "READY"} \cup Done
GraphStatus == {"COMPILED", "RUNNING", "FAILED", "ACCEPTED", "CANCELLED"}
GateResult == {"PASS", "FAIL", "INCONCLUSIVE"}
Verdict == GateResult \cup {"NONE"}

(* No row for the graph id yet; what a graph is otherwise.                  *)
NoGraph == [gstatus |-> "NONE"]

GraphOK(g) ==
  /\ DOMAIN g = {"gstatus", "status", "attempt", "verdict", "out", "input", "constraints"}
  /\ g.gstatus \in GraphStatus
  /\ g.status \in [Node -> NodeStatus]
  /\ g.attempt \in [Node -> Nat]
  /\ \A n \in Node : g.attempt[n] <= MaxAttempts[n]
  /\ g.verdict \in [Node -> Verdict]
  /\ \A n \in Node : NodeType[n] # "GATE" => g.verdict[n] = "NONE"
  /\ g.out \in [Node -> Output \cup {NoOutput}]
  /\ DOMAIN g.input = Node
  /\ g.constraints \subseteq Constraint

With(g, S, status) == [n \in Node |-> IF n \in S THEN status ELSE g.status[n]]

(* Nodes of S lose the result of an earlier attempt.                        *)
Cleared(g, S) ==
  [g EXCEPT !.out = [n \in Node |-> IF n \in S THEN NoOutput ELSE g.out[n]],
            !.verdict = [n \in Node |-> IF n \in S THEN "NONE" ELSE g.verdict[n]]]

-----------------------------------------------------------------------------
(* Edge conditions and the ready set.                                       *)

GateVerdict(g, n) ==
  IF NodeType[n] = "GATE" THEN g.verdict[n]
  ELSE IF g.status[n] \in Done THEN "PASS" ELSE "NONE"

(* An inconclusive evaluation routes as a failed one.                       *)
EffectiveVerdict(g, n) ==
  IF GateVerdict(g, n) = "INCONCLUSIVE" THEN "FAIL" ELSE GateVerdict(g, n)

Selects(e) == IF e.type = "gate_pass" THEN "PASS" ELSE "FAIL"

EdgeActive(g, e) ==
  e.type = "plain" \/ EffectiveVerdict(g, e.from) = Selects(e)

EdgeInactive(g, e) ==
  /\ e.type # "plain"
  /\ EffectiveVerdict(g, e.from) \notin {"NONE", Selects(e)}

InactiveTargets(g) == {e.to : e \in {d \in Edge : EdgeInactive(g, d)}}

Running(g) == {n \in Node : g.status[n] = "RUNNING"}

PredecessorReady(g, p, n) ==
  g.status[p] \in Done \/ (NodeType[n] = "MERGE" /\ g.status[p] = "SKIPPED")

InputsReady(g, n) ==
  \A e \in Edge : e.to = n => EdgeActive(g, e) /\ PredecessorReady(g, e.from, n)

(* Faulty variants of Candidate: without the attempt limit, and without the *)
(* locks that running nodes hold.                                           *)
CandidateUnbounded(g, n) ==
  /\ g.status[n] \in {"PENDING", "INVALIDATED", "READY"}
  /\ InputsReady(g, n)
  /\ \A m \in Running(g) : ~Conflict(m, n)

CandidateUnlocked(g, n) ==
  /\ g.status[n] \in {"PENDING", "INVALIDATED", "READY"}
  /\ g.attempt[n] < MaxAttempts[n]
  /\ InputsReady(g, n)

Candidate(g, n) ==
  /\ g.status[n] \in {"PENDING", "INVALIDATED", "READY"}
  /\ g.attempt[n] < MaxAttempts[n]
  /\ InputsReady(g, n)
  /\ \A m \in Running(g) : ~Conflict(m, n)

(* The greedy selection: in scheduling order, a candidate is taken while a  *)
(* slot is left and it conflicts with none taken before it.                 *)
ReadyNodes(g, slots) ==
  LET available == slots - Cardinality(Running(g))
      taken[n \in Node] ==
        LET earlier == {m \in Node : Candidate(g, m) /\ Before(m, n) /\ taken[m]}
        IN  /\ Cardinality(earlier) < available
            /\ \A m \in earlier : ~Conflict(m, n)
  IN  IF available <= 0 THEN {} ELSE {n \in Node : Candidate(g, n) /\ taken[n]}

-----------------------------------------------------------------------------
(* What an attempt is computed from: the upstream results and verdicts, and *)
(* the constraints that apply (input_hash).                                 *)
InputOf(g, n) ==
  [upstream |-> [d \in Deps[n] |-> << g.out[d], g.verdict[d] >>],
   constraints |-> {c \in g.constraints : n \in c.appliesTo}]

RecomputeInputs(g) == [g EXCEPT !.input = [n \in Node |-> InputOf(g, n)]]

(* Waiting nodes that a resolved, unselected branch makes impossible: the   *)
(* targets of inactive edges and, short of a MERGE, whatever depends on a   *)
(* skipped node.                                                            *)
Unselected(g) ==
  LET skip[n \in Node] ==
        /\ g.status[n] \in Waiting
        /\ \/ n \in InactiveTargets(g)
           \/ /\ NodeType[n] # "MERGE"
              /\ \E p \in Deps[n] : g.status[p] = "SKIPPED" \/ skip[p]
  IN  {n \in Node : g.status[n] \in Waiting /\ skip[n]}

SkipUnselected(g) ==
  [Cleared(g, Unselected(g)) EXCEPT !.status = With(g, Unselected(g), "SKIPPED")]

(* READY is derived: stale claims are dropped before the ready set is taken. *)
Demoted(g) ==
  [g EXCEPT !.status = With(g, {n \in Node : g.status[n] = "READY"}, "PENDING")]

(* Faulty variant of MarkReady: the inputs are computed once, by plan.      *)
MarkReadyStale(g, slots) ==
  LET planned == \E n \in Node : g.attempt[n] > 0
      d == Demoted(SkipUnselected(IF planned THEN g ELSE RecomputeInputs(g)))
  IN  [d EXCEPT !.status = With(d, ReadyNodes(d, slots), "READY")]

(* Faulty variant of MarkReady: the claims just made are dropped.           *)
MarkReadySwapped(g, slots) ==
  LET s == SkipUnselected(RecomputeInputs(g))
  IN  Demoted([s EXCEPT !.status = With(s, ReadyNodes(s, slots), "READY")])

MarkReady(g, slots) ==
  LET d == Demoted(SkipUnselected(RecomputeInputs(g)))
  IN  [d EXCEPT !.status = With(d, ReadyNodes(d, slots), "READY")]

-----------------------------------------------------------------------------
(* Node transitions.                                                        *)

StartNode(g, n) ==
  [g EXCEPT !.status[n] = "RUNNING", !.attempt[n] = @ + 1, !.gstatus = "RUNNING"]

(* accept_node refreshes the ready set with the default parallelism, not    *)
(* with the configured one.                                                 *)
DefaultParallelism == 3

GloballyAccepted(g) ==
  /\ g.status[GlobalGate] = "ACCEPTED"
  /\ g.verdict[GlobalGate] = "PASS"
  /\ \A n \in Node : g.status[n] \in Success

AcceptNode(g, n, output, verdict) ==
  LET a == [g EXCEPT !.status[n] = "ACCEPTED", !.out[n] = output,
                     !.verdict[n] = IF NodeType[n] = "GATE" THEN verdict ELSE @]
      m == MarkReady(a, DefaultParallelism)
  IN  [m EXCEPT !.gstatus = IF GloballyAccepted(m) THEN "ACCEPTED" ELSE @]

(* A failed evaluation is still a completed gate: the verdict routes.       *)
ResolveGate(g, n, output, verdict) ==
  [AcceptNode(g, n, output, verdict) EXCEPT
     !.gstatus = IF verdict = "PASS" THEN @
                 ELSE IF n = GlobalGate THEN "FAILED" ELSE "RUNNING"]

(* Faulty variants of FailAll: a running node downstream goes on, and the   *)
(* status of the graph is left as it was.                                   *)
FailAllBelowRunning(g, S) ==
  LET lost == {n \in DownstreamOf(S) \ S : g.status[n] \in Success \cup {"READY"}}
  IN  [Cleared(g, lost) EXCEPT
         !.status = [n \in Node |-> IF n \in S THEN "FAILED"
                                    ELSE IF n \in lost THEN "INVALIDATED"
                                    ELSE IF g.status[n] = "ACCEPTED" THEN "FROZEN"
                                    ELSE g.status[n]],
         !.gstatus = "FAILED"]

FailAllQuietly(g, S) ==
  LET lost == {n \in DownstreamOf(S) \ S :
                 g.status[n] \in Success \cup {"READY", "RUNNING"}}
  IN  [Cleared(g, lost) EXCEPT
         !.status = [n \in Node |-> IF n \in S THEN "FAILED"
                                    ELSE IF n \in lost THEN "INVALIDATED"
                                    ELSE IF g.status[n] = "ACCEPTED" THEN "FROZEN"
                                    ELSE g.status[n]]]

(* fail_node for each node of S, one after the other: S fails, what is      *)
(* downstream of S loses its result, other accepted work is frozen.         *)
FailAll(g, S) ==
  LET lost == {n \in DownstreamOf(S) \ S :
                 g.status[n] \in Success \cup {"READY", "RUNNING"}}
  IN  [Cleared(g, lost) EXCEPT
         !.status = [n \in Node |-> IF n \in S THEN "FAILED"
                                    ELSE IF n \in lost THEN "INVALIDATED"
                                    ELSE IF g.status[n] = "ACCEPTED" THEN "FROZEN"
                                    ELSE g.status[n]],
         !.gstatus = "FAILED"]

FailNode(g, n) == FailAll(g, {n})

RetryNode(g, n) == [g EXCEPT !.status[n] = "READY", !.gstatus = "RUNNING"]

CancelGraph(g) ==
  [g EXCEPT !.gstatus = "CANCELLED",
            !.status = With(g, {n \in Node : g.status[n] \in Waiting \cup {"RUNNING"}},
                            "CANCELLED")]

(* Faulty variant of AddConstraint: the inputs are left to the next refresh. *)
AddConstraintStaleInputs(g, c) ==
  LET c1 == [g EXCEPT !.constraints = @ \cup {c}]
      hit == {n \in c.invalidates \cup DownstreamOf(c.invalidates) :
                g.status[n] \in Success}
  IN  [Cleared(c1, hit) EXCEPT !.status = With(g, hit, "INVALIDATED")]

(* A verified constraint takes back accepted work; inputs are recomputed,   *)
(* the ready set is not.                                                    *)
AddConstraint(g, c) ==
  LET c1 == [g EXCEPT !.constraints = @ \cup {c}]
      hit == {n \in c.invalidates \cup DownstreamOf(c.invalidates) :
                g.status[n] \in Success}
  IN  RecomputeInputs([Cleared(c1, hit) EXCEPT !.status = With(g, hit, "INVALIDATED")])

-----------------------------------------------------------------------------
(* Bounded send_back from a completed gate whose verdict is not PASS.       *)

PendingSendBack(g, n) ==
  /\ NodeType[n] = "GATE"
  /\ SendBackTargets(n) # {}
  /\ g.status[n] \in Done
  /\ g.verdict[n] \in {"FAIL", "INCONCLUSIVE"}

SendBackExhausted(g, n) ==
  \E b \in SendBack : b.from = n /\ g.attempt[n] > b.max

(* Each target is failed in turn, in the order of the node ids.  A target   *)
(* that is not failable by then stops the whole transition.                 *)
SendBackRetryable(g, n) ==
  \A t \in SendBackTargets(n) :
    /\ g.status[t] \in Failable
    /\ \A u \in SendBackTargets(n) : Rank[u] < Rank[t] => t \notin Downstream[u]

ApplySendBack(g, n) == [FailAll(g, SendBackTargets(n)) EXCEPT !.gstatus = "RUNNING"]

(* The pending send_backs of a resumed graph are taken in the order of the  *)
(* node ids; one whose gate an earlier one invalidated is dropped.          *)
PendingSources(g) ==
  LET kept[n \in Node] ==
        /\ PendingSendBack(g, n)
        /\ \A m \in Node :
             Rank[m] < Rank[n] /\ kept[m] =>
               n \notin SendBackTargets(m) \cup DownstreamOf(SendBackTargets(m))
  IN  {n \in Node : kept[n]}

TargetsOf(S) == UNION {SendBackTargets(n) : n \in S}

(* The graph the n-th send_back finds, after those before it.               *)
BeforeSource(g, n) ==
  FailAll(g, TargetsOf({m \in PendingSources(g) : Rank[m] < Rank[n]}))

Stuck(g, n) ==
  SendBackExhausted(g, n) \/ ~SendBackRetryable(BeforeSource(g, n), n)

StuckSources(g) == {n \in PendingSources(g) : Stuck(g, n)}

FirstStuck(g) ==
  CHOOSE n \in StuckSources(g) : \A m \in StuckSources(g) : Rank[n] <= Rank[m]

(* Faulty variant of RecoverSendBacks: the checkpoint is taken as it is.    *)
RecoverNothing(g) == g

RecoverSendBacks(g) ==
  IF PendingSources(g) = {} THEN g
  ELSE [FailAll(g, TargetsOf(PendingSources(g))) EXCEPT !.gstatus = "RUNNING"]
-----------------------------------------------------------------------------
(* What the graphs of a run keep.                                           *)

(* A node that runs or has been accepted stands on its inputs: every        *)
(* incoming edge is selected by the present verdict of its source, and its  *)
(* source is accepted, or skipped when the node is a MERGE.                 *)
EdgesHold(g) ==
  \A e \in Edge : g.status[e.to] \in Done \cup {"RUNNING"} =>
    EdgeActive(g, e) /\ PredecessorReady(g, e.from, e.to)

(* Concurrent attempts fit the slots and the locks.                         *)
Exclusive(g, slots) ==
  /\ Cardinality(Running(g)) <= slots
  /\ \A m, n \in Running(g) : m # n => ~Conflict(m, n)

AcceptedSound(g) == g.gstatus = "ACCEPTED" => GloballyAccepted(g)
=============================================================================
