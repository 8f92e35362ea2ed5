--------------------------- MODULE GraphTelemetry ---------------------------
(***************************************************************************)
(* What a graph's exported history says of it.  The engine writes          *)
(* checkpoints; the store derives the events of gates and send_backs from  *)
(* the rows of two boundaries, and the projection makes the rows of the    *)
(* collector out of these events and the graph.  Nothing else remembers    *)
(* what a gate said once a send_back has taken its verdict away.           *)
(*                                                                         *)
(* Of a graph's rows what depends on its history is modelled: usage,       *)
(* identifiers, times and what the static graph says (width, critical      *)
(* path) are left out.                                                     *)
(***************************************************************************)
EXTENDS GraphEngine, SequencesExt

CONSTANT NoNode   \* what a send_back names when no gate is known (None)

ASSUME NoNodeDistinct == NoNode \notin Node

VARIABLES
  checkpoints,  \* rows of the boundaries gate_resolution and send_back
  judged        \* history: every verdict the engine has accepted of a gate

telemetryVars == << checkpoints, judged >>

BoundaryRow(boundary) == << [boundary |-> boundary, ir |-> ckpt'] >>

GateResolved(n) ==
  \E output \in Output, verdict \in Outcome, amount \in Amount \cup {Unknown} :
    RecordGateResult(n, output, verdict, amount)

(* resume writes one row for all the send_backs it recovers.                *)
SentBack ==
  \/ \E n \in Node : SendBackApplied(n)
  \/ Resume /\ PendingSources(ckpt) # {}

TelemetryInit == Init /\ checkpoints = << >> /\ judged = {}

TelemetryNext ==
  /\ Next
  /\ LET resolved == {n \in Node : GateResolved(n)} IN
     /\ checkpoints' = checkpoints \o (IF resolved # {} THEN BoundaryRow("gate_resolution")
                                       ELSE IF SentBack THEN BoundaryRow("send_back")
                                       ELSE << >>)
     /\ judged' = judged \cup {[node |-> n, attempt |-> snap.attempt[n],
                                 gate |-> snap'.verdict[n]] : n \in resolved}

TelemetrySpec == TelemetryInit /\ [][TelemetryNext]_<<vars, telemetryVars>>
-----------------------------------------------------------------------------
(* The events of the history, from the checkpoints in their order.          *)

Signature(ir, n) == << n, ir.attempt[n], ir.verdict[n] >>

Resolved(ir) ==
  {n \in Node : /\ NodeType[n] = "GATE" /\ ir.status[n] \in Done
                /\ ir.attempt[n] >= 1 /\ ir.verdict[n] \in GateResult}

(* Faulty variant of NewGates: every resolved gate is told at each gate.    *)
NewGatesAgain(seen, ir) == Resolved(ir)

NewGates(seen, ir) == {n \in Resolved(ir) : Signature(ir, n) \notin seen}

GateEvent(ir, n) ==
  [type |-> "gate", node |-> n, status |-> ir.status[n], gate |-> ir.verdict[n],
   attempt |-> ir.attempt[n], affected |-> 1]

(* Statuses a send_back event carries as they are.                          *)
SendBackStatus(ir) == IF ir.gstatus = "COMPILED" THEN "RUNNING" ELSE ir.gstatus

Affected(before, ir) ==
  {n \in Node : before = NoGraph \/ before.status[n] # ir.status[n]}

SendBackEvent(told, ir) ==
  [type |-> "send_back",
   node |-> IF told.gate = << >> THEN NoNode ELSE Last(told.gate).node,
   status |-> SendBackStatus(ir), gate |-> "NONE",
   attempt |-> IF told.gate = << >> THEN 0 ELSE Last(told.gate).attempt,
   affected |-> Cardinality(Affected(told.before, ir))]

(* The members of S, each in the place that those before it leave it.       *)
InOrder(S, Earlier(_, _)) ==
  [i \in 1 .. Cardinality(S) |->
     CHOOSE x \in S : Cardinality({y \in S : Earlier(y, x)}) = i - 1]

InIdOrder(S) == InOrder(S, LAMBDA m, n : Rank[m] < Rank[n])

Tell(told, row) ==
  IF row.boundary = "send_back"
  THEN [events |-> Append(told.events, SendBackEvent(told, row.ir)),
        seen |-> told.seen, gate |-> << >>, before |-> NoGraph]
  ELSE LET gates == InIdOrder(NewGates(told.seen, row.ir))
           events == [i \in DOMAIN gates |-> GateEvent(row.ir, gates[i])]
       IN  IF gates = << >> THEN told
           ELSE [events |-> told.events \o events,
                 seen |-> told.seen \cup {Signature(row.ir, n) : n \in ToSet(gates)},
                 gate |-> << Last(events) >>,
                 before |-> row.ir]

(* gate is the gate a send_back is put down to, the last one resolved since *)
(* the last send_back, and before the graph as it left it.                  *)
ToldNothing == [events |-> << >>, seen |-> {}, gate |-> << >>, before |-> NoGraph]

Told(rows) == FoldLeft(Tell, ToldNothing, rows)

TransitionEvents(rows) == Told(rows).events
-----------------------------------------------------------------------------
(* The rows of the projection.                                              *)

EventRow(type, status, n, attempt, affected) ==
  [type |-> type, node |-> n, status |-> status, gate |-> "NONE",
   attempt |-> attempt, affected |-> affected]

(* Any other event makes the projection raise: nothing is exported.         *)
Projectable(e) ==
  /\ e.type \in {"gate", "send_back"}
  /\ e.node \in Node \cup {NoNode}
  /\ e.status \in NodeStatus
  /\ e.gate \in IF e.type = "gate" THEN GateResult ELSE {"NONE"}

(* The dependency edges by their ends, one with a verdict after a plain one. *)
TypeRank == [plain |-> 1, gate_fail |-> 2, gate_pass |-> 3]
EdgeOrder ==
  InOrder(Edge, LAMBDA d, e :
    \/ Rank[d.from] < Rank[e.from]
    \/ /\ d.from = e.from
       /\ \/ Rank[d.to] < Rank[e.to]
          \/ d.to = e.to /\ TypeRank[d.type] < TypeRank[e.type])

DependencyEvents(g) ==
  [i \in 1 .. Cardinality(Edge) |->
     EventRow("dependency", g.status[EdgeOrder[i].to], NoNode, 0, 0)]

NodeEvents(g) ==
  [i \in 1 .. Cardinality(Node) |->
     LET n == InIdOrder(Node)[i]
     IN  EventRow("node_transition", g.status[n], n, g.attempt[n], 1)]

CheckpointEvent(g) ==
  EventRow("checkpoint", IF g.gstatus = "ACCEPTED" THEN "ACCEPTED" ELSE "RUNNING",
           NoNode, 0, 0)

(* A row's place is its sequence number.                                    *)
GraphEvents(g, events) ==
  DependencyEvents(g) \o NodeEvents(g) \o events \o << CheckpointEvent(g) >>

NodesIn(g, status) == Cardinality({n \in Node : g.status[n] = status})
GatesTold(events, gate) ==
  Cardinality({i \in DOMAIN events : events[i].type = "gate" /\ events[i].gate = gate})

RunRow(g, events) ==
  [status |-> g.gstatus,
   attempts |-> MapThenSumSet(LAMBDA n : g.attempt[n], Node),
   retries |-> MapThenSumSet(LAMBDA n : IF g.attempt[n] = 0 THEN 0
                                        ELSE g.attempt[n] - 1, Node),
   accepted |-> NodesIn(g, "ACCEPTED"), frozen |-> NodesIn(g, "FROZEN"),
   failed |-> NodesIn(g, "FAILED"), invalidated |-> NodesIn(g, "INVALIDATED"),
   send_backs |-> Cardinality({i \in DOMAIN events : events[i].type = "send_back"}),
   gate_pass |-> GatesTold(events, "PASS"),
   gate_fail |-> GatesTold(events, "FAIL"),
   gate_inconclusive |-> GatesTold(events, "INCONCLUSIVE")]

Export(told) == [run |-> RunRow(snap, told), events |-> GraphEvents(snap, told)]
-----------------------------------------------------------------------------
(* Properties.                                                              *)

TellsGate(e, n) == e.type = "gate" /\ e.node = n

TellsOf(events, r) ==
  {i \in DOMAIN events : /\ TellsGate(events[i], r.node)
                         /\ events[i].attempt = r.attempt /\ events[i].gate = r.gate}

(* The last that is told of gate n is its verdict in ir.                    *)
ToldLast(events, ir, n) ==
  \E i \in DOMAIN events :
    /\ TellsGate(events[i], n)
    /\ events[i].attempt = ir.attempt[n] /\ events[i].gate = ir.verdict[n]
    /\ \A j \in DOMAIN events : TellsGate(events[j], n) => j <= i

(* Nothing in the history makes the projection raise: every event can be    *)
(* projected, and there is a send_back event for each of their checkpoints. *)
HistoryExports ==
  LET told == TransitionEvents(checkpoints)
  IN  /\ \A i \in DOMAIN told : Projectable(told[i])
      /\ RunRow(snap, told).send_backs =
           Cardinality({i \in DOMAIN checkpoints : checkpoints[i].boundary = "send_back"})

(* Each verdict is told once, in the counts too, the present verdict of a   *)
(* gate is the last that is told of it, and a graph accepted ends on a PASS *)
(* of its global gate.                                                      *)
VerdictsTold ==
  LET told == TransitionEvents(checkpoints)
      run == Export(told).run
      events == Export(told).events
  IN  /\ \A r \in judged : Cardinality(TellsOf(events, r)) = 1
      /\ run.gate_pass + run.gate_fail + run.gate_inconclusive = Cardinality(judged)
      /\ \A n \in Resolved(snap) : ToldLast(events, snap, n)
      /\ snap.gstatus = "ACCEPTED" =>
           snap.verdict[GlobalGate] = "PASS" /\ ToldLast(events, snap, GlobalGate)

(* A send_back is told with a gate, and with more nodes than it failed: its *)
(* targets and the gate.  With a second gate that owes a send_back this may *)
(* break: the checkpoint of one makes the history forget the gate of the    *)
(* other, which a resume then tells without a gate (store.py:800).          *)
SendBacksTold ==
  LET events == Export(TransitionEvents(checkpoints)).events
  IN  \A i \in DOMAIN events : events[i].type = "send_back" =>
        /\ events[i].node # NoNode
        /\ \E n \in Node : /\ SendBackTargets(n) # {}
                           /\ events[i].affected > Cardinality(SendBackTargets(n))

(* The exported history of a graph is the one that happened, through        *)
(* send_backs that take verdicts away, crashes between a verdict and its    *)
(* send_back, and resumes.                                                  *)
HistoryTold == snap # NoGraph => HistoryExports /\ VerdictsTold /\ SendBacksTold
=============================================================================
