--------------------------- MODULE GraphEngineProofs ---------------------------
(***************************************************************************)
(* What every state of the engine keeps, for every graph the compiler      *)
(* accepts, every parallelism, budget and retry policy, and any number of  *)
(* operations, crashes and resumes.                                        *)
(*                                                                         *)
(* First the transitions of GraphState: what each does to the fields of a  *)
(* graph, then that it keeps a graph well-formed, its edges held, its      *)
(* running nodes exclusive and its acceptance sound.  Then the engine: its *)
(* inductive invariant says that the snapshot and the checkpoint are sound *)
(* graphs and that the rest of an operation still finds what its first     *)
(* transaction had checked.  Last the history that GraphTelemetry exports  *)
(* of it.                                                                  *)
(***************************************************************************)
EXTENDS GraphFeedback, GraphTelemetry, FiniteSetTheorems, SequenceTheorems, SumTheorems,
        TLAPS

LEMMA ClearedFields ==
  ASSUME NEW g, GraphOK(g), NEW S
  PROVE  /\ GraphOK(Cleared(g, S))
         /\ Cleared(g, S).gstatus = g.gstatus
         /\ Cleared(g, S).status = g.status
         /\ Cleared(g, S).attempt = g.attempt
         /\ \A n \in Node : n \notin S => Cleared(g, S).verdict[n] = g.verdict[n]
         /\ Cleared(g, S).input = g.input
         /\ Cleared(g, S).constraints = g.constraints
BY DEF Cleared, GraphOK, Verdict

LEMMA StatusUpdate ==
  ASSUME NEW g, GraphOK(g), NEW f \in [Node -> NodeStatus]
  PROVE  /\ GraphOK([g EXCEPT !.status = f])
         /\ [g EXCEPT !.status = f].gstatus = g.gstatus
         /\ [g EXCEPT !.status = f].status = f
         /\ [g EXCEPT !.status = f].attempt = g.attempt
         /\ [g EXCEPT !.status = f].verdict = g.verdict
BY DEF GraphOK

(* Whatever is settled stays as it is; a waiting node waits or is skipped.  *)
Settled(g, m) ==
  /\ m.gstatus = g.gstatus
  /\ m.attempt = g.attempt
  /\ \A n \in Node : g.status[n] \notin Waiting =>
       m.status[n] = g.status[n] /\ m.verdict[n] = g.verdict[n]
  /\ \A n \in Node : g.status[n] \in Waiting => m.status[n] \in Waiting \cup {"SKIPPED"}

LEMMA SettledTransitive ==
  ASSUME NEW g, NEW h, NEW m, Settled(g, h), Settled(h, m)
  PROVE  Settled(g, m)
BY DEF Settled, Waiting

LEMMA RecomputeInputsSettled ==
  ASSUME NEW g, GraphOK(g)
  PROVE  GraphOK(RecomputeInputs(g)) /\ Settled(g, RecomputeInputs(g))
BY DEF GraphOK, RecomputeInputs, Settled

LEMMA SkipUnselectedSettled ==
  ASSUME NEW g, GraphOK(g)
  PROVE  GraphOK(SkipUnselected(g)) /\ Settled(g, SkipUnselected(g))
<1>1. PICK U : U = Unselected(g)
  OBVIOUS
<1>2. \A n \in U : n \in Node /\ g.status[n] \in Waiting
  BY <1>1 DEF Unselected
<1>3. PICK c : c = Cleared(g, U)
  OBVIOUS
<1>4. SkipUnselected(g) = [c EXCEPT !.status = With(g, U, "SKIPPED")]
  BY <1>1, <1>3 DEF SkipUnselected
<1>5. With(g, U, "SKIPPED") \in [Node -> NodeStatus]
  BY DEF With, GraphOK, NodeStatus
<1>6. /\ GraphOK(c)
      /\ c.gstatus = g.gstatus
      /\ c.attempt = g.attempt
      /\ \A n \in Node : n \notin U => c.verdict[n] = g.verdict[n]
  BY <1>3, ClearedFields
<1>7. GraphOK(SkipUnselected(g))
  BY <1>4, <1>5, <1>6, StatusUpdate
<1>8. Settled(g, SkipUnselected(g))
  BY <1>2, <1>4, <1>5, <1>6, StatusUpdate DEF Settled, Waiting, With
<1> QED BY <1>7, <1>8

(* Giving waiting nodes another waiting status.                             *)
LEMMA RewaitSettled ==
  ASSUME NEW g, GraphOK(g), NEW S, NEW status \in Waiting,
         \A n \in S : n \in Node /\ g.status[n] \in Waiting
  PROVE  /\ GraphOK([g EXCEPT !.status = With(g, S, status)])
         /\ Settled(g, [g EXCEPT !.status = With(g, S, status)])
<1>1. With(g, S, status) \in [Node -> NodeStatus]
  BY DEF With, GraphOK, NodeStatus, Waiting
<1>2. GraphOK([g EXCEPT !.status = With(g, S, status)])
  BY <1>1 DEF GraphOK
<1>3. Settled(g, [g EXCEPT !.status = With(g, S, status)])
  BY DEF GraphOK, Settled, Waiting, With
<1> QED BY <1>2, <1>3

(* mark_ready settles.                                                      *)
LEMMA MarkReadySettled ==
  ASSUME NEW g, GraphOK(g), NEW slots
  PROVE  GraphOK(MarkReady(g, slots)) /\ Settled(g, MarkReady(g, slots))
<1>1. PICK r : r = RecomputeInputs(g)
  OBVIOUS
<1>2. PICK s : s = SkipUnselected(r)
  OBVIOUS
<1>3. PICK d : d = Demoted(s)
  OBVIOUS
<1>4. GraphOK(r) /\ Settled(g, r)
  BY <1>1, RecomputeInputsSettled
<1>5. GraphOK(s) /\ Settled(r, s)
  BY <1>2, <1>4, SkipUnselectedSettled
<1>6. GraphOK(d) /\ Settled(s, d)
  BY <1>3, <1>5, RewaitSettled DEF Demoted, Waiting
<1>10. PICK ready : ready = ReadyNodes(d, slots)
  OBVIOUS
<1>7. \A n \in ready : n \in Node /\ d.status[n] \in Waiting
  BY <1>10 DEF ReadyNodes, Candidate, Waiting
<1>8. MarkReady(g, slots) = [d EXCEPT !.status = With(d, ready, "READY")]
  BY <1>1, <1>2, <1>3, <1>10 DEF MarkReady
<1>11. "READY" \in Waiting
  BY DEF Waiting
<1>12. /\ GraphOK([d EXCEPT !.status = With(d, ready, "READY")])
      /\ Settled(d, [d EXCEPT !.status = With(d, ready, "READY")])
  BY <1>6, <1>7, <1>11, RewaitSettled
<1>9. GraphOK(MarkReady(g, slots)) /\ Settled(d, MarkReady(g, slots))
  BY <1>8, <1>12
<1> QED BY <1>4, <1>5, <1>6, <1>9, SettledTransitive

LEMMA StartNodeFields ==
  ASSUME NEW g, GraphOK(g), NEW n \in Node, g.attempt[n] < MaxAttempts[n]
  PROVE  /\ GraphOK(StartNode(g, n))
         /\ StartNode(g, n).gstatus = "RUNNING"
         /\ StartNode(g, n).status = [g.status EXCEPT ![n] = "RUNNING"]
         /\ StartNode(g, n).attempt = [g.attempt EXCEPT ![n] = @ + 1]
         /\ StartNode(g, n).verdict = g.verdict
         /\ StartNode(g, n).out = g.out
         /\ StartNode(g, n).input = g.input
         /\ StartNode(g, n).constraints = g.constraints
<1>1. /\ StartNode(g, n).gstatus = "RUNNING"
      /\ StartNode(g, n).status = [g.status EXCEPT ![n] = "RUNNING"]
      /\ StartNode(g, n).attempt = [g.attempt EXCEPT ![n] = @ + 1]
      /\ StartNode(g, n).verdict = g.verdict
      /\ StartNode(g, n).out = g.out
      /\ StartNode(g, n).input = g.input
      /\ StartNode(g, n).constraints = g.constraints
      /\ DOMAIN StartNode(g, n) = DOMAIN g
  BY DEF StartNode, GraphOK
<1>2. [g.status EXCEPT ![n] = "RUNNING"] \in [Node -> NodeStatus]
  BY DEF GraphOK, NodeStatus
<1>3. /\ [g.attempt EXCEPT ![n] = @ + 1] \in [Node -> Nat]
      /\ \A k \in Node : [g.attempt EXCEPT ![n] = @ + 1][k] <= MaxAttempts[k]
  BY Compiled DEF ContractsTyped, GraphOK
<1> QED BY <1>1, <1>2, <1>3 DEF GraphOK, GraphStatus

(* A result is recorded and the ready set refreshed: the node is accepted,  *)
(* whatever else was settled stays.                                         *)
Accepted(g, m, n) ==
  /\ m.attempt = g.attempt
  /\ m.status[n] = "ACCEPTED"
  /\ \A k \in Node \ {n} : g.status[k] \notin Waiting =>
       m.status[k] = g.status[k] /\ m.verdict[k] = g.verdict[k]
  /\ \A k \in Node \ {n} : g.status[k] \in Waiting =>
       m.status[k] \in Waiting \cup {"SKIPPED"}

LEMMA AcceptNodeFields ==
  ASSUME NEW g, GraphOK(g), NEW n \in Node, NEW output \in Output,
         NEW verdict \in Verdict
  PROVE  /\ GraphOK(AcceptNode(g, n, output, verdict))
         /\ Accepted(g, AcceptNode(g, n, output, verdict), n)
         /\ AcceptNode(g, n, output, verdict).gstatus \in {"ACCEPTED", g.gstatus}
         /\ AcceptNode(g, n, output, verdict).gstatus = "ACCEPTED" =>
              \/ g.gstatus = "ACCEPTED"
              \/ GloballyAccepted(AcceptNode(g, n, output, verdict))
<1>1. PICK a : a = [g EXCEPT !.status[n] = "ACCEPTED", !.out[n] = output,
                     !.verdict[n] = IF NodeType[n] = "GATE" THEN verdict ELSE @]
  OBVIOUS
<1>2. PICK m : m = MarkReady(a, DefaultParallelism)
  OBVIOUS
<1>3. PICK r : r = AcceptNode(g, n, output, verdict)
  OBVIOUS
<1>4. r = [m EXCEPT !.gstatus = IF GloballyAccepted(m) THEN "ACCEPTED" ELSE @]
  BY <1>1, <1>2, <1>3 DEF AcceptNode
<1>5. /\ DOMAIN a = DOMAIN g
      /\ a.gstatus = g.gstatus
      /\ a.status = [g.status EXCEPT ![n] = "ACCEPTED"]
      /\ a.attempt = g.attempt
      /\ a.verdict = [g.verdict EXCEPT ![n] = IF NodeType[n] = "GATE" THEN verdict ELSE @]
      /\ a.out = [g.out EXCEPT ![n] = output]
      /\ a.input = g.input
      /\ a.constraints = g.constraints
  BY <1>1 DEF GraphOK
<1>6. GraphOK(a)
  <2>1. a.status \in [Node -> NodeStatus]
    BY <1>5 DEF GraphOK, NodeStatus
  <2>2. a.verdict \in [Node -> Verdict]
    BY <1>5 DEF GraphOK
  <2>3. \A k \in Node : NodeType[k] # "GATE" => a.verdict[k] = "NONE"
    BY <1>5 DEF GraphOK
  <2>4. a.out \in [Node -> Output \cup {NoOutput}]
    BY <1>5 DEF GraphOK
  <2> QED BY <1>5, <2>1, <2>2, <2>3, <2>4 DEF GraphOK
<1>7. GraphOK(m) /\ Settled(a, m)
  BY <1>2, <1>6, MarkReadySettled
<1>8. /\ DOMAIN r = DOMAIN m
      /\ r.gstatus = IF GloballyAccepted(m) THEN "ACCEPTED" ELSE m.gstatus
      /\ r.status = m.status /\ r.attempt = m.attempt /\ r.verdict = m.verdict
      /\ r.out = m.out /\ r.input = m.input /\ r.constraints = m.constraints
  BY <1>4, <1>7 DEF GraphOK
<1>9. GraphOK(r)
  BY <1>7, <1>8 DEF GraphOK, GraphStatus
<1>10. m.attempt = g.attempt /\ m.gstatus = g.gstatus
  BY <1>5, <1>7 DEF Settled
<1>11. m.status[n] = "ACCEPTED"
  BY <1>5, <1>7 DEF Settled, Waiting, GraphOK
<1>12. \A k \in Node \ {n} : a.status[k] = g.status[k] /\ a.verdict[k] = g.verdict[k]
  BY <1>5 DEF GraphOK
<1>13. Accepted(g, r, n)
  BY <1>7, <1>8, <1>10, <1>11, <1>12 DEF Settled, Accepted
<1>14. GloballyAccepted(r) <=> GloballyAccepted(m)
  BY <1>8 DEF GloballyAccepted
<1> QED BY <1>3, <1>8, <1>9, <1>10, <1>13, <1>14

LEMMA GstatusUpdate ==
  ASSUME NEW g, GraphOK(g), NEW s \in GraphStatus
  PROVE  /\ GraphOK([g EXCEPT !.gstatus = s])
         /\ [g EXCEPT !.gstatus = s].gstatus = s
         /\ [g EXCEPT !.gstatus = s].status = g.status
         /\ [g EXCEPT !.gstatus = s].attempt = g.attempt
         /\ [g EXCEPT !.gstatus = s].verdict = g.verdict
BY DEF GraphOK

LEMMA ResolveGateFields ==
  ASSUME NEW g, GraphOK(g), NEW n \in Node, NEW output \in Output,
         NEW verdict \in GateResult
  PROVE  /\ GraphOK(ResolveGate(g, n, output, verdict))
         /\ Accepted(g, ResolveGate(g, n, output, verdict), n)
         /\ ResolveGate(g, n, output, verdict).gstatus = "ACCEPTED" =>
              \/ g.gstatus = "ACCEPTED"
              \/ GloballyAccepted(ResolveGate(g, n, output, verdict))
<1>1. PICK a : a = AcceptNode(g, n, output, verdict)
  OBVIOUS
<1>2. verdict \in Verdict
  BY DEF Verdict
<1>3. /\ GraphOK(a) /\ Accepted(g, a, n)
      /\ a.gstatus = "ACCEPTED" => g.gstatus = "ACCEPTED" \/ GloballyAccepted(a)
  BY <1>1, <1>2, AcceptNodeFields
<1>4. PICK s : s = IF verdict = "PASS" THEN a.gstatus
                   ELSE IF n = GlobalGate THEN "FAILED" ELSE "RUNNING"
  OBVIOUS
<1>5. s \in GraphStatus /\ (s = "ACCEPTED" => a.gstatus = "ACCEPTED")
  BY <1>3, <1>4 DEF GraphOK, GraphStatus
<1>6. ResolveGate(g, n, output, verdict) = [a EXCEPT !.gstatus = s]
  BY <1>1, <1>4 DEF ResolveGate
<1>7. PICK r : r = [a EXCEPT !.gstatus = s]
  OBVIOUS
<1>8. /\ GraphOK(r) /\ r.gstatus = s /\ r.status = a.status
      /\ r.attempt = a.attempt /\ r.verdict = a.verdict
  BY <1>3, <1>5, <1>7, GstatusUpdate
<1>9. Accepted(g, r, n) /\ (GloballyAccepted(r) <=> GloballyAccepted(a))
  BY <1>3, <1>8 DEF Accepted, GloballyAccepted
<1> QED BY <1>3, <1>5, <1>6, <1>7, <1>8, <1>9

(* S has failed and nothing downstream of S runs or is done; elsewhere only *)
(* ACCEPTED became FROZEN.                                                  *)
Failed(g, f, S) ==
  /\ f.attempt = g.attempt
  /\ \A n \in S : f.status[n] = "FAILED"
  /\ \A n \in DownstreamOf(S) : f.status[n] \notin Success \cup {"RUNNING"}
  /\ \A n \in Node \ (S \cup DownstreamOf(S)) :
       /\ f.status[n] = IF g.status[n] = "ACCEPTED" THEN "FROZEN" ELSE g.status[n]
       /\ f.verdict[n] = g.verdict[n]

LEMMA FailAllFields ==
  ASSUME NEW g, GraphOK(g), NEW S \in SUBSET Node
  PROVE  /\ GraphOK(FailAll(g, S))
         /\ FailAll(g, S).gstatus = "FAILED"
         /\ Failed(g, FailAll(g, S), S)
<1>1. PICK D : D = DownstreamOf(S)
  OBVIOUS
<1>2. D \subseteq Node
  BY <1>1 DEF DownstreamOf, Downstream
<1>3. PICK lost : lost = {n \in D \ S : g.status[n] \in Success \cup {"READY", "RUNNING"}}
  OBVIOUS
<1>4. PICK c : c = Cleared(g, lost)
  OBVIOUS
<1>5. PICK f : f = [n \in Node |-> IF n \in S THEN "FAILED"
                                  ELSE IF n \in lost THEN "INVALIDATED"
                                  ELSE IF g.status[n] = "ACCEPTED" THEN "FROZEN"
                                  ELSE g.status[n]]
  OBVIOUS
<1>6. FailAll(g, S) = [c EXCEPT !.status = f, !.gstatus = "FAILED"]
  BY <1>1, <1>3, <1>4, <1>5 DEF FailAll
<1>7. PICK r : r = [c EXCEPT !.status = f, !.gstatus = "FAILED"]
  OBVIOUS
<1>8. /\ GraphOK(c) /\ c.attempt = g.attempt
      /\ \A n \in Node : n \notin lost => c.verdict[n] = g.verdict[n]
  BY <1>4, ClearedFields
<1>9. /\ DOMAIN r = DOMAIN c /\ r.gstatus = "FAILED" /\ r.status = f
      /\ r.attempt = c.attempt /\ r.verdict = c.verdict /\ r.out = c.out
      /\ r.input = c.input /\ r.constraints = c.constraints
  BY <1>7, <1>8 DEF GraphOK
<1>10. f \in [Node -> NodeStatus]
  BY <1>5 DEF GraphOK, NodeStatus
<1>11. GraphOK(r)
  BY <1>8, <1>9, <1>10 DEF GraphOK, GraphStatus
<1>12. \A n \in S : r.status[n] = "FAILED"
  BY <1>5, <1>9
<1>13. \A n \in D : r.status[n] \notin Success \cup {"RUNNING"}
  BY <1>2, <1>3, <1>5, <1>9 DEF Success, Done
<1>14. \A n \in Node \ (S \cup D) :
         /\ r.status[n] = IF g.status[n] = "ACCEPTED" THEN "FROZEN" ELSE g.status[n]
         /\ r.verdict[n] = g.verdict[n]
  BY <1>3, <1>5, <1>8, <1>9
<1>15. Failed(g, r, S)
  BY <1>1, <1>8, <1>9, <1>12, <1>13, <1>14 DEF Failed
<1> QED BY <1>6, <1>7, <1>9, <1>11, <1>15

LEMMA ApplySendBackFields ==
  ASSUME NEW g, GraphOK(g), NEW S \in SUBSET Node
  PROVE  /\ GraphOK([FailAll(g, S) EXCEPT !.gstatus = "RUNNING"])
         /\ [FailAll(g, S) EXCEPT !.gstatus = "RUNNING"].gstatus = "RUNNING"
         /\ Failed(g, [FailAll(g, S) EXCEPT !.gstatus = "RUNNING"], S)
<1>1. PICK f : f = FailAll(g, S)
  OBVIOUS
<1>2. GraphOK(f) /\ Failed(g, f, S)
  BY <1>1, FailAllFields
<1>3. PICK r : r = [f EXCEPT !.gstatus = "RUNNING"]
  OBVIOUS
<1>4. /\ GraphOK(r) /\ r.gstatus = "RUNNING" /\ r.status = f.status
      /\ r.attempt = f.attempt /\ r.verdict = f.verdict
  BY <1>2, <1>3, GstatusUpdate DEF GraphStatus
<1>5. Failed(g, r, S)
  BY <1>2, <1>4 DEF Failed
<1> QED BY <1>1, <1>3, <1>4, <1>5

LEMMA RetryNodeFields ==
  ASSUME NEW g, GraphOK(g), NEW n \in Node
  PROVE  /\ GraphOK(RetryNode(g, n))
         /\ RetryNode(g, n).gstatus = "RUNNING"
         /\ RetryNode(g, n).status = [g.status EXCEPT ![n] = "READY"]
         /\ RetryNode(g, n).attempt = g.attempt
         /\ RetryNode(g, n).verdict = g.verdict
         /\ RetryNode(g, n).out = g.out
         /\ RetryNode(g, n).input = g.input
         /\ RetryNode(g, n).constraints = g.constraints
<1>1. PICK r : r = RetryNode(g, n)
  OBVIOUS
<1>2. /\ DOMAIN r = DOMAIN g /\ r.gstatus = "RUNNING"
      /\ r.status = [g.status EXCEPT ![n] = "READY"]
      /\ r.attempt = g.attempt /\ r.verdict = g.verdict /\ r.out = g.out
      /\ r.input = g.input /\ r.constraints = g.constraints
  BY <1>1 DEF RetryNode, GraphOK
<1>3. r.status \in [Node -> NodeStatus]
  BY <1>2 DEF GraphOK, NodeStatus
<1>4. GraphOK(r)
  BY <1>2, <1>3 DEF GraphOK, GraphStatus
<1> QED BY <1>1, <1>2, <1>4

LEMMA CancelGraphFields ==
  ASSUME NEW g, GraphOK(g)
  PROVE  /\ GraphOK(CancelGraph(g))
         /\ CancelGraph(g).gstatus = "CANCELLED"
         /\ CancelGraph(g).attempt = g.attempt
         /\ CancelGraph(g).verdict = g.verdict
         /\ \A n \in Node :
              CancelGraph(g).status[n] = IF g.status[n] \in Waiting \cup {"RUNNING"}
                                           THEN "CANCELLED" ELSE g.status[n]
<1>1. PICK S : S = {n \in Node : g.status[n] \in Waiting \cup {"RUNNING"}}
  OBVIOUS
<1>2. PICK f : f = With(g, S, "CANCELLED")
  OBVIOUS
<1>3. PICK r : r = [g EXCEPT !.gstatus = "CANCELLED", !.status = f]
  OBVIOUS
<1>4. f \in [Node -> NodeStatus]
  BY <1>2 DEF With, GraphOK, NodeStatus
<1>5. /\ DOMAIN r = DOMAIN g /\ r.gstatus = "CANCELLED" /\ r.status = f
      /\ r.attempt = g.attempt /\ r.verdict = g.verdict /\ r.out = g.out
      /\ r.input = g.input /\ r.constraints = g.constraints
  BY <1>3 DEF GraphOK
<1>6. GraphOK(r)
  BY <1>4, <1>5 DEF GraphOK, GraphStatus
<1>7. r = CancelGraph(g)
  BY <1>1, <1>2, <1>3 DEF CancelGraph
<1> QED BY <1>1, <1>2, <1>5, <1>6, <1>7 DEF With
-----------------------------------------------------------------------------
(* Edges stay held.                                                         *)

(* An edge that holds goes on holding while its source keeps its verdict    *)
(* and its status, up to being frozen.                                      *)
LEMMA EdgePersists ==
  ASSUME NEW g, NEW m, NEW e \in Edge,
         EdgeActive(g, e), PredecessorReady(g, e.from, e.to),
         m.verdict[e.from] = g.verdict[e.from],
         \/ m.status[e.from] = g.status[e.from]
         \/ m.status[e.from] \in Done /\ g.status[e.from] \in Done
  PROVE  EdgeActive(m, e) /\ PredecessorReady(m, e.from, e.to)
<1>1. GateVerdict(m, e.from) = GateVerdict(g, e.from)
  BY DEF GateVerdict
<1>2. EdgeActive(m, e)
  BY <1>1 DEF EdgeActive, EffectiveVerdict
<1>3. PredecessorReady(m, e.from, e.to)
  BY DEF PredecessorReady, Done
<1> QED BY <1>2, <1>3

LEMMA DownstreamEdge ==
  ASSUME NEW S \in SUBSET Node, NEW e \in Edge, e.from \in S \cup DownstreamOf(S)
  PROVE  e.to \in DownstreamOf(S)
<1>1. e.from \in Node /\ e.to \in Node /\ e.to \in Children[e.from]
  BY Compiled DEF EdgesTyped, Children
<1>2. CASE e.from \in S
  <2>1. e.to \in Downstream[e.from]
    BY <1>1 DEF Downstream
  <2> QED BY <1>2, <2>1 DEF DownstreamOf
<1>3. CASE e.from \in DownstreamOf(S)
  <2>1. PICK n \in S : e.from \in Downstream[n]
    BY <1>3 DEF DownstreamOf
  <2>2. e.to \in Downstream[n]
    BY <1>1, <2>1 DEF Downstream, ClosedUnderChildren
  <2> QED BY <2>2 DEF DownstreamOf
<1> QED BY <1>2, <1>3

LEMMA SettledEdges ==
  ASSUME NEW g, NEW m, GraphOK(g), EdgesHold(g), Settled(g, m)
  PROVE  EdgesHold(m)
<1> SUFFICES ASSUME NEW e \in Edge, m.status[e.to] \in Done \cup {"RUNNING"}
             PROVE  EdgeActive(m, e) /\ PredecessorReady(m, e.from, e.to)
  BY DEF EdgesHold
<1>1. e.from \in Node /\ e.to \in Node
  BY Compiled DEF EdgesTyped
<1>2. g.status[e.to] \in Done \cup {"RUNNING"}
  BY <1>1 DEF Settled, Waiting, Done
<1>3. EdgeActive(g, e) /\ PredecessorReady(g, e.from, e.to)
  BY <1>2 DEF EdgesHold
<1>4. g.status[e.from] \notin Waiting
  BY <1>3 DEF PredecessorReady, Done, Waiting
<1> QED BY <1>1, <1>3, <1>4, EdgePersists DEF Settled

LEMMA StartNodeEdges ==
  ASSUME NEW g, GraphOK(g), EdgesHold(g), NEW n \in Node, Candidate(g, n)
  PROVE  EdgesHold(StartNode(g, n))
<1>1. PICK m : m = StartNode(g, n)
  OBVIOUS
<1>2. g.attempt[n] < MaxAttempts[n] /\ g.status[n] \in {"PENDING", "INVALIDATED", "READY"}
  BY DEF Candidate
<1>3. m.status = [g.status EXCEPT ![n] = "RUNNING"] /\ m.verdict = g.verdict
  BY <1>1, <1>2, StartNodeFields
<1> SUFFICES ASSUME NEW e \in Edge, m.status[e.to] \in Done \cup {"RUNNING"}
             PROVE  EdgeActive(m, e) /\ PredecessorReady(m, e.from, e.to)
  BY <1>1 DEF EdgesHold
<1>4. e.from \in Node /\ e.to \in Node
  BY Compiled DEF EdgesTyped
<1>5. EdgeActive(g, e) /\ PredecessorReady(g, e.from, e.to)
  <2>1. CASE e.to = n
    BY <2>1 DEF Candidate, InputsReady
  <2>2. CASE e.to # n
    BY <1>3, <1>4, <2>2 DEF EdgesHold, GraphOK
  <2> QED BY <2>1, <2>2
<1>6. e.from # n
  BY <1>2, <1>5 DEF PredecessorReady, Done
<1> QED BY <1>3, <1>4, <1>5, <1>6, EdgePersists DEF GraphOK

LEMMA AcceptedEdges ==
  ASSUME NEW g, NEW m, GraphOK(g), EdgesHold(g), NEW n \in Node,
         g.status[n] = "RUNNING", Accepted(g, m, n)
  PROVE  EdgesHold(m)
<1> SUFFICES ASSUME NEW e \in Edge, m.status[e.to] \in Done \cup {"RUNNING"}
             PROVE  EdgeActive(m, e) /\ PredecessorReady(m, e.from, e.to)
  BY DEF EdgesHold
<1>1. e.from \in Node /\ e.to \in Node
  BY Compiled DEF EdgesTyped
<1>2. g.status[e.to] \in Done \cup {"RUNNING"}
  BY <1>1 DEF Accepted, Waiting, Done
<1>3. EdgeActive(g, e) /\ PredecessorReady(g, e.from, e.to)
  BY <1>2 DEF EdgesHold
<1>4. e.from # n /\ g.status[e.from] \notin Waiting
  BY <1>3 DEF PredecessorReady, Done, Waiting
<1> QED BY <1>1, <1>3, <1>4, EdgePersists DEF Accepted

LEMMA FailedEdges ==
  ASSUME NEW g, NEW m, GraphOK(g), EdgesHold(g), NEW S \in SUBSET Node, Failed(g, m, S)
  PROVE  EdgesHold(m)
<1> SUFFICES ASSUME NEW e \in Edge, m.status[e.to] \in Done \cup {"RUNNING"}
             PROVE  EdgeActive(m, e) /\ PredecessorReady(m, e.from, e.to)
  BY DEF EdgesHold
<1>1. e.from \in Node /\ e.to \in Node
  BY Compiled DEF EdgesTyped
<1>2. e.to \notin S \cup DownstreamOf(S)
  BY DEF Failed, Success, Done
<1>3. e.from \notin S \cup DownstreamOf(S)
  BY <1>2, DownstreamEdge
<1>4. g.status[e.to] \in Done \cup {"RUNNING"}
  BY <1>1, <1>2 DEF Failed, Done
<1>5. EdgeActive(g, e) /\ PredecessorReady(g, e.from, e.to)
  BY <1>4 DEF EdgesHold
<1>6. /\ m.verdict[e.from] = g.verdict[e.from]
      /\ \/ m.status[e.from] = g.status[e.from]
         \/ m.status[e.from] \in Done /\ g.status[e.from] \in Done
  BY <1>1, <1>3 DEF Failed, Done
<1> QED BY <1>5, <1>6, EdgePersists

LEMMA RetryNodeEdges ==
  ASSUME NEW g, GraphOK(g), EdgesHold(g), NEW n \in Node, g.status[n] = "FAILED"
  PROVE  EdgesHold(RetryNode(g, n))
<1>1. PICK m : m = RetryNode(g, n)
  OBVIOUS
<1>2. m.status = [g.status EXCEPT ![n] = "READY"] /\ m.verdict = g.verdict
  BY <1>1, RetryNodeFields
<1> SUFFICES ASSUME NEW e \in Edge, m.status[e.to] \in Done \cup {"RUNNING"}
             PROVE  EdgeActive(m, e) /\ PredecessorReady(m, e.from, e.to)
  BY <1>1 DEF EdgesHold
<1>3. e.from \in Node /\ e.to \in Node
  BY Compiled DEF EdgesTyped
<1>4. EdgeActive(g, e) /\ PredecessorReady(g, e.from, e.to)
  BY <1>2, <1>3 DEF EdgesHold, GraphOK, Done
<1>5. e.from # n
  BY <1>4 DEF PredecessorReady, Done
<1> QED BY <1>2, <1>3, <1>4, <1>5, EdgePersists DEF GraphOK

LEMMA CancelGraphEdges ==
  ASSUME NEW g, GraphOK(g), EdgesHold(g)
  PROVE  EdgesHold(CancelGraph(g))
<1>1. PICK m : m = CancelGraph(g)
  OBVIOUS
<1>2. /\ m.verdict = g.verdict
      /\ \A n \in Node : m.status[n] = IF g.status[n] \in Waiting \cup {"RUNNING"}
                                         THEN "CANCELLED" ELSE g.status[n]
  BY <1>1, CancelGraphFields
<1> SUFFICES ASSUME NEW e \in Edge, m.status[e.to] \in Done \cup {"RUNNING"}
             PROVE  EdgeActive(m, e) /\ PredecessorReady(m, e.from, e.to)
  BY <1>1 DEF EdgesHold
<1>3. e.from \in Node /\ e.to \in Node
  BY Compiled DEF EdgesTyped
<1>4. EdgeActive(g, e) /\ PredecessorReady(g, e.from, e.to)
  BY <1>2, <1>3 DEF EdgesHold, Done
<1>5. g.status[e.from] \notin Waiting \cup {"RUNNING"}
  BY <1>4 DEF PredecessorReady, Done, Waiting
<1> QED BY <1>2, <1>3, <1>4, <1>5, EdgePersists
-----------------------------------------------------------------------------
(* Running nodes stay exclusive.                                            *)

LEMMA RunningFinite ==
  ASSUME NEW g
  PROVE  IsFiniteSet(Running(g)) /\ Cardinality(Running(g)) \in Nat
<1>1. Running(g) \in SUBSET Node
  BY DEF Running
<1> QED BY <1>1, NodesFinite, FS_Subset, FS_CardinalityType

LEMMA ConflictSymmetric ==
  ASSUME NEW m, NEW n, Conflict(m, n)
  PROVE  Conflict(n, m)
<1>1. WriteConflict(m, n) => WriteConflict(n, m)
  BY DEF WriteConflict, PathOverlap
<1> QED BY <1>1 DEF Conflict

LEMMA FewerRunning ==
  ASSUME NEW g, NEW m, NEW slots \in Nat, Exclusive(g, slots), Running(m) \subseteq Running(g)
  PROVE  Exclusive(m, slots)
<1>1. Cardinality(Running(m)) <= Cardinality(Running(g))
  BY RunningFinite, FS_Subset
<1>2. Cardinality(Running(m)) <= slots
  BY <1>1, RunningFinite DEF Exclusive
<1> QED BY <1>2 DEF Exclusive

(* What the scheduler offers has a slot and meets no lock.                  *)
LEMMA ReadyNodeFits ==
  ASSUME NEW g, NEW slots \in Nat, NEW n \in ReadyNodes(g, slots)
  PROVE  /\ n \in Node /\ Candidate(g, n)
         /\ Cardinality(Running(g)) < slots
<1>1. ~(slots - Cardinality(Running(g)) <= 0)
  BY DEF ReadyNodes
<1>2. n \in Node /\ Candidate(g, n)
  BY DEF ReadyNodes
<1> QED BY <1>1, <1>2, RunningFinite

LEMMA StartNodeExclusive ==
  ASSUME NEW g, GraphOK(g), NEW slots \in Nat, NEW n \in ReadyNodes(g, slots),
         Exclusive(g, slots)
  PROVE  Exclusive(StartNode(g, n), slots)
<1>1. PICK m : m = StartNode(g, n)
  OBVIOUS
<1>2. n \in Node /\ Candidate(g, n) /\ Cardinality(Running(g)) < slots
  BY ReadyNodeFits
<1>3. m.status = [g.status EXCEPT ![n] = "RUNNING"]
  BY <1>1, <1>2, StartNodeFields DEF Candidate
<1>4. Running(m) = Running(g) \cup {n}
  BY <1>2, <1>3 DEF Running, GraphOK
<1>5. n \notin Running(g)
  BY <1>2 DEF Running, Candidate
<1>6. Cardinality(Running(m)) = Cardinality(Running(g)) + 1
  BY <1>4, <1>5, RunningFinite, FS_AddElement
<1>7. Cardinality(Running(m)) <= slots
  BY <1>2, <1>6, RunningFinite
<1>8. \A k \in Running(g) : ~Conflict(k, n) /\ ~Conflict(n, k)
  BY <1>2, ConflictSymmetric DEF Candidate
<1>9. \A j, k \in Running(m) : j # k => ~Conflict(j, k)
  BY <1>4, <1>8 DEF Exclusive
<1> QED BY <1>1, <1>7, <1>9 DEF Exclusive

LEMMA SettledRunning ==
  ASSUME NEW g, NEW m, Settled(g, m)
  PROVE  Running(m) \subseteq Running(g)
BY DEF Settled, Running, Waiting

LEMMA AcceptedRunning ==
  ASSUME NEW g, NEW m, NEW n \in Node, Accepted(g, m, n)
  PROVE  Running(m) \subseteq Running(g) \ {n}
BY DEF Accepted, Running, Waiting

LEMMA FailedRunning ==
  ASSUME NEW g, NEW m, NEW S \in SUBSET Node, Failed(g, m, S)
  PROVE  Running(m) \subseteq Running(g) \ S
BY DEF Failed, Running

-----------------------------------------------------------------------------
(* All that a graph keeps, and the transitions that keep it.                *)
Sound(g, slots) ==
  GraphOK(g) /\ EdgesHold(g) /\ Exclusive(g, slots) /\ AcceptedSound(g)

(* Waiting nodes are marked ready or skipped.                               *)
THEOREM MarkReadySound ==
  ASSUME NEW g, NEW slots \in Nat, Sound(g, slots), g.gstatus # "ACCEPTED", NEW k
  PROVE  Sound(MarkReady(g, k), slots)
<1>1. PICK m : m = MarkReady(g, k)
  OBVIOUS
<1>2. GraphOK(m) /\ Settled(g, m)
  BY <1>1, MarkReadySettled DEF Sound
<1>3. EdgesHold(m)
  BY <1>2, SettledEdges DEF Sound
<1>4. Exclusive(m, slots)
  BY <1>2, SettledRunning, FewerRunning DEF Sound
<1>5. AcceptedSound(m)
  BY <1>2 DEF Settled, AcceptedSound
<1> QED BY <1>1, <1>2, <1>3, <1>4, <1>5 DEF Sound

(* A node the scheduler offers is started.                                  *)
THEOREM StartNodeSound ==
  ASSUME NEW g, NEW slots \in Nat, Sound(g, slots), NEW n \in ReadyNodes(g, slots)
  PROVE  Sound(StartNode(g, n), slots)
<1>1. n \in Node /\ Candidate(g, n)
  BY ReadyNodeFits
<1>2. g.attempt[n] < MaxAttempts[n]
  BY <1>1 DEF Candidate
<1>3. GraphOK(StartNode(g, n)) /\ StartNode(g, n).gstatus = "RUNNING"
  BY <1>1, <1>2, StartNodeFields DEF Sound
<1>4. EdgesHold(StartNode(g, n))
  BY <1>1, StartNodeEdges DEF Sound
<1>5. Exclusive(StartNode(g, n), slots)
  BY StartNodeExclusive DEF Sound
<1> QED BY <1>3, <1>4, <1>5 DEF Sound, AcceptedSound

(* A running node is accepted: no graph is accepted while it runs.          *)
LEMMA RunningNotAccepted ==
  ASSUME NEW g, NEW n \in Node, g.status[n] = "RUNNING", AcceptedSound(g)
  PROVE  g.gstatus # "ACCEPTED"
BY DEF AcceptedSound, GloballyAccepted, Success, Done

THEOREM AcceptNodeSound ==
  ASSUME NEW g, NEW slots \in Nat, Sound(g, slots), NEW n \in Node,
         g.status[n] = "RUNNING", NEW output \in Output, NEW verdict \in Verdict
  PROVE  Sound(AcceptNode(g, n, output, verdict), slots)
<1>1. PICK m : m = AcceptNode(g, n, output, verdict)
  OBVIOUS
<1>2. /\ GraphOK(m) /\ Accepted(g, m, n)
      /\ m.gstatus = "ACCEPTED" => g.gstatus = "ACCEPTED" \/ GloballyAccepted(m)
  BY <1>1, AcceptNodeFields DEF Sound
<1>3. EdgesHold(m)
  BY <1>2, AcceptedEdges DEF Sound
<1>4. Exclusive(m, slots)
  BY <1>2, AcceptedRunning, FewerRunning DEF Sound
<1>5. AcceptedSound(m)
  BY <1>2, RunningNotAccepted DEF AcceptedSound, Sound
<1> QED BY <1>1, <1>2, <1>3, <1>4, <1>5 DEF Sound

THEOREM ResolveGateSound ==
  ASSUME NEW g, NEW slots \in Nat, Sound(g, slots), NEW n \in Node,
         g.status[n] = "RUNNING", NEW output \in Output, NEW verdict \in GateResult
  PROVE  Sound(ResolveGate(g, n, output, verdict), slots)
<1>1. PICK m : m = ResolveGate(g, n, output, verdict)
  OBVIOUS
<1>2. /\ GraphOK(m) /\ Accepted(g, m, n)
      /\ m.gstatus = "ACCEPTED" => g.gstatus = "ACCEPTED" \/ GloballyAccepted(m)
  BY <1>1, ResolveGateFields DEF Sound
<1>3. EdgesHold(m)
  BY <1>2, AcceptedEdges DEF Sound
<1>4. Exclusive(m, slots)
  BY <1>2, AcceptedRunning, FewerRunning DEF Sound
<1>5. AcceptedSound(m)
  BY <1>2, RunningNotAccepted DEF AcceptedSound, Sound
<1> QED BY <1>1, <1>2, <1>3, <1>4, <1>5 DEF Sound

(* Nodes fail, with all that depends on them.                               *)
LEMMA FailedSound ==
  ASSUME NEW g, NEW m, NEW slots \in Nat, Sound(g, slots), NEW S \in SUBSET Node,
         GraphOK(m), Failed(g, m, S), m.gstatus # "ACCEPTED"
  PROVE  Sound(m, slots)
<1>1. EdgesHold(m)
  BY FailedEdges DEF Sound
<1>2. Exclusive(m, slots)
  BY FailedRunning, FewerRunning DEF Sound
<1> QED BY <1>1, <1>2 DEF Sound, AcceptedSound

THEOREM FailNodeSound ==
  ASSUME NEW g, NEW slots \in Nat, Sound(g, slots), NEW n \in Node
  PROVE  Sound(FailNode(g, n), slots)
<1>1. PICK m : m = FailAll(g, {n})
  OBVIOUS
<1>2. {n} \in SUBSET Node
  OBVIOUS
<1>3. GraphOK(m) /\ Failed(g, m, {n}) /\ m.gstatus = "FAILED"
  BY <1>1, <1>2, FailAllFields DEF Sound
<1>4. Sound(m, slots)
  BY <1>2, <1>3, FailedSound
<1> QED BY <1>1, <1>4 DEF FailNode

LEMMA TargetsAreNodes == \A n : SendBackTargets(n) \in SUBSET Node
BY Compiled DEF SendBackBounded, SendBackTargets

THEOREM SendBackSound ==
  ASSUME NEW g, NEW slots \in Nat, Sound(g, slots), NEW S \in SUBSET Node
  PROVE  Sound([FailAll(g, S) EXCEPT !.gstatus = "RUNNING"], slots)
<1>1. PICK m : m = [FailAll(g, S) EXCEPT !.gstatus = "RUNNING"]
  OBVIOUS
<1>2. GraphOK(m) /\ Failed(g, m, S) /\ m.gstatus = "RUNNING"
  BY <1>1, ApplySendBackFields DEF Sound
<1> QED BY <1>1, <1>2, FailedSound

THEOREM RecoverSendBacksSound ==
  ASSUME NEW g, NEW slots \in Nat, Sound(g, slots)
  PROVE  Sound(RecoverSendBacks(g), slots)
<1>1. TargetsOf(PendingSources(g)) \in SUBSET Node
  BY TargetsAreNodes DEF TargetsOf
<1> QED BY <1>1, SendBackSound DEF RecoverSendBacks

THEOREM RetryNodeSound ==
  ASSUME NEW g, NEW slots \in Nat, Sound(g, slots), NEW n \in Node, g.status[n] = "FAILED"
  PROVE  Sound(RetryNode(g, n), slots)
<1>1. PICK m : m = RetryNode(g, n)
  OBVIOUS
<1>2. GraphOK(m) /\ m.gstatus = "RUNNING" /\ m.status = [g.status EXCEPT ![n] = "READY"]
  BY <1>1, RetryNodeFields DEF Sound
<1>3. EdgesHold(m)
  BY <1>1, RetryNodeEdges DEF Sound
<1>4. Running(m) \subseteq Running(g)
  BY <1>2 DEF Running, Sound, GraphOK
<1>5. Exclusive(m, slots)
  BY <1>4, FewerRunning DEF Sound
<1> QED BY <1>1, <1>2, <1>3, <1>5 DEF Sound, AcceptedSound

THEOREM CancelGraphSound ==
  ASSUME NEW g, NEW slots \in Nat, Sound(g, slots)
  PROVE  Sound(CancelGraph(g), slots)
<1>1. PICK m : m = CancelGraph(g)
  OBVIOUS
<1>2. /\ GraphOK(m) /\ m.gstatus = "CANCELLED"
      /\ \A n \in Node : m.status[n] = IF g.status[n] \in Waiting \cup {"RUNNING"}
                                         THEN "CANCELLED" ELSE g.status[n]
  BY <1>1, CancelGraphFields DEF Sound
<1>3. EdgesHold(m)
  BY <1>1, CancelGraphEdges DEF Sound
<1>4. Running(m) \subseteq Running(g)
  BY <1>2 DEF Running
<1>5. Exclusive(m, slots)
  BY <1>4, FewerRunning DEF Sound
<1> QED BY <1>1, <1>2, <1>3, <1>5 DEF Sound, AcceptedSound
-----------------------------------------------------------------------------
(* The rest of an operation under way.                                      *)
PcOK ==
  /\ pc = << "save_plan" >> => snap = NoGraph /\ ckpt # NoGraph
  /\ pc \notin {Idle, << "save_plan" >>} => snap # NoGraph
  /\ \A n \in Node : pc = << "approve", n >> => n \in ReadyNodes(snap, MaxParallelism)

GraphsSound ==
  /\ snap # NoGraph => Sound(snap, MaxParallelism)
  /\ ckpt # NoGraph => Sound(ckpt, MaxParallelism)

RowsTyped ==
  /\ intent \in BOOLEAN
  /\ \A r \in usage : r.node \in Node /\ r.attempt \in Nat
  /\ \A a \in approvals : a.node \in Node /\ a.attempt \in Nat /\ a.op \in Op
  /\ prepared \cap committed = {}
  /\ ckpt = NoGraph => snap = NoGraph

IInv == GraphsSound /\ RowsTyped /\ PcOK

LEMMA Parallel == MaxParallelism \in Nat
BY EngineConstants

LEMMA SoundIsGraph ==
  ASSUME NEW g, NEW slots, Sound(g, slots)
  PROVE  GraphOK(g) /\ g # NoGraph
BY DEF Sound, GraphOK, NoGraph, GraphStatus

LEMMA FreshGraphSound == Sound(FreshGraph, MaxParallelism) /\ FreshGraph.gstatus = "COMPILED"
<1>1. GraphOK(FreshGraph)
  BY Compiled DEF ContractsTyped, FreshGraph, GraphOK, GraphStatus, NodeStatus, Verdict
<1>2. FreshGraph.gstatus = "COMPILED" /\ \A n \in Node : FreshGraph.status[n] = "PENDING"
  BY DEF FreshGraph
<1>3. EdgesHold(FreshGraph)
  BY <1>2, Compiled DEF EdgesTyped, EdgesHold, Done
<1>4. Running(FreshGraph) = {}
  BY <1>2 DEF Running
<1>5. Exclusive(FreshGraph, MaxParallelism)
  BY <1>4, Parallel, FS_EmptySet DEF Exclusive
<1> QED BY <1>1, <1>2, <1>3, <1>5 DEF Sound, AcceptedSound

(* The compile checkpoint.                                                  *)
LEMMA PlannedGraphSound == Sound(MarkReady(FreshGraph, MaxParallelism), MaxParallelism)
<1>1. PICK g : g = FreshGraph
  OBVIOUS
<1>2. Sound(g, MaxParallelism) /\ g.gstatus # "ACCEPTED"
  BY <1>1, FreshGraphSound
<1>3. Sound(MarkReady(g, MaxParallelism), MaxParallelism)
  BY <1>2, Parallel, MarkReadySound
<1> QED BY <1>1, <1>3

(* A graph given up after its send_backs are exhausted.                     *)
LEMMA GivenUpSound ==
  ASSUME NEW g, Sound(g, MaxParallelism)
  PROVE  Sound([g EXCEPT !.gstatus = "FAILED"], MaxParallelism)
<1>1. PICK m : m = [g EXCEPT !.gstatus = "FAILED"]
  OBVIOUS
<1>2. /\ GraphOK(m) /\ m.gstatus = "FAILED" /\ m.status = g.status
      /\ m.attempt = g.attempt /\ m.verdict = g.verdict
  BY <1>1, GstatusUpdate DEF Sound, GraphStatus
<1>3. EdgesHold(m)
  BY <1>2 DEF EdgesHold, Sound, EdgeActive, EffectiveVerdict, GateVerdict, PredecessorReady
<1>4. Running(m) = Running(g)
  BY <1>2 DEF Running
<1>5. Exclusive(m, MaxParallelism)
  BY <1>4 DEF Exclusive, Sound
<1> QED BY <1>1, <1>2, <1>3, <1>5 DEF Sound, AcceptedSound
-----------------------------------------------------------------------------
(* The graphs each transaction commits.                                     *)

LEMMA StartedNode ==
  ASSUME NEW g, Sound(g, MaxParallelism), NEW n \in ReadyNodes(g, MaxParallelism)
  PROVE  /\ n \in Node
         /\ Sound(StartNode(g, n), MaxParallelism)
         /\ StartNode(g, n).status[n] = "RUNNING"
         /\ StartNode(g, n).attempt[n] = g.attempt[n] + 1
         /\ StartNode(g, n).attempt[n] \in Nat
<1>1. n \in Node /\ Candidate(g, n)
  BY Parallel, ReadyNodeFits
<1>2. g.attempt[n] < MaxAttempts[n] /\ GraphOK(g)
  BY <1>1 DEF Candidate, Sound
<1>3. Sound(StartNode(g, n), MaxParallelism)
  BY Parallel, StartNodeSound
<1>4. /\ StartNode(g, n).status = [g.status EXCEPT ![n] = "RUNNING"]
      /\ StartNode(g, n).attempt = [g.attempt EXCEPT ![n] = @ + 1]
  BY <1>1, <1>2, StartNodeFields
<1> QED BY <1>1, <1>2, <1>3, <1>4 DEF GraphOK

LEMMA ApprovedGraphSound ==
  ASSUME NEW g, Sound(g, MaxParallelism), NEW n \in ReadyNodes(g, MaxParallelism),
         NEW output \in Output
  PROVE  /\ Sound(FailNode(StartNode(g, n), n), MaxParallelism)
         /\ Sound(AcceptNode(StartNode(g, n), n, output, "NONE"), MaxParallelism)
<1>1. PICK s : s = StartNode(g, n)
  OBVIOUS
<1>2. n \in Node /\ Sound(s, MaxParallelism) /\ s.status[n] = "RUNNING"
  BY <1>1, StartedNode
<1>3. "NONE" \in Verdict
  BY DEF Verdict
<1> QED BY <1>1, <1>2, <1>3, Parallel, FailNodeSound, AcceptNodeSound
-----------------------------------------------------------------------------
(* Every step keeps the inductive invariant.                                *)

(* A transaction that commits one graph, and leaves the rows well-formed.   *)
LEMMA CommitKeeps ==
  ASSUME IInv, NEW g, Sound(g, MaxParallelism), snap' = g, ckpt' = g,
         RowsTyped', pc' # << "save_plan" >>, \A n \in Node : pc' # << "approve", n >>
  PROVE  IInv'
BY SoundIsGraph DEF IInv, GraphsSound, PcOK

LEMMA PlanKeeps == IInv /\ (Plan \/ SavePlan \/ AppendIntent) => IInv'
<1> SUFFICES ASSUME IInv PROVE Plan \/ SavePlan \/ AppendIntent => IInv'
  OBVIOUS
<1>1. ASSUME Plan PROVE IInv'
  BY <1>1, PlannedGraphSound, SoundIsGraph
     DEF Plan, IInv, GraphsSound, RowsTyped, PcOK, Idle
<1>2. ASSUME SavePlan PROVE IInv'
  BY <1>2 DEF SavePlan, IInv, GraphsSound, RowsTyped, PcOK, Idle
<1>3. ASSUME AppendIntent PROVE IInv'
  BY <1>3 DEF AppendIntent, IInv, GraphsSound, RowsTyped, PcOK, Idle
<1> QED BY <1>1, <1>2, <1>3

LEMMA StartKeeps ==
  ASSUME IInv, NEW n \in Node, Start(n) \/ AppendRunning(n)
  PROVE  IInv'
<1>1. CASE Start(n)
  <2>1. PICK g : g = StartNode(snap, n)
    OBVIOUS
  <2>2. snap # NoGraph /\ n \in ReadyNodes(snap, MaxParallelism) /\ snap' = g
    BY <1>1, <2>1 DEF Start, Startable, Planned
  <2>3. Sound(g, MaxParallelism) /\ g # NoGraph
    BY <2>1, <2>2, StartedNode, SoundIsGraph DEF IInv, GraphsSound
  <2>4. GraphsSound'
    BY <1>1, <2>2, <2>3 DEF Start, IInv, GraphsSound
  <2>5. RowsTyped'
    BY <1>1, <2>2 DEF Start, IInv, RowsTyped
  <2>6. PcOK'
    BY <1>1, <2>2, <2>3 DEF Start, PcOK
  <2> QED BY <2>4, <2>5, <2>6 DEF IInv
<1>2. CASE AppendRunning(n)
  BY <1>2 DEF AppendRunning, IInv, GraphsSound, RowsTyped, PcOK, Idle
<1> QED BY <1>1, <1>2

LEMMA ResultKeeps ==
  ASSUME IInv, NEW n \in Node, RecordResult(n)
  PROVE  IInv'
<1>1. PICK amount \in Amount \cup {Unknown} :
        \/ RecordOverBudget(n, amount)
        \/ \E output \in Output, verdict \in Outcome :
             RecordGateResult(n, output, verdict, amount)
        \/ \E verdict \in Outcome : RecordRejected(n, verdict, amount)
        \/ \E output \in Output : RecordAccepted(n, output, amount)
  BY DEF RecordResult
<1>2. PICK row : row = UsageRow(n, snap.attempt[n], amount)
  OBVIOUS
<1>3. /\ ResultAccepted(n, row)
      /\ pc' = Idle \/ pc' = << "send_back", n >>
  BY <1>1, <1>2 DEF RecordOverBudget, RecordGateResult, RecordRejected, RecordAccepted,
                    ResultAccepted, Planned
<1>4. /\ Sound(snap, MaxParallelism) /\ snap.status[n] = "RUNNING"
      /\ snap.attempt[n] \in Nat
  BY <1>3 DEF ResultAccepted, Planned, IInv, GraphsSound, Sound, GraphOK
<1>5. pc' # << "save_plan" >> /\ \A k \in Node : pc' # << "approve", k >>
  BY <1>3 DEF Idle
<1>6. PICK g : snap' = g /\ ckpt' = g /\ Sound(g, MaxParallelism)
  <2>1. CASE RecordOverBudget(n, amount) \/ \E verdict \in Outcome : RecordRejected(n, verdict, amount)
    BY <1>4, <2>1, Parallel, FailNodeSound
       DEF RecordOverBudget, RecordRejected, CommitFailure, CommitGraph
  <2>2. CASE \E output \in Output, verdict \in Outcome : RecordGateResult(n, output, verdict, amount)
    BY <1>4, <2>2, Parallel, ResolveGateSound, EngineConstants
       DEF RecordGateResult, CommitGraph
  <2>3. CASE \E output \in Output : RecordAccepted(n, output, amount)
    BY <1>4, <2>3, Parallel, AcceptNodeSound DEF RecordAccepted, CommitGraph, Verdict
  <2> QED BY <1>1, <2>1, <2>2, <2>3
<1>7. RowsTyped'
  BY <1>2, <1>3, <1>4, <1>6, SoundIsGraph DEF ResultAccepted, UsageRow, IInv, RowsTyped
<1> QED BY <1>5, <1>6, <1>7, CommitKeeps

LEMMA SendBackKeeps ==
  ASSUME IInv, NEW n \in Node,
         SendBackApplied(n) \/ SendBackConverged(n) \/ SendBackRefused(n)
  PROVE  IInv'
<1>1. SendBackDone(n) /\ snap # NoGraph /\ Sound(snap, MaxParallelism)
  BY DEF SendBackApplied, SendBackConverged, SendBackRefused, SendBackDone,
         IInv, PcOK, GraphsSound, Idle
<1>2. CASE SendBackApplied(n) \/ SendBackConverged(n)
  <2>1. PICK g : snap' = g /\ ckpt' = g /\ Sound(g, MaxParallelism)
    BY <1>1, <1>2, Parallel, TargetsAreNodes, SendBackSound, GivenUpSound
       DEF SendBackApplied, SendBackConverged, CommitGraph, ApplySendBack
  <2>2. RowsTyped'
    BY <1>1, <2>1, SoundIsGraph DEF SendBackDone, IInv, RowsTyped
  <2> QED BY <1>1, <2>1, <2>2, CommitKeeps DEF SendBackDone, Idle
<1>3. CASE SendBackRefused(n)
  BY <1>1, <1>3 DEF SendBackRefused, SendBackDone, IInv, GraphsSound, RowsTyped, PcOK, Idle
<1> QED BY <1>2, <1>3

LEMMA ApprovalKeeps ==
  ASSUME IInv, NEW n \in Node,
         \/ BeginApproval(n)
         \/ \E op \in Op, output \in Output, amount \in Amount \cup {Unknown} :
              CommitApproval(n, op, output, amount)
  PROVE  IInv'
<1>1. CASE BeginApproval(n)
  BY <1>1 DEF BeginApproval, Planned, IInv, GraphsSound, RowsTyped, PcOK
<1>2. ASSUME NEW op \in Op, NEW output \in Output, NEW amount \in Amount \cup {Unknown},
             CommitApproval(n, op, output, amount)
      PROVE  IInv'
  <2>1. PICK g : g = StartNode(snap, n)
    OBVIOUS
  <2>2. /\ pc' = Idle
        /\ snap' = ckpt'
        /\ snap' \in {FailNode(g, n), AcceptNode(g, n, output, "NONE")}
    BY <1>2, <2>1 DEF CommitApproval, CommitGraph
  <2>3. /\ n \in ReadyNodes(snap, MaxParallelism)
        /\ Sound(snap, MaxParallelism)
    BY <1>2 DEF CommitApproval, IInv, PcOK, GraphsSound, Idle
  <2>4. Sound(snap', MaxParallelism) /\ g.attempt[n] \in Nat
    BY <2>1, <2>2, <2>3, ApprovedGraphSound, StartedNode
  <2>5. RowsTyped'
    <3>1. PICK row : row = UsageRow(n, g.attempt[n], amount)
      OBVIOUS
    <3>2. PICK a : a = [node |-> n, attempt |-> g.attempt[n], input |-> g.input[n], op |-> op]
      OBVIOUS
    <3>3. usage' = usage \cup {row} /\ approvals' = approvals \cup {a}
      BY <1>2, <2>1, <3>1, <3>2 DEF CommitApproval
    <3>4. row.node = n /\ row.attempt = g.attempt[n]
      BY <3>1 DEF UsageRow
    <3>5. a.node = n /\ a.attempt = g.attempt[n] /\ a.op = op
      BY <3>2
    <3>6. UNCHANGED << intent, prepared, committed >>
      BY <1>2 DEF CommitApproval
    <3> QED BY <2>2, <2>4, <3>3, <3>4, <3>5, <3>6 DEF IInv, RowsTyped
  <2> QED BY <2>2, <2>4, <2>5, CommitKeeps DEF Idle
<1> QED BY <1>1, <1>2

LEMMA FailureKeeps ==
  ASSUME IInv, NEW n \in Node, NEW reason \in HostReason,
         \/ RecordFailure(n, reason)
         \/ \E amount \in Amount \cup {Unknown} : RecordMeasuredFailure(n, reason, amount)
  PROVE  IInv'
<1>1. /\ Planned /\ Sound(snap, MaxParallelism) /\ snap.attempt[n] \in Nat
      /\ snap' = FailNode(snap, n) /\ ckpt' = snap' /\ pc' = pc
  BY DEF RecordFailure, RecordMeasuredFailure, CommitFailure, CommitGraph, Planned,
         IInv, GraphsSound, Sound, GraphOK
<1>2. Sound(snap', MaxParallelism)
  BY <1>1, Parallel, FailNodeSound
<1>3. RowsTyped'
  <2>1. CASE RecordFailure(n, reason)
    BY <1>1, <1>2, <2>1, SoundIsGraph DEF RecordFailure, IInv, RowsTyped
  <2>2. ASSUME NEW amount \in Amount \cup {Unknown}, RecordMeasuredFailure(n, reason, amount)
        PROVE  RowsTyped'
    BY <1>1, <1>2, <2>2, SoundIsGraph DEF RecordMeasuredFailure, UsageRow, IInv, RowsTyped
  <2> QED BY <2>1, <2>2
<1> QED BY <1>1, <1>2, <1>3, CommitKeeps DEF Planned, Idle

LEMMA RetryKeeps ==
  ASSUME IInv, NEW n \in Node, Retry(n)
  PROVE  IInv'
<1>1. snap # NoGraph /\ snap.status[n] = "FAILED" /\ snap' = RetryNode(snap, n)
  BY DEF Retry, Retryable, Planned
<1>2. Sound(snap', MaxParallelism)
  BY <1>1, Parallel, RetryNodeSound DEF IInv, GraphsSound
<1> QED BY <1>1, <1>2, SoundIsGraph
        DEF Retry, Planned, IInv, GraphsSound, RowsTyped, PcOK, Idle

LEMMA CancelKeeps == IInv /\ Cancel => IInv'
<1> SUFFICES ASSUME IInv, Cancel PROVE IInv'
  OBVIOUS
<1>1. /\ Planned /\ Sound(snap, MaxParallelism)
      /\ snap' = CancelGraph(snap) /\ ckpt' = snap' /\ pc' = pc
  BY DEF Cancel, CommitGraph, Planned, IInv, GraphsSound
<1>2. Sound(snap', MaxParallelism)
  BY <1>1, Parallel, CancelGraphSound
<1>3. RowsTyped'
  BY <1>1, <1>2, SoundIsGraph DEF Cancel, IInv, RowsTyped
<1> QED BY <1>1, <1>2, <1>3, CommitKeeps DEF Planned, Idle

LEMMA ReceiptKeeps ==
  ASSUME IInv, NEW n \in Node, NEW op \in Op, Prepare(n, op) \/ CommitReceipt(n, op)
  PROVE  IInv'
<1>1. CASE Prepare(n, op)
  BY <1>1 DEF Prepare, IInv, GraphsSound, RowsTyped, PcOK
<1>2. CASE CommitReceipt(n, op)
  <2>1. snap # NoGraph
    BY <1>2 DEF CommitReceipt, Authorised, Planned
  <2> QED BY <1>2, <2>1 DEF CommitReceipt, IInv, GraphsSound, RowsTyped, PcOK, Idle
<1> QED BY <1>1, <1>2

LEMMA CheckpointKeeps == IInv /\ CheckpointReceipt => IInv'
BY DEF CheckpointReceipt, IInv, GraphsSound, RowsTyped, PcOK, Idle

(* The host's own steps, and those that touch nothing durable.              *)
LEMMA VolatileKeeps ==
  ASSUME IInv, UNCHANGED durable, pc' \in {pc, Idle}
  PROVE  IInv'
BY DEF durable, IInv, GraphsSound, RowsTyped, PcOK, Idle

LEMMA ResumeKeeps == IInv /\ (Resume \/ ResumeConverged) => IInv'
<1> SUFFICES ASSUME IInv, Resume \/ ResumeConverged PROVE IInv'
  OBVIOUS
<1>1. Sound(ckpt, MaxParallelism) /\ ckpt' = snap'
  BY DEF Resume, ResumeConverged, Resumable, CommitGraph, IInv, GraphsSound
<1>2. Sound(snap', MaxParallelism)
  BY <1>1, Parallel, RecoverSendBacksSound, GivenUpSound DEF Resume, ResumeConverged, CommitGraph
<1>3. RowsTyped'
  BY <1>1, <1>2, SoundIsGraph DEF Resume, ResumeConverged, IInv, RowsTyped
<1>4. pc' # << "save_plan" >> /\ \A n \in Node : pc' # << "approve", n >>
  BY DEF Resume, ResumeConverged, Resumable, Idle
<1> QED BY <1>1, <1>2, <1>3, <1>4, CommitKeeps

(* The invariant holds at the start and is kept by every step.              *)
THEOREM Invariance == Spec => []IInv
<1>1. Init => IInv
  <2>1. Init => PcOK
    BY DEF Init, PcOK, Idle
  <2>2. Init => RowsTyped
    BY DEF Init, RowsTyped
  <2> QED BY <2>1, <2>2 DEF Init, IInv, GraphsSound
<1>2. IInv /\ [Next]_vars => IInv'
  <2> SUFFICES ASSUME IInv, [Next]_vars PROVE IInv'
    OBVIOUS
  <2>1. ASSUME NEW n \in Node, NodeStep(n) PROVE IInv'
    BY <2>1, StartKeeps, ResultKeeps, SendBackKeeps, ApprovalKeeps, FailureKeeps,
       RetryKeeps, ReceiptKeeps DEF NodeStep
  <2>2. CASE \E key \in granted : HostEffect(key)
    BY <2>2, VolatileKeeps DEF HostEffect
  <2>3. CASE Crash
    BY <2>3, VolatileKeeps DEF Crash
  <2>4. CASE UNCHANGED vars
    BY <2>4, VolatileKeeps DEF vars
  <2> QED BY <2>1, <2>2, <2>3, <2>4, PlanKeeps, CancelKeeps, CheckpointKeeps, ResumeKeeps
          DEF Next
<1> QED BY <1>1, <1>2, PTL DEF Spec

(* The type invariant.                                                      *)
THEOREM TypeCorrect == Spec => []TypeOK
<1>1. IInv => TypeOK
  BY SoundIsGraph DEF IInv, GraphsSound, RowsTyped, TypeOK, Graphs
<1> QED BY <1>1, Invariance, PTL

(* No node of a branch that is not selected runs or stays accepted.         *)
THEOREM BranchesAreRespected == Spec => []BranchesRespected
<1>1. IInv => BranchesRespected
  BY DEF IInv, GraphsSound, Sound, BranchesRespected, Graphs
<1> QED BY <1>1, Invariance, PTL

(* Concurrent attempts stay within the parallelism and share no lock.       *)
THEOREM RunningIsExclusive == Spec => []RunningExclusive
<1>1. IInv => RunningExclusive
  BY DEF IInv, GraphsSound, Sound, RunningExclusive, Graphs
<1> QED BY <1>1, Invariance, PTL

(* An accepted graph is complete.                                           *)
THEOREM AcceptanceIsSound == Spec => []AcceptedGraphSound
<1>1. IInv => AcceptedGraphSound
  BY DEF IInv, GraphsSound, Sound, AcceptedGraphSound, Graphs
<1> QED BY <1>1, Invariance, PTL

(***************************************************************************)
(* What crashes and resumes leave intact: the ledger rows never run ahead  *)
(* of the graphs the engine can return to, no external operation loses its *)
(* receipt or is permitted twice, and the checkpoint lags behind the       *)
(* snapshot by starts and retries only.                                    *)
(***************************************************************************)
-----------------------------------------------------------------------------
(* Receipts.                                                                *)

(* No external operation is performed, or permitted, without a receipt, and *)
(* none is permitted again once it has been performed.                      *)
THEOREM ReceiptsHold == Spec => [](EffectsReceipted /\ ExternalOncePerKey)
<1> DEFINE Inv == EffectsReceipted /\ ExternalOncePerKey
<1>1. Init => Inv
  BY DEF Init, EffectsReceipted, ExternalOncePerKey
<1>2. Inv /\ [Next]_vars => Inv'
  <2> SUFFICES ASSUME Inv, [Next]_vars PROVE Inv'
    OBVIOUS
  <2>1. ASSUME UNCHANGED << prepared, committed, granted, effects >> PROVE Inv'
    BY <2>1 DEF EffectsReceipted, ExternalOncePerKey
  <2>2. ASSUME NEW n \in Node, NEW op \in Op, Prepare(n, op) PROVE Inv'
    BY <2>2 DEF Prepare, EffectsReceipted, ExternalOncePerKey
  <2>3. ASSUME NEW n \in Node, NEW op \in Op, CommitReceipt(n, op) PROVE Inv'
    BY <2>3 DEF CommitReceipt, EffectsReceipted, ExternalOncePerKey
  <2>4. ASSUME NEW key \in granted, HostEffect(key) PROVE Inv'
    BY <2>4 DEF HostEffect, durable, EffectsReceipted, ExternalOncePerKey
  <2>5. CASE Crash
    BY <2>5 DEF Crash, durable, EffectsReceipted, ExternalOncePerKey
  <2>6. ASSUME NEW n \in Node, NodeStep(n) PROVE Inv'
    <3>1. CASE Start(n) \/ AppendRunning(n) \/ BeginApproval(n) \/ Retry(n)
      BY <2>1, <3>1 DEF Start, AppendRunning, BeginApproval, Retry
    <3>2. CASE RecordResult(n)
      BY <2>1, <3>2 DEF RecordResult, RecordOverBudget, RecordGateResult, RecordRejected,
                        RecordAccepted, ResultAccepted
    <3>3. CASE SendBackApplied(n) \/ SendBackConverged(n) \/ SendBackRefused(n)
      BY <2>1, <3>3 DEF SendBackApplied, SendBackConverged, SendBackRefused, SendBackDone
    <3>4. CASE \E op \in Op, output \in Output, amount \in Amount \cup {Unknown} :
                 CommitApproval(n, op, output, amount)
      BY <2>1, <3>4 DEF CommitApproval
    <3>5. CASE \/ \E reason \in HostReason : RecordFailure(n, reason)
               \/ \E reason \in HostReason, amount \in Amount \cup {Unknown} :
                    RecordMeasuredFailure(n, reason, amount)
      BY <2>1, <3>5 DEF RecordFailure, RecordMeasuredFailure
    <3> QED BY <2>2, <2>3, <2>6, <3>1, <3>2, <3>3, <3>4, <3>5 DEF NodeStep
  <2>7. CASE Plan \/ SavePlan \/ AppendIntent \/ Cancel \/ CheckpointReceipt
             \/ Resume \/ ResumeConverged
    BY <2>1, <2>7 DEF Plan, SavePlan, AppendIntent, Cancel, CheckpointReceipt,
                      Resume, ResumeConverged
  <2>8. CASE UNCHANGED vars
    BY <2>1, <2>8 DEF vars, durable
  <2> QED BY <2>4, <2>5, <2>6, <2>7, <2>8 DEF Next
<1> QED BY <1>1, <1>2, PTL DEF Spec
-----------------------------------------------------------------------------
(* Graphs that replace one another.                                         *)

(* No attempt begins between the two graphs.                                *)
Kept(g, m) == GraphOK(m) /\ m.attempt = g.attempt /\ Running(m) \subseteq Running(g)

LEMMA RecordedKept ==
  ASSUME NEW g, NEW m, Kept(g, m), NEW n \in Node, NEW k, Recorded(g, n, k)
  PROVE  Recorded(m, n, k)
BY DEF Kept, Recorded, Running

LEMMA FailNodeKept ==
  ASSUME NEW g, GraphOK(g), NEW n \in Node
  PROVE  Kept(g, FailNode(g, n)) /\ FailNode(g, n).status[n] = "FAILED"
<1>1. {n} \in SUBSET Node
  OBVIOUS
<1>2. GraphOK(FailAll(g, {n})) /\ Failed(g, FailAll(g, {n}), {n})
  BY <1>1, FailAllFields
<1> QED BY <1>1, <1>2, FailedRunning DEF FailNode, Failed, Kept

LEMMA AcceptNodeKept ==
  ASSUME NEW g, GraphOK(g), NEW n \in Node, NEW output \in Output, NEW verdict \in Verdict
  PROVE  /\ Kept(g, AcceptNode(g, n, output, verdict))
         /\ AcceptNode(g, n, output, verdict).status[n] = "ACCEPTED"
<1>1. /\ GraphOK(AcceptNode(g, n, output, verdict))
      /\ Accepted(g, AcceptNode(g, n, output, verdict), n)
  BY AcceptNodeFields
<1> QED BY <1>1, AcceptedRunning DEF Accepted, Kept

LEMMA ResolveGateKept ==
  ASSUME NEW g, GraphOK(g), NEW n \in Node, NEW output \in Output, NEW verdict \in GateResult
  PROVE  /\ Kept(g, ResolveGate(g, n, output, verdict))
         /\ ResolveGate(g, n, output, verdict).status[n] = "ACCEPTED"
<1>1. /\ GraphOK(ResolveGate(g, n, output, verdict))
      /\ Accepted(g, ResolveGate(g, n, output, verdict), n)
  BY ResolveGateFields
<1> QED BY <1>1, AcceptedRunning DEF Accepted, Kept

LEMMA SendBackKept ==
  ASSUME NEW g, GraphOK(g), NEW S \in SUBSET Node
  PROVE  Kept(g, [FailAll(g, S) EXCEPT !.gstatus = "RUNNING"])
<1>1. /\ GraphOK([FailAll(g, S) EXCEPT !.gstatus = "RUNNING"])
      /\ Failed(g, [FailAll(g, S) EXCEPT !.gstatus = "RUNNING"], S)
  BY ApplySendBackFields
<1> QED BY <1>1, FailedRunning DEF Failed, Kept

LEMMA RecoverSendBacksKept ==
  ASSUME NEW g, GraphOK(g)
  PROVE  Kept(g, RecoverSendBacks(g))
<1>1. TargetsOf(PendingSources(g)) \in SUBSET Node
  BY TargetsAreNodes DEF TargetsOf
<1> QED BY <1>1, SendBackKept DEF RecoverSendBacks, Kept

LEMMA GivenUpKept ==
  ASSUME NEW g, GraphOK(g)
  PROVE  Kept(g, [g EXCEPT !.gstatus = "FAILED"])
BY GstatusUpdate DEF GraphStatus, Kept, Running

LEMMA RetryNodeKept ==
  ASSUME NEW g, GraphOK(g), NEW n \in Node
  PROVE  Kept(g, RetryNode(g, n))
<1>1. /\ GraphOK(RetryNode(g, n))
      /\ RetryNode(g, n).status = [g.status EXCEPT ![n] = "READY"]
      /\ RetryNode(g, n).attempt = g.attempt
  BY RetryNodeFields
<1> QED BY <1>1 DEF Kept, Running, GraphOK

LEMMA CancelGraphKept ==
  ASSUME NEW g, GraphOK(g)
  PROVE  Kept(g, CancelGraph(g))
BY CancelGraphFields DEF Kept, Running

(* A started attempt has a number no row has yet.                           *)
LEMMA StartNodeRecorded ==
  ASSUME NEW g, Sound(g, MaxParallelism), NEW n \in ReadyNodes(g, MaxParallelism),
         NEW k \in Node, NEW a \in Nat, Recorded(g, k, a)
  PROVE  Recorded(StartNode(g, n), k, a)
<1>1. n \in Node /\ Candidate(g, n) /\ GraphOK(g)
  BY Parallel, ReadyNodeFits DEF Sound
<1>2. /\ StartNode(g, n).status = [g.status EXCEPT ![n] = "RUNNING"]
      /\ StartNode(g, n).attempt = [g.attempt EXCEPT ![n] = @ + 1]
  BY <1>1, StartNodeFields DEF Candidate
<1> QED BY <1>1, <1>2 DEF Recorded, GraphOK
-----------------------------------------------------------------------------
(* Rows, keys and the graphs they were written for.                         *)

KeysTyped == \A key \in prepared : key.node \in Node /\ key.attempt \in Nat

RInv == LedgerHasRevision /\ NoResultCollision /\ PreparedNotRolledBack /\ KeysTyped

(* A transaction that replaces g, and may write rows of attempts that have  *)
(* ended.                                                                   *)
LEMMA CommitRecovers ==
  ASSUME IInv, RInv, NEW g, NEW m, Kept(g, m), snap' = m, ckpt' = m,
         \A r \in usage \cup approvals : Recorded(g, r.node, r.attempt),
         \A r \in usage' \cup approvals' :
           r \in usage \cup approvals \/ Recorded(m, r.node, r.attempt),
         prepared' = prepared,
         \A key \in prepared : key.attempt <= g.attempt[key.node]
  PROVE  RInv'
<1>1. m # NoGraph
  BY DEF Kept, GraphOK, NoGraph, GraphStatus
<1>2. \A r \in usage \cup approvals : r.node \in Node
  BY DEF IInv, RowsTyped
<1>3. \A r \in usage' \cup approvals' : Recorded(m, r.node, r.attempt)
  BY <1>2, RecordedKept
<1>4. NoResultCollision'
  BY <1>3 DEF NoResultCollision, Graphs
<1>5. PreparedNotRolledBack'
  BY <1>1 DEF PreparedNotRolledBack, Kept
<1> QED BY <1>1, <1>4, <1>5 DEF RInv, LedgerHasRevision, KeysTyped

(* The usual case: the present snapshot is replaced.                        *)
LEMMA ReplaceRecovers ==
  ASSUME IInv, RInv, NEW m, snap # NoGraph, Kept(snap, m), snap' = m, ckpt' = m,
         \A r \in usage' \cup approvals' :
           r \in usage \cup approvals \/ Recorded(m, r.node, r.attempt),
         prepared' = prepared
  PROVE  RInv'
<1>1. \A r \in usage \cup approvals : Recorded(snap, r.node, r.attempt)
  BY DEF RInv, NoResultCollision, Graphs
<1>2. \A key \in prepared : key.attempt <= snap.attempt[key.node]
  BY DEF RInv, PreparedNotRolledBack
<1> QED BY <1>1, <1>2, CommitRecovers

(* A step that moves no graph forward and writes no row.                    *)
LEMMA StandRecovers ==
  ASSUME RInv, snap' = snap, ckpt' \in {ckpt, snap}, UNCHANGED << usage, approvals >>,
         \/ UNCHANGED << intent, progress >>
         \/ snap # NoGraph,
         \A key \in prepared' : key \in prepared \/
           /\ snap # NoGraph /\ key.node \in Node /\ key.attempt \in Nat
           /\ key.attempt <= snap.attempt[key.node]
  PROVE  RInv'
<1>1. NoResultCollision'
  BY DEF RInv, NoResultCollision, Graphs
<1>2. LedgerHasRevision'
  BY DEF RInv, LedgerHasRevision
<1>3. PreparedNotRolledBack' /\ KeysTyped'
  BY DEF RInv, PreparedNotRolledBack, KeysTyped
<1> QED BY <1>1, <1>2, <1>3 DEF RInv

LEMMA PlanRecovers == IInv /\ RInv /\ (Plan \/ SavePlan \/ AppendIntent) => RInv'
<1> SUFFICES ASSUME IInv, RInv PROVE Plan \/ SavePlan \/ AppendIntent => RInv'
  OBVIOUS
<1>1. ASSUME Plan PROVE RInv'
  BY <1>1 DEF Plan, RInv, LedgerHasRevision, NoResultCollision, PreparedNotRolledBack,
              KeysTyped, Graphs
<1>2. ASSUME SavePlan PROVE RInv'
  BY <1>2 DEF SavePlan, IInv, PcOK, RInv, LedgerHasRevision, NoResultCollision,
              PreparedNotRolledBack, KeysTyped, Graphs
<1>3. ASSUME AppendIntent PROVE RInv'
  BY <1>3, StandRecovers DEF AppendIntent, IInv, PcOK, Idle
<1> QED BY <1>1, <1>2, <1>3

LEMMA StartRecovers ==
  ASSUME IInv, RInv, NEW n \in Node, Start(n) \/ AppendRunning(n)
  PROVE  RInv'
<1>1. CASE Start(n)
  <2>1. PICK g : g = StartNode(snap, n)
    OBVIOUS
  <2>2. /\ snap # NoGraph /\ n \in ReadyNodes(snap, MaxParallelism) /\ snap' = g
        /\ Sound(snap, MaxParallelism)
    BY <1>1, <2>1 DEF Start, Startable, Planned, IInv, GraphsSound
  <2>3. GraphOK(g) /\ g # NoGraph
    BY <2>1, <2>2, StartedNode, SoundIsGraph
  <2>4. \A r \in usage \cup approvals : r.node \in Node /\ r.attempt \in Nat
    BY DEF IInv, RowsTyped
  <2>5. \A r \in usage \cup approvals : Recorded(g, r.node, r.attempt)
    BY <2>1, <2>2, <2>4, StartNodeRecorded DEF RInv, NoResultCollision, Graphs
  <2>6. NoResultCollision'
    BY <1>1, <2>2, <2>5 DEF Start, RInv, NoResultCollision, Graphs
  <2>7. g.attempt = [snap.attempt EXCEPT ![n] = @ + 1]
    <3>1. Candidate(snap, n)
      BY <2>2, Parallel, ReadyNodeFits
    <3> QED BY <2>1, <2>2, <3>1, StartNodeFields DEF Candidate, Sound
  <2>8. \A k \in Node : snap.attempt[k] \in Nat /\ snap.attempt[k] <= g.attempt[k]
    BY <2>2, <2>7 DEF Sound, GraphOK
  <2>10. \A k \in Node : g.attempt[k] \in Nat
    BY <2>3 DEF GraphOK
  <2>9. PreparedNotRolledBack' /\ KeysTyped'
    BY <1>1, <2>2, <2>3, <2>8, <2>10 DEF Start, RInv, PreparedNotRolledBack, KeysTyped
  <2> QED BY <1>1, <2>2, <2>3, <2>6, <2>9 DEF Start, RInv, LedgerHasRevision
<1>2. CASE AppendRunning(n)
  BY <1>2, StandRecovers DEF AppendRunning, IInv, PcOK, Idle
<1> QED BY <1>1, <1>2

LEMMA ResultRecovers ==
  ASSUME IInv, RInv, NEW n \in Node, RecordResult(n)
  PROVE  RInv'
<1>1. PICK amount \in Amount \cup {Unknown} :
        \/ RecordOverBudget(n, amount)
        \/ \E output \in Output, verdict \in Outcome :
             RecordGateResult(n, output, verdict, amount)
        \/ \E verdict \in Outcome : RecordRejected(n, verdict, amount)
        \/ \E output \in Output : RecordAccepted(n, output, amount)
  BY DEF RecordResult
<1>2. PICK row : row = UsageRow(n, snap.attempt[n], amount)
  OBVIOUS
<1>3. ResultAccepted(n, row)
  BY <1>1, <1>2 DEF RecordOverBudget, RecordGateResult, RecordRejected, RecordAccepted
<1>4. /\ snap # NoGraph /\ Sound(snap, MaxParallelism) /\ GraphOK(snap)
      /\ row.node = n /\ row.attempt = snap.attempt[n] /\ snap.attempt[n] \in Nat
      /\ usage' = usage \cup {row} /\ approvals' = approvals /\ prepared' = prepared
  BY <1>2, <1>3 DEF ResultAccepted, UsageRow, Planned, IInv, GraphsSound, Sound, GraphOK
<1>5. PICK m : /\ snap' = m /\ ckpt' = m /\ Kept(snap, m)
               /\ m.status[n] \in {"FAILED", "ACCEPTED"}
  <2>1. CASE RecordOverBudget(n, amount) \/ \E verdict \in Outcome : RecordRejected(n, verdict, amount)
    BY <1>4, <2>1, FailNodeKept DEF RecordOverBudget, RecordRejected, CommitFailure, CommitGraph
  <2>2. CASE \E output \in Output, verdict \in Outcome : RecordGateResult(n, output, verdict, amount)
    BY <1>4, <2>2, ResolveGateKept, EngineConstants DEF RecordGateResult, CommitGraph
  <2>3. CASE \E output \in Output : RecordAccepted(n, output, amount)
    BY <1>4, <2>3, AcceptNodeKept DEF RecordAccepted, CommitGraph, Verdict
  <2> QED BY <1>1, <2>1, <2>2, <2>3
<1>6. Recorded(m, row.node, row.attempt)
  BY <1>4, <1>5 DEF Recorded, Kept
<1> QED BY <1>4, <1>5, <1>6, ReplaceRecovers

LEMMA SendBackRecovers ==
  ASSUME IInv, RInv, NEW n \in Node,
         SendBackApplied(n) \/ SendBackConverged(n) \/ SendBackRefused(n)
  PROVE  RInv'
<1>1. SendBackDone(n) /\ snap # NoGraph /\ GraphOK(snap)
  BY DEF SendBackApplied, SendBackConverged, SendBackRefused, SendBackDone,
         IInv, PcOK, GraphsSound, Sound, Idle
<1>2. CASE SendBackApplied(n) \/ SendBackConverged(n)
  <2>1. PICK m : snap' = m /\ ckpt' = m /\ Kept(snap, m)
    BY <1>1, <1>2, TargetsAreNodes, SendBackKept, GivenUpKept
       DEF SendBackApplied, SendBackConverged, CommitGraph, ApplySendBack
  <2> QED BY <1>1, <2>1, ReplaceRecovers DEF SendBackDone
<1>3. CASE SendBackRefused(n)
  BY <1>1, <1>3, StandRecovers DEF SendBackRefused, SendBackDone
<1> QED BY <1>2, <1>3

LEMMA ApprovalRecovers ==
  ASSUME IInv, RInv, NEW n \in Node,
         \/ BeginApproval(n)
         \/ \E op \in Op, output \in Output, amount \in Amount \cup {Unknown} :
              CommitApproval(n, op, output, amount)
  PROVE  RInv'
<1>1. CASE BeginApproval(n)
  BY <1>1, StandRecovers DEF BeginApproval, Planned
<1>2. ASSUME NEW op \in Op, NEW output \in Output, NEW amount \in Amount \cup {Unknown},
             CommitApproval(n, op, output, amount)
      PROVE  RInv'
  <2>1. PICK g : g = StartNode(snap, n)
    OBVIOUS
  <2>2. PICK row : row = UsageRow(n, g.attempt[n], amount)
    OBVIOUS
  <2>3. PICK a : a = [node |-> n, attempt |-> g.attempt[n], input |-> g.input[n], op |-> op]
    OBVIOUS
  <2>4. /\ usage' = usage \cup {row} /\ approvals' = approvals \cup {a}
        /\ prepared' = prepared
        /\ snap' = ckpt' /\ snap' \in {FailNode(g, n), AcceptNode(g, n, output, "NONE")}
    BY <1>2, <2>1, <2>2, <2>3 DEF CommitApproval, CommitGraph
  <2>5. /\ n \in ReadyNodes(snap, MaxParallelism)
        /\ snap # NoGraph /\ Sound(snap, MaxParallelism)
    BY <1>2 DEF CommitApproval, IInv, PcOK, GraphsSound, Idle
  <2>6. GraphOK(g) /\ g.attempt[n] \in Nat
    BY <2>1, <2>5, StartedNode, SoundIsGraph
  <2>7. PICK m : snap' = m /\ ckpt' = m /\ Kept(g, m) /\ m.status[n] \in {"FAILED", "ACCEPTED"}
    BY <2>4, <2>6, FailNodeKept, AcceptNodeKept DEF Verdict
  <2>8. \A r \in usage \cup approvals : r.node \in Node /\ r.attempt \in Nat
    BY DEF IInv, RowsTyped
  <2>9. \A r \in usage \cup approvals : Recorded(g, r.node, r.attempt)
    BY <2>1, <2>5, <2>8, StartNodeRecorded DEF RInv, NoResultCollision, Graphs
  <2>10. Recorded(m, row.node, row.attempt) /\ Recorded(m, a.node, a.attempt)
    BY <2>2, <2>3, <2>6, <2>7 DEF UsageRow, Recorded, Kept
  <2>11. g.attempt = [snap.attempt EXCEPT ![n] = @ + 1] /\ GraphOK(snap)
    <3>1. Candidate(snap, n)
      BY <2>5, Parallel, ReadyNodeFits
    <3> QED BY <2>1, <2>5, <3>1, StartNodeFields DEF Candidate, Sound
  <2>12. \A k \in Node : snap.attempt[k] \in Nat /\ g.attempt[k] \in Nat /\ snap.attempt[k] <= g.attempt[k]
    BY <2>6, <2>11 DEF GraphOK
  <2>13. \A key \in prepared : key.attempt <= g.attempt[key.node]
    BY <2>12 DEF RInv, PreparedNotRolledBack, KeysTyped
  <2> QED BY <2>4, <2>7, <2>9, <2>10, <2>13, CommitRecovers
<1> QED BY <1>1, <1>2

LEMMA FailureRecovers ==
  ASSUME IInv, RInv, NEW n \in Node, NEW reason \in HostReason,
         \/ RecordFailure(n, reason)
         \/ \E amount \in Amount \cup {Unknown} : RecordMeasuredFailure(n, reason, amount)
  PROVE  RInv'
<1>1. /\ snap # NoGraph /\ GraphOK(snap) /\ snap.attempt[n] \in Nat
      /\ snap' = FailNode(snap, n) /\ ckpt' = snap'
      /\ approvals' = approvals /\ prepared' = prepared
  BY DEF RecordFailure, RecordMeasuredFailure, CommitFailure, CommitGraph, Planned,
         IInv, GraphsSound, Sound, GraphOK
<1>2. PICK m : snap' = m /\ ckpt' = m /\ Kept(snap, m) /\ m.status[n] = "FAILED"
  BY <1>1, FailNodeKept
<1>3. CASE RecordFailure(n, reason)
  BY <1>1, <1>2, <1>3, ReplaceRecovers DEF RecordFailure
<1>4. ASSUME NEW amount \in Amount \cup {Unknown}, RecordMeasuredFailure(n, reason, amount)
      PROVE  RInv'
  <2>1. PICK row : row = UsageRow(n, snap.attempt[n], amount)
    OBVIOUS
  <2>2. usage' = usage \cup {row}
    BY <1>4, <2>1 DEF RecordMeasuredFailure
  <2>3. Recorded(m, row.node, row.attempt)
    BY <1>1, <1>2, <2>1 DEF UsageRow, Recorded, Kept
  <2> QED BY <1>1, <1>2, <2>2, <2>3, ReplaceRecovers
<1> QED BY <1>3, <1>4

LEMMA RetryRecovers ==
  ASSUME IInv, RInv, NEW n \in Node, Retry(n)
  PROVE  RInv'
<1>1. /\ snap # NoGraph /\ GraphOK(snap) /\ snap' = RetryNode(snap, n)
      /\ UNCHANGED << ckpt, usage, approvals, prepared >>
  BY DEF Retry, Planned, IInv, GraphsSound, Sound
<1>2. Kept(snap, snap')
  BY <1>1, RetryNodeKept
<1>3. snap' # NoGraph
  BY <1>2 DEF Kept, GraphOK, NoGraph, GraphStatus
<1>4. \A r \in usage \cup approvals : Recorded(snap', r.node, r.attempt)
  BY <1>1, <1>2, RecordedKept DEF RInv, NoResultCollision, Graphs, IInv, RowsTyped
<1>5. NoResultCollision'
  BY <1>1, <1>4 DEF RInv, NoResultCollision, Graphs
<1>6. PreparedNotRolledBack' /\ KeysTyped'
  BY <1>1, <1>2, <1>3 DEF RInv, PreparedNotRolledBack, KeysTyped, Kept
<1> QED BY <1>3, <1>5, <1>6 DEF RInv, LedgerHasRevision

LEMMA CancelRecovers == IInv /\ RInv /\ Cancel => RInv'
<1> SUFFICES ASSUME IInv, RInv, Cancel PROVE RInv'
  OBVIOUS
<1>1. PICK m : /\ snap # NoGraph /\ snap' = m /\ ckpt' = m /\ Kept(snap, m)
               /\ UNCHANGED << usage, approvals, prepared >>
  BY CancelGraphKept DEF Cancel, CommitGraph, Planned, IInv, GraphsSound, Sound
<1> QED BY <1>1, ReplaceRecovers

LEMMA ReceiptRecovers ==
  ASSUME IInv, RInv, NEW n \in Node, NEW op \in Op, Prepare(n, op) \/ CommitReceipt(n, op)
  PROVE  RInv'
<1>1. snap # NoGraph /\ snap.attempt[n] \in Nat /\ UNCHANGED << snap, ckpt, usage, approvals >>
  BY DEF Prepare, CommitReceipt, Authorised, Planned, IInv, GraphsSound, Sound, GraphOK
<1>2. Key(n, op).node = n /\ Key(n, op).attempt = snap.attempt[n]
  BY DEF Key
<1>3. prepared' \subseteq prepared \cup {Key(n, op)}
  BY DEF Prepare, CommitReceipt
<1> QED BY <1>1, <1>2, <1>3, StandRecovers

LEMMA ResumeRecovers == IInv /\ RInv /\ (Resume \/ ResumeConverged) => RInv'
<1> SUFFICES ASSUME IInv, RInv, Resume \/ ResumeConverged PROVE RInv'
  OBVIOUS
<1>1. /\ ckpt # NoGraph /\ prepared = {} /\ GraphOK(ckpt)
      /\ UNCHANGED << usage, approvals, prepared >>
  BY DEF Resume, ResumeConverged, Resumable, IInv, GraphsSound, Sound
<1>2. PICK m : snap' = m /\ ckpt' = m /\ Kept(ckpt, m)
  BY <1>1, RecoverSendBacksKept, GivenUpKept DEF Resume, ResumeConverged, CommitGraph
<1>3. \A r \in usage \cup approvals : Recorded(ckpt, r.node, r.attempt)
  BY <1>1 DEF RInv, NoResultCollision, Graphs
<1> QED BY <1>1, <1>2, <1>3, CommitRecovers

(* Rows and receipts keep up with the graphs.                               *)
THEOREM Recovery == Spec => []RInv
<1>1. Init => RInv
  BY DEF Init, RInv, LedgerHasRevision, NoResultCollision, PreparedNotRolledBack, KeysTyped,
         Graphs
<1>2. IInv /\ RInv /\ [Next]_vars => RInv'
  <2> SUFFICES ASSUME IInv, RInv, [Next]_vars PROVE RInv'
    OBVIOUS
  <2>1. ASSUME NEW n \in Node, NodeStep(n) PROVE RInv'
    BY <2>1, StartRecovers, ResultRecovers, SendBackRecovers, ApprovalRecovers,
       FailureRecovers, RetryRecovers, ReceiptRecovers DEF NodeStep
  <2>2. CASE UNCHANGED durable
    BY <2>2, StandRecovers DEF durable
  <2>3. CASE CheckpointReceipt
    BY <2>3, StandRecovers DEF CheckpointReceipt
  <2>4. CASE Crash \/ (\E key \in granted : HostEffect(key)) \/ UNCHANGED vars
    BY <2>2, <2>4 DEF Crash, HostEffect, vars
  <2> QED BY <2>1, <2>3, <2>4, PlanRecovers, CancelRecovers, ResumeRecovers DEF Next
<1> QED BY <1>1, <1>2, Invariance, PTL DEF Spec

(* No revision-less ledger row: the store can always be opened again.       *)
THEOREM LedgersHaveTheirRevision == Spec => []LedgerHasRevision
<1>1. RInv => LedgerHasRevision
  BY DEF RInv
<1> QED BY <1>1, Recovery, PTL

(* No attempt is measured or approved twice.                                *)
THEOREM RowsNeverCollide == Spec => []NoResultCollision
<1>1. RInv => NoResultCollision
  BY DEF RInv
<1> QED BY <1>1, Recovery, PTL

(* No attempt is rolled back under an uncertain receipt.                    *)
THEOREM UncertainAttemptsStay == Spec => []PreparedNotRolledBack
<1>1. RInv => PreparedNotRolledBack
  BY DEF RInv
<1> QED BY <1>1, Recovery, PTL

(* An external operation happens once under its key, by a receipt that      *)
(* neither a crash nor a rollback takes away.                               *)
THEOREM ExternalIsSound == Spec => []ExternalSound
BY ReceiptsHold, UncertainAttemptsStay, PTL DEF ExternalSound
-----------------------------------------------------------------------------
(* How far the checkpoint lags behind the snapshot.                         *)

LEMMA NoLag ==
  ASSUME snap' = ckpt'
  PROVE  CheckpointLag'
BY DEF CheckpointLag, Lag

LEMMA StartLags ==
  ASSUME IInv, CheckpointLag, NEW n \in Node, Start(n)
  PROVE  CheckpointLag'
<1>1. PICK g : g = StartNode(snap, n)
  OBVIOUS
<1>2. /\ snap # NoGraph /\ n \in ReadyNodes(snap, MaxParallelism) /\ snap.status[n] = "READY"
      /\ snap' = g /\ ckpt' = ckpt /\ GraphOK(snap)
  BY <1>1 DEF Start, Startable, Planned, IInv, GraphsSound, Sound
<1>3. Candidate(snap, n)
  BY <1>2, Parallel, ReadyNodeFits
<1>4. /\ g.status = [snap.status EXCEPT ![n] = "RUNNING"]
      /\ g.attempt = [snap.attempt EXCEPT ![n] = @ + 1]
      /\ g.out = snap.out /\ g.verdict = snap.verdict /\ g.input = snap.input
      /\ g.constraints = snap.constraints
  BY <1>1, <1>2, <1>3, StartNodeFields DEF Candidate
<1>5. Lag(ckpt, g, n)
  BY <1>2, <1>4 DEF CheckpointLag, Lag, GraphOK
<1>6. \A k \in Node \ {n} : Lag(ckpt, g, k)
  BY <1>2, <1>4 DEF CheckpointLag, Lag, GraphOK
<1> QED BY <1>2, <1>4, <1>5, <1>6 DEF CheckpointLag

LEMMA RetryLags ==
  ASSUME IInv, CheckpointLag, NEW n \in Node, Retry(n)
  PROVE  CheckpointLag'
<1>1. PICK g : g = RetryNode(snap, n)
  OBVIOUS
<1>2. /\ snap # NoGraph /\ snap.status[n] = "FAILED"
      /\ snap' = g /\ ckpt' = ckpt /\ GraphOK(snap)
  BY <1>1 DEF Retry, Retryable, Planned, IInv, GraphsSound, Sound
<1>3. /\ g.status = [snap.status EXCEPT ![n] = "READY"] /\ g.attempt = snap.attempt
      /\ g.out = snap.out /\ g.verdict = snap.verdict /\ g.input = snap.input
      /\ g.constraints = snap.constraints
  BY <1>1, <1>2, RetryNodeFields
<1>4. \A k \in Node : Lag(ckpt, g, k)
  BY <1>2, <1>3 DEF CheckpointLag, Lag, GraphOK
<1> QED BY <1>2, <1>3, <1>4 DEF CheckpointLag

(* A crash takes back starts and retries, never a result.                   *)
THEOREM CheckpointLagsByStarts == Spec => []CheckpointLag
<1>1. Init => CheckpointLag
  BY DEF Init, CheckpointLag
<1>2. IInv /\ CheckpointLag /\ [Next]_vars => CheckpointLag'
  <2> SUFFICES ASSUME IInv, CheckpointLag, [Next]_vars PROVE CheckpointLag'
    OBVIOUS
  <2>1. ASSUME UNCHANGED << snap, ckpt >> PROVE CheckpointLag'
    BY <2>1 DEF CheckpointLag, Lag
  <2>2. ASSUME NEW n \in Node, NodeStep(n) PROVE CheckpointLag'
    <3>1. CASE AppendRunning(n) \/ SendBackRefused(n)
               \/ \E op \in Op : Prepare(n, op) \/ CommitReceipt(n, op)
      BY <2>1, <3>1 DEF AppendRunning, SendBackRefused, Prepare, CommitReceipt
    <3>2. CASE RecordResult(n)
      BY <3>2, NoLag DEF RecordResult, RecordOverBudget, RecordGateResult, RecordRejected,
                         RecordAccepted, CommitFailure, CommitGraph
    <3>3. CASE SendBackApplied(n) \/ SendBackConverged(n)
      BY <3>3, NoLag DEF SendBackApplied, SendBackConverged, CommitGraph
    <3>4. CASE BeginApproval(n)
      BY <3>4, NoLag DEF BeginApproval
    <3>5. ASSUME NEW op \in Op, NEW output \in Output, NEW amount \in Amount \cup {Unknown},
                 CommitApproval(n, op, output, amount)
          PROVE  CheckpointLag'
      BY <3>5, NoLag DEF CommitApproval, CommitGraph
    <3>6. CASE \/ \E reason \in HostReason : RecordFailure(n, reason)
               \/ \E reason \in HostReason, amount \in Amount \cup {Unknown} :
                    RecordMeasuredFailure(n, reason, amount)
      BY <3>6, NoLag DEF RecordFailure, RecordMeasuredFailure, CommitFailure, CommitGraph
    <3> QED BY <2>2, <3>1, <3>2, <3>3, <3>4, <3>6, <3>5, StartLags, RetryLags DEF NodeStep
  <2>3. CASE Plan
    BY <2>3 DEF Plan, CheckpointLag
  <2>4. CASE SavePlan \/ Cancel \/ CheckpointReceipt \/ Resume \/ ResumeConverged
    BY <2>4, NoLag DEF SavePlan, Cancel, CheckpointReceipt, Resume, ResumeConverged, CommitGraph
  <2>5. CASE AppendIntent \/ Crash \/ (\E key \in granted : HostEffect(key)) \/ UNCHANGED vars
    BY <2>1, <2>5 DEF AppendIntent, Crash, HostEffect, vars, durable
  <2> QED BY <2>2, <2>3, <2>4, <2>5 DEF Next
<1> QED BY <1>1, <1>2, Invariance, PTL DEF Spec
-----------------------------------------------------------------------------
(* Send_backs.                                                              *)

(* A send_back fails all of its targets or changes nothing.                 *)
THEOREM SendBacksAreAtomic == Spec => SendBackAllOrNothing
<1> DEFINE Whole(n) == \/ \A t \in SendBackTargets(n) : snap'.status[t] = "FAILED"
                       \/ snap'.status = snap.status
<1>1. IInv /\ [Next]_vars =>
        [\A n \in Node : pc = << "send_back", n >> /\ pc' = Idle =>
           \/ \A t \in SendBackTargets(n) : snap'.status[t] = "FAILED"
           \/ snap'.status = snap.status]_vars
  <2> SUFFICES ASSUME IInv, Next, NEW n \in Node, pc = << "send_back", n >>, pc' = Idle
               PROVE  Whole(n)
    OBVIOUS
  <2>1. snap # NoGraph /\ GraphOK(snap) /\ pc # Idle
    BY DEF IInv, PcOK, GraphsSound, Sound, Idle
  <2>2. CASE snap' = snap
    BY <2>2
  <2>3. ASSUME NEW k \in Node, NodeStep(k) PROVE Whole(n)
    <3>1. ~Planned /\ pc # << "append_running", k >> /\ pc # << "approve", k >>
      BY <2>1 DEF Planned
    <3>2. CASE SendBackApplied(k)
      <4>1. k = n /\ snap' = [FailAll(snap, SendBackTargets(n)) EXCEPT !.gstatus = "RUNNING"]
        BY <3>2 DEF SendBackApplied, SendBackDone, CommitGraph, ApplySendBack
      <4>2. \A t \in SendBackTargets(n) : snap'.status[t] = "FAILED"
        <5>1. SendBackTargets(n) \in SUBSET Node
          BY TargetsAreNodes
        <5>2. Failed(snap, snap', SendBackTargets(n))
          BY <2>1, <4>1, <5>1, ApplySendBackFields
        <5> QED BY <5>2 DEF Failed
      <4> QED BY <4>2
    <3>3. CASE SendBackConverged(k)
      <4>1. snap' = [snap EXCEPT !.gstatus = "FAILED"]
        BY <3>3 DEF SendBackConverged, CommitGraph
      <4>2. snap'.status = snap.status
        BY <2>1, <4>1, GstatusUpdate DEF GraphStatus
      <4> QED BY <4>2
    <3>4. CASE SendBackRefused(k)
      BY <2>2, <3>4 DEF SendBackRefused
    <3> QED BY <2>3, <3>1, <3>2, <3>3, <3>4
            DEF NodeStep, Start, AppendRunning, RecordResult, RecordOverBudget,
                RecordGateResult, RecordRejected, RecordAccepted, ResultAccepted,
                BeginApproval, CommitApproval, RecordFailure, RecordMeasuredFailure,
                Retry, Prepare, CommitReceipt, Authorised
  <2>4. CASE Plan \/ SavePlan \/ AppendIntent \/ CheckpointReceipt
    BY <2>1, <2>4 DEF Plan, SavePlan, AppendIntent, CheckpointReceipt
  <2>5. CASE Cancel \/ Resume \/ ResumeConverged
    BY <2>1, <2>5 DEF Cancel, Planned, Resume, ResumeConverged, Resumable
  <2>6. CASE Crash \/ \E key \in granted : HostEffect(key)
    BY <2>2, <2>6 DEF Crash, HostEffect, durable
  <2> QED BY <2>3, <2>4, <2>5, <2>6 DEF Next
<1> QED BY <1>1, Invariance, PTL DEF Spec, SendBackAllOrNothing
-----------------------------------------------------------------------------
(* Inputs, approvals and budgets.                                           *)

(* A node whose dependencies are all accepted has the input they make.      *)
Computed(g) ==
  \A n \in Node : (\A d \in Deps[n] : g.status[d] \in Done) => g.input[n] = InputOf(g, n)

(* An accepted approval node was approved for its present attempt and input. *)
Approved(g, rows) ==
  \A n \in Node : NodeType[n] = "HUMAN_APPROVAL" /\ g.status[n] \in Done =>
    \E a \in rows : a.node = n /\ a.attempt = g.attempt[n] /\ a.input = g.input[n]

(* No result stands over the budget of its node, nor an accepted graph over *)
(* its own.                                                                 *)
Within(g, rows) ==
  /\ g.gstatus = "ACCEPTED" => ~Over(rows, GraphBudget)
  /\ \A n \in Node : g.status[n] \in Done => ~Over(UsageOf(rows, n), NodeBudget[n])

Backed(g, approved, measured) == Computed(g) /\ Approved(g, approved) /\ Within(g, measured)

(* m has no result that g had not, and no input is computed anew.           *)
Steady(g, m) ==
  /\ m.input = g.input /\ m.constraints = g.constraints
  /\ m.gstatus = "ACCEPTED" => g.gstatus = "ACCEPTED"
  /\ \A n \in Node : m.status[n] \in Done =>
       /\ g.status[n] \in Done /\ m.out[n] = g.out[n] /\ m.verdict[n] = g.verdict[n]
       /\ m.attempt[n] = g.attempt[n]

LEMMA DepsAreNodes == \A n \in Node : Deps[n] \subseteq Node
BY Compiled DEF EdgesTyped, Deps

LEMMA SameInput ==
  ASSUME NEW g, NEW m, NEW n \in Node, m.constraints = g.constraints,
         \A d \in Deps[n] : m.out[d] = g.out[d] /\ m.verdict[d] = g.verdict[d]
  PROVE  InputOf(m, n) = InputOf(g, n)
<1>1. [d \in Deps[n] |-> << m.out[d], m.verdict[d] >>] = [d \in Deps[n] |-> << g.out[d], g.verdict[d] >>]
  OBVIOUS
<1> QED BY <1>1 DEF InputOf

LEMMA SteadyComputed ==
  ASSUME NEW g, NEW m, Computed(g), Steady(g, m)
  PROVE  Computed(m)
<1> SUFFICES ASSUME NEW n \in Node, \A d \in Deps[n] : m.status[d] \in Done
             PROVE  m.input[n] = InputOf(m, n)
  BY DEF Computed
<1>1. \A d \in Deps[n] : g.status[d] \in Done /\ m.out[d] = g.out[d] /\ m.verdict[d] = g.verdict[d]
  BY DepsAreNodes DEF Steady
<1>2. InputOf(m, n) = InputOf(g, n)
  BY <1>1, SameInput DEF Steady
<1> QED BY <1>1, <1>2 DEF Computed, Steady

(* Rows of nodes without a result change nothing.                           *)
LEMMA SteadyBacked ==
  ASSUME NEW g, NEW m, NEW approved, NEW measured, Backed(g, approved, measured), Steady(g, m),
         NEW approved2, approved \subseteq approved2, NEW measured2,
         m.gstatus = "ACCEPTED" => measured2 = measured,
         \A n \in Node : m.status[n] \in Done => UsageOf(measured2, n) = UsageOf(measured, n)
  PROVE  Backed(m, approved2, measured2)
<1>1. Computed(m)
  BY SteadyComputed DEF Backed
<1>2. Approved(m, approved2)
  BY DEF Backed, Approved, Steady
<1>3. Within(m, measured2)
  <2>1. \A n \in Node : m.status[n] \in Done => ~Over(UsageOf(measured2, n), NodeBudget[n])
    <3> SUFFICES ASSUME NEW n \in Node, m.status[n] \in Done
                 PROVE  ~Over(UsageOf(measured2, n), NodeBudget[n])
      OBVIOUS
    <3>1. g.status[n] \in Done /\ UsageOf(measured2, n) = UsageOf(measured, n)
      BY DEF Steady
    <3> QED BY <3>1 DEF Backed, Within
  <2>2. m.gstatus = "ACCEPTED" => ~Over(measured2, GraphBudget)
    BY DEF Backed, Within, Steady
  <2> QED BY <2>1, <2>2 DEF Within
<1> QED BY <1>1, <1>2, <1>3 DEF Backed

LEMMA StartNodeSteady ==
  ASSUME NEW g, GraphOK(g), NEW n \in Node, g.attempt[n] < MaxAttempts[n]
  PROVE  Steady(g, StartNode(g, n))
<1>1. PICK m : m = StartNode(g, n)
  OBVIOUS
<1>2. /\ m.gstatus = "RUNNING" /\ m.status = [g.status EXCEPT ![n] = "RUNNING"]
      /\ m.attempt = [g.attempt EXCEPT ![n] = @ + 1] /\ m.verdict = g.verdict
      /\ m.out = g.out /\ m.input = g.input /\ m.constraints = g.constraints
  BY <1>1, StartNodeFields
<1>3. \A k \in Node : m.status[k] \in Done => k # n /\ g.status[k] \in Done /\ m.attempt[k] = g.attempt[k]
  BY <1>2 DEF GraphOK, Done
<1> QED BY <1>1, <1>2, <1>3 DEF Steady

LEMMA RetryNodeSteady ==
  ASSUME NEW g, GraphOK(g), NEW n \in Node
  PROVE  Steady(g, RetryNode(g, n))
<1>1. PICK m : m = RetryNode(g, n)
  OBVIOUS
<1>2. /\ m.gstatus = "RUNNING" /\ m.status = [g.status EXCEPT ![n] = "READY"]
      /\ m.attempt = g.attempt /\ m.verdict = g.verdict
      /\ m.out = g.out /\ m.input = g.input /\ m.constraints = g.constraints
  BY <1>1, RetryNodeFields
<1>3. \A k \in Node : m.status[k] \in Done => g.status[k] \in Done
  BY <1>2 DEF GraphOK, Done
<1> QED BY <1>1, <1>2, <1>3 DEF Steady

LEMMA GstatusSteady ==
  ASSUME NEW g, GraphOK(g), NEW s \in GraphStatus \ {"ACCEPTED"}
  PROVE  Steady(g, [g EXCEPT !.gstatus = s])
<1>1. PICK m : m = [g EXCEPT !.gstatus = s]
  OBVIOUS
<1>2. /\ m.gstatus = s /\ m.status = g.status /\ m.attempt = g.attempt /\ m.verdict = g.verdict
      /\ m.out = g.out /\ m.input = g.input /\ m.constraints = g.constraints
  BY <1>1 DEF GraphOK
<1> QED BY <1>1, <1>2 DEF Steady

LEMMA CancelGraphSteady ==
  ASSUME NEW g, GraphOK(g)
  PROVE  Steady(g, CancelGraph(g))
<1>1. PICK m : m = CancelGraph(g)
  OBVIOUS
<1>2. m.out = g.out /\ m.input = g.input /\ m.constraints = g.constraints
  BY <1>1 DEF CancelGraph, GraphOK
<1>3. /\ m.gstatus = "CANCELLED" /\ m.attempt = g.attempt /\ m.verdict = g.verdict
      /\ \A n \in Node : m.status[n] = IF g.status[n] \in Waiting \cup {"RUNNING"}
                                         THEN "CANCELLED" ELSE g.status[n]
  BY <1>1, CancelGraphFields
<1> QED BY <1>1, <1>2, <1>3 DEF Steady, Done

LEMMA FailAllSteady ==
  ASSUME NEW g, GraphOK(g), NEW S \in SUBSET Node, NEW s \in {"FAILED", "RUNNING"}
  PROVE  /\ Steady(g, FailAll(g, S))
         /\ Steady(g, [FailAll(g, S) EXCEPT !.gstatus = s])
<1>1. PICK lost : lost = {n \in DownstreamOf(S) \ S : g.status[n] \in Success \cup {"READY", "RUNNING"}}
  OBVIOUS
<1>2. PICK c : c = Cleared(g, lost)
  OBVIOUS
<1>3. PICK f : f = [n \in Node |-> IF n \in S THEN "FAILED"
                                  ELSE IF n \in lost THEN "INVALIDATED"
                                  ELSE IF g.status[n] = "ACCEPTED" THEN "FROZEN"
                                  ELSE g.status[n]]
  OBVIOUS
<1>4. PICK m : m = [c EXCEPT !.status = f, !.gstatus = "FAILED"]
  OBVIOUS
<1>5. m = FailAll(g, S)
  BY <1>1, <1>2, <1>3, <1>4 DEF FailAll
<1>6. /\ GraphOK(c) /\ c.attempt = g.attempt /\ c.input = g.input /\ c.constraints = g.constraints
      /\ \A n \in Node : n \notin lost => c.verdict[n] = g.verdict[n]
  BY <1>2, ClearedFields
<1>7. \A n \in Node : n \notin lost => c.out[n] = g.out[n]
  BY <1>2 DEF Cleared, GraphOK
<1>8. /\ m.gstatus = "FAILED" /\ m.status = f /\ m.attempt = c.attempt /\ m.verdict = c.verdict
      /\ m.out = c.out /\ m.input = c.input /\ m.constraints = c.constraints /\ DOMAIN m = DOMAIN c
  BY <1>4, <1>6 DEF GraphOK
<1>9. \A n \in Node : f[n] \in Done => n \notin lost /\ g.status[n] \in Done
  BY <1>3 DEF Done
<1>10. Steady(g, m)
  BY <1>6, <1>7, <1>8, <1>9 DEF Steady
<1>11. PICK r : r = [m EXCEPT !.gstatus = s]
  OBVIOUS
<1>12. /\ r.gstatus = s /\ r.status = m.status /\ r.attempt = m.attempt /\ r.verdict = m.verdict
       /\ r.out = m.out /\ r.input = m.input /\ r.constraints = m.constraints
  BY <1>6, <1>8, <1>11 DEF GraphOK
<1>13. Steady(g, r)
  BY <1>10, <1>12 DEF Steady
<1> QED BY <1>5, <1>10, <1>11, <1>13

LEMMA RecoverSteady ==
  ASSUME NEW g, GraphOK(g)
  PROVE  Steady(g, RecoverSendBacks(g))
<1>1. TargetsOf(PendingSources(g)) \in SUBSET Node
  BY TargetsAreNodes DEF TargetsOf
<1>2. Steady(g, g)
  BY DEF Steady
<1> QED BY <1>1, <1>2, FailAllSteady DEF RecoverSendBacks

(* A node without a result.                                                 *)
Empty(g, n) == g.out[n] = NoOutput /\ g.verdict[n] = "NONE"

(* mark_ready computes every input, from the results it then keeps, and     *)
(* leaves a result as it was or takes it away.                              *)
LEMMA MarkReadyTakes ==
  ASSUME NEW g, GraphOK(g), NEW slots, NEW m, m = MarkReady(g, slots)
  PROVE  /\ m.constraints = g.constraints
         /\ \A n \in Node : m.input[n] = InputOf(g, n)
         /\ \A n \in Node : m.status[n] \in Done => m.out[n] = g.out[n] /\ m.verdict[n] = g.verdict[n]
         /\ \A n \in Node : (m.out[n] = g.out[n] /\ m.verdict[n] = g.verdict[n]) \/ Empty(m, n)
<1>1. PICK r : r = RecomputeInputs(g)
  OBVIOUS
<1>2. PICK U : U = Unselected(r)
  OBVIOUS
<1>3. PICK c : c = Cleared(r, U)
  OBVIOUS
<1>4. PICK f : f = With(r, U, "SKIPPED")
  OBVIOUS
<1>5. PICK s : s = [c EXCEPT !.status = f]
  OBVIOUS
<1>6. s = SkipUnselected(r)
  BY <1>2, <1>3, <1>4, <1>5 DEF SkipUnselected
<1>7. GraphOK(r) /\ r.status = g.status /\ r.out = g.out /\ r.verdict = g.verdict
      /\ r.constraints = g.constraints /\ \A n \in Node : r.input[n] = InputOf(g, n)
  <2>1. GraphOK(r)
    BY <1>1, RecomputeInputsSettled
  <2>2. r.status = g.status /\ r.out = g.out /\ r.verdict = g.verdict /\ r.constraints = g.constraints
    BY <1>1 DEF RecomputeInputs, GraphOK
  <2>3. \A n \in Node : r.input[n] = InputOf(g, n)
    BY <1>1 DEF RecomputeInputs, GraphOK
  <2> QED BY <2>1, <2>2, <2>3
<1>8. GraphOK(c) /\ c.input = r.input /\ c.constraints = r.constraints
      /\ \A n \in Node : n \notin U => c.verdict[n] = r.verdict[n] /\ c.out[n] = r.out[n]
  <2>1. \A n \in Node : n \notin U => c.out[n] = r.out[n]
    BY <1>3, <1>7 DEF Cleared, GraphOK
  <2> QED BY <1>3, <1>7, <2>1, ClearedFields
<1>9. s.input = c.input /\ s.constraints = c.constraints /\ s.out = c.out /\ s.verdict = c.verdict /\ DOMAIN s = DOMAIN c
      /\ s.status = f
  BY <1>5, <1>8 DEF GraphOK
<1>10. PICK d : d = Demoted(s)
  OBVIOUS
<1>11. d.input = s.input /\ d.constraints = s.constraints /\ d.out = s.out /\ d.verdict = s.verdict /\ DOMAIN d = DOMAIN s
       /\ d.status = With(s, {n \in Node : s.status[n] = "READY"}, "PENDING")
  BY <1>8, <1>9, <1>10 DEF Demoted, GraphOK
<1>12. m = [d EXCEPT !.status = With(d, ReadyNodes(d, slots), "READY")]
  BY <1>1, <1>6, <1>10 DEF MarkReady
<1>13. m.input = d.input /\ m.constraints = d.constraints /\ m.out = d.out /\ m.verdict = d.verdict
       /\ m.status = With(d, ReadyNodes(d, slots), "READY")
  BY <1>8, <1>9, <1>11, <1>12 DEF GraphOK
<1>14. \A n \in Node : m.status[n] \in Done => n \notin U
  <2> SUFFICES ASSUME NEW n \in Node, m.status[n] \in Done, n \in U PROVE FALSE
    OBVIOUS
  <2>1. d.status[n] \in Done
    BY <1>13 DEF With, Done
  <2>2. s.status[n] \in Done
    BY <1>11, <2>1 DEF With, Done
  <2> QED BY <1>4, <1>9, <2>2 DEF With, Done
<1>15. \A n \in Node : n \in U => Empty(c, n)
  BY <1>3, <1>7 DEF Cleared, GraphOK, Empty
<1> QED BY <1>7, <1>8, <1>9, <1>11, <1>13, <1>14, <1>15 DEF Empty

(* An accepted node takes its input along, and no other accepted node's     *)
(* input changes: none of its dependencies was running.                     *)
Taken(g, m, n) ==
  /\ Computed(m)
  /\ \A k \in Node : m.status[k] \in Done =>
       /\ k = n \/ g.status[k] \in Done
       /\ m.attempt[k] = g.attempt[k]
       /\ NodeType[k] # "MERGE" => m.input[k] = g.input[k]

LEMMA AcceptNodeTaken ==
  ASSUME NEW g, NEW slots, Sound(g, slots), Computed(g), NEW n \in Node, g.status[n] = "RUNNING",
         NEW output \in Output, NEW verdict \in Verdict
  PROVE  Taken(g, AcceptNode(g, n, output, verdict), n)
<1>1. PICK a : a = [g EXCEPT !.status[n] = "ACCEPTED", !.out[n] = output,
                     !.verdict[n] = IF NodeType[n] = "GATE" THEN verdict ELSE @]
  OBVIOUS
<1>2. PICK m : m = MarkReady(a, DefaultParallelism)
  OBVIOUS
<1>3. PICK r : r = [m EXCEPT !.gstatus = IF GloballyAccepted(m) THEN "ACCEPTED" ELSE @]
  OBVIOUS
<1>4. r = AcceptNode(g, n, output, verdict)
  BY <1>1, <1>2, <1>3 DEF AcceptNode
<1>5. /\ DOMAIN a = DOMAIN g /\ a.gstatus = g.gstatus
      /\ a.status = [g.status EXCEPT ![n] = "ACCEPTED"] /\ a.attempt = g.attempt
      /\ a.verdict = [g.verdict EXCEPT ![n] = IF NodeType[n] = "GATE" THEN verdict ELSE @]
      /\ a.out = [g.out EXCEPT ![n] = output]
      /\ a.input = g.input /\ a.constraints = g.constraints
  BY <1>1 DEF GraphOK, Sound
<1>6. GraphOK(a)
  <2>1. a.status \in [Node -> NodeStatus]
    BY <1>5 DEF GraphOK, NodeStatus, Sound
  <2>2. a.verdict \in [Node -> Verdict]
    BY <1>5 DEF GraphOK, Sound
  <2>3. \A k \in Node : NodeType[k] # "GATE" => a.verdict[k] = "NONE"
    BY <1>5 DEF GraphOK, Sound
  <2>4. a.out \in [Node -> Output \cup {NoOutput}]
    BY <1>5 DEF GraphOK, Sound
  <2> QED BY <1>5, <2>1, <2>2, <2>3, <2>4 DEF GraphOK, Sound
<1>7. GraphOK(m) /\ Settled(a, m)
  BY <1>2, <1>6, MarkReadySettled
<1>8. /\ m.constraints = a.constraints
      /\ \A k \in Node : m.input[k] = InputOf(a, k)
      /\ \A k \in Node : m.status[k] \in Done => m.out[k] = a.out[k] /\ m.verdict[k] = a.verdict[k]
  <2> HIDE DEF DefaultParallelism
  <2> QED BY <1>2, <1>6, MarkReadyTakes
<1>9. /\ r.status = m.status /\ r.attempt = m.attempt /\ r.verdict = m.verdict
      /\ r.out = m.out /\ r.input = m.input /\ r.constraints = m.constraints
  BY <1>3, <1>7 DEF GraphOK
<1>10. Computed(r)
  <2> SUFFICES ASSUME NEW k \in Node, \A d \in Deps[k] : r.status[d] \in Done
               PROVE  r.input[k] = InputOf(r, k)
    BY DEF Computed
  <2>1. \A d \in Deps[k] : r.out[d] = a.out[d] /\ r.verdict[d] = a.verdict[d]
    BY <1>8, <1>9, DepsAreNodes
  <2>2. r.constraints = a.constraints
    BY <1>5, <1>8, <1>9
  <2>3. InputOf(r, k) = InputOf(a, k)
    BY <2>1, <2>2, SameInput
  <2> QED BY <1>8, <1>9, <2>3
<1>11. ASSUME NEW k \in Node, r.status[k] \in Done
       PROVE  /\ k = n \/ g.status[k] \in Done
              /\ r.attempt[k] = g.attempt[k]
              /\ NodeType[k] # "MERGE" => r.input[k] = g.input[k]
  <2>1. a.status[k] \in Done
    BY <1>7, <1>9, <1>11 DEF Settled, Waiting, Done
  <2>2. k = n \/ g.status[k] \in Done
    BY <1>5, <2>1 DEF Sound, GraphOK
  <2>3. r.attempt = g.attempt
    BY <1>5, <1>7, <1>9 DEF Settled
  <2>4. ASSUME NodeType[k] # "MERGE" PROVE r.input[k] = g.input[k]
    <3>1. g.status[k] \in Done \cup {"RUNNING"}
      BY <2>2
    <3>2. \A d \in Deps[k] : g.status[d] \in Done
      BY <2>4, <3>1 DEF Sound, EdgesHold, PredecessorReady, Deps
    <3>3. \A d \in Deps[k] : d \in Node /\ d # n
      BY <3>2, DepsAreNodes DEF Done
    <3>4. \A d \in Deps[k] : a.out[d] = g.out[d] /\ a.verdict[d] = g.verdict[d]
      BY <1>5, <3>3 DEF Sound, GraphOK
    <3>5. InputOf(a, k) = InputOf(g, k)
      <4>1. a.constraints = g.constraints
        BY <1>5
      <4> QED BY <3>4, <4>1, SameInput
    <3>6. g.input[k] = InputOf(g, k)
      BY <3>2 DEF Computed
    <3> QED BY <1>8, <1>9, <3>5, <3>6
  <2> QED BY <2>2, <2>3, <2>4
<1> QED BY <1>4, <1>10, <1>11 DEF Taken

LEMMA ResolveGateTaken ==
  ASSUME NEW g, NEW slots, Sound(g, slots), Computed(g), NEW n \in Node, g.status[n] = "RUNNING",
         NEW output \in Output, NEW verdict \in GateResult
  PROVE  Taken(g, ResolveGate(g, n, output, verdict), n)
<1>1. PICK a : a = AcceptNode(g, n, output, verdict)
  OBVIOUS
<1>2. verdict \in Verdict
  BY DEF Verdict
<1>3. Taken(g, a, n) /\ GraphOK(a)
  BY <1>1, <1>2, AcceptNodeTaken, AcceptNodeFields DEF Sound
<1>4. PICK r : r = [a EXCEPT !.gstatus = IF verdict = "PASS" THEN @
                                        ELSE IF n = GlobalGate THEN "FAILED" ELSE "RUNNING"]
  OBVIOUS
<1>5. r = ResolveGate(g, n, output, verdict)
  BY <1>1, <1>4 DEF ResolveGate
<1>6. /\ r.status = a.status /\ r.attempt = a.attempt /\ r.verdict = a.verdict
      /\ r.out = a.out /\ r.input = a.input /\ r.constraints = a.constraints
  BY <1>3, <1>4 DEF GraphOK
<1>7. \A k \in Node : InputOf(r, k) = InputOf(a, k)
  BY <1>6 DEF InputOf
<1> QED BY <1>3, <1>5, <1>6, <1>7 DEF Taken, Computed

(* A result accepted within the budgets.                                    *)
LEMMA TakenBacked ==
  ASSUME NEW g, NEW m, NEW n \in Node, NEW approved, NEW measured, NEW row, NEW approved2,
         Backed(g, approved, measured), Taken(g, m, n), row.node = n,
         ~BudgetViolated(n, measured \cup {row}),
         approved \subseteq approved2,
         NodeType[n] = "HUMAN_APPROVAL" =>
           \E a \in approved2 : a.node = n /\ a.attempt = g.attempt[n] /\ a.input = g.input[n]
  PROVE  Backed(m, approved2, measured \cup {row})
<1>1. Approved(m, approved2)
  <2> SUFFICES ASSUME NEW k \in Node, NodeType[k] = "HUMAN_APPROVAL", m.status[k] \in Done
               PROVE  \E a \in approved2 : a.node = k /\ a.attempt = m.attempt[k] /\ a.input = m.input[k]
    BY DEF Approved
  <2>1. m.attempt[k] = g.attempt[k] /\ m.input[k] = g.input[k] /\ (k = n \/ g.status[k] \in Done)
    BY DEF Taken
  <2>2. CASE k = n
    BY <2>1, <2>2
  <2>3. CASE g.status[k] \in Done
    BY <2>1, <2>3 DEF Backed, Approved
  <2> QED BY <2>1, <2>2, <2>3
<1>2. Within(m, measured \cup {row})
  <2>1. ~Over(measured \cup {row}, GraphBudget) /\ ~Over(UsageOf(measured \cup {row}, n), NodeBudget[n])
    BY DEF BudgetViolated
  <2>2. ASSUME NEW k \in Node, m.status[k] \in Done, k # n
        PROVE  ~Over(UsageOf(measured \cup {row}, k), NodeBudget[k])
    <3>1. UsageOf(measured \cup {row}, k) = UsageOf(measured, k)
      BY <2>2 DEF UsageOf
    <3>2. g.status[k] \in Done
      BY <2>2 DEF Taken
    <3> QED BY <2>2, <3>1, <3>2 DEF Backed, Within
  <2> QED BY <2>1, <2>2 DEF Within
<1> QED BY <1>1, <1>2 DEF Backed, Taken

(* A measured failure.                                                      *)
LEMMA MeasuredBacked ==
  ASSUME NEW g, NEW m, NEW n \in Node, NEW approved, NEW measured, NEW row, NEW approved2,
         Backed(g, approved, measured), Steady(g, m), row.node = n,
         m.status[n] \notin Done, m.gstatus # "ACCEPTED", approved \subseteq approved2
  PROVE  Backed(m, approved2, measured \cup {row})
<1>1. \A k \in Node : m.status[k] \in Done => UsageOf(measured \cup {row}, k) = UsageOf(measured, k)
  BY DEF UsageOf
<1> QED BY <1>1, SteadyBacked
-----------------------------------------------------------------------------
CInv == \A g \in Graphs : Backed(g, approvals, usage)

LEMMA CommitBacks ==
  ASSUME NEW m, snap' = m, ckpt' = m, Backed(m, approvals', usage')
  PROVE  CInv'
BY DEF CInv, Graphs

LEMMA StandBacks ==
  ASSUME CInv, {snap', ckpt'} \subseteq {snap, ckpt}, UNCHANGED << approvals, usage >>
  PROVE  CInv'
BY DEF CInv, Graphs

(* What commits no result.                                                  *)
LEMMA SteadyCommit ==
  ASSUME CInv, NEW g \in Graphs, NEW m, Steady(g, m), snap' = m,
         ckpt' \in {m, ckpt}, UNCHANGED << approvals, usage >>
  PROVE  CInv'
<1>1. Backed(m, approvals, usage)
  BY SteadyBacked DEF CInv
<1> QED BY <1>1 DEF CInv, Graphs

LEMMA PlanBacks == CInv /\ (Plan \/ SavePlan \/ AppendIntent) => CInv'
<1>1. ASSUME CInv, Plan PROVE CInv'
  <2>1. PICK f : f = FreshGraph
    OBVIOUS
  <2>2. PICK m : m = MarkReady(f, MaxParallelism)
    OBVIOUS
  <2>3. GraphOK(f) /\ f.gstatus = "COMPILED" /\ \A n \in Node : f.status[n] = "PENDING"
    <3>1. \A n \in Node : f.status[n] = "PENDING"
      BY <2>1 DEF FreshGraph
    <3> QED BY <2>1, <3>1, FreshGraphSound DEF Sound
  <2>4. GraphOK(m) /\ Settled(f, m)
    BY <2>2, <2>3, MarkReadySettled
  <2>5. /\ m.constraints = f.constraints
        /\ \A n \in Node : m.input[n] = InputOf(f, n)
        /\ \A n \in Node : m.status[n] \in Done => m.out[n] = f.out[n] /\ m.verdict[n] = f.verdict[n]
    BY <2>2, <2>3, MarkReadyTakes
  <2>6. \A n \in Node : m.status[n] \notin Done
    BY <2>3, <2>4 DEF Settled, Waiting, Done
  <2>7. Computed(m)
    <3> SUFFICES ASSUME NEW n \in Node, \A d \in Deps[n] : m.status[d] \in Done
                 PROVE  m.input[n] = InputOf(m, n)
      BY DEF Computed
    <3>1. \A d \in Deps[n] : m.out[d] = f.out[d] /\ m.verdict[d] = f.verdict[d]
      BY <2>5, DepsAreNodes
    <3>2. InputOf(m, n) = InputOf(f, n)
      BY <2>5, <3>1, SameInput
    <3> QED BY <2>5, <3>2
  <2>8. Backed(m, approvals', usage')
    BY <2>3, <2>4, <2>6, <2>7 DEF Backed, Approved, Within, Settled
  <2>9. snap' = snap /\ snap = NoGraph /\ ckpt' = m
    BY <1>1, <2>1, <2>2 DEF Plan
  <2> QED BY <2>8, <2>9 DEF CInv, Graphs
<1>2. CInv /\ (SavePlan \/ AppendIntent) => CInv'
  BY StandBacks DEF SavePlan, AppendIntent
<1> QED BY <1>1, <1>2

LEMMA StartBacks ==
  ASSUME IInv, CInv, NEW n \in Node, Start(n) \/ AppendRunning(n)
  PROVE  CInv'
<1>1. CASE Start(n)
  <2>1. /\ snap # NoGraph /\ Sound(snap, MaxParallelism) /\ n \in ReadyNodes(snap, MaxParallelism)
        /\ snap' = StartNode(snap, n)
        /\ UNCHANGED << ckpt, approvals, usage >>
    BY <1>1 DEF Start, Startable, Planned, IInv, GraphsSound
  <2>2. Candidate(snap, n)
    BY <2>1, Parallel, ReadyNodeFits DEF Sound
  <2>3. Steady(snap, StartNode(snap, n))
    BY <2>1, <2>2, StartNodeSteady DEF Candidate, Sound
  <2>4. snap \in Graphs
    BY <2>1 DEF Graphs
  <2> QED BY <2>1, <2>3, <2>4, SteadyCommit
<1>2. CASE AppendRunning(n)
  BY <1>2, StandBacks DEF AppendRunning
<1> QED BY <1>1, <1>2

LEMMA FailNodeSteady ==
  ASSUME NEW g, GraphOK(g), NEW n \in Node
  PROVE  /\ Steady(g, FailNode(g, n))
         /\ FailNode(g, n).status[n] = "FAILED" /\ FailNode(g, n).gstatus = "FAILED"
<1>1. {n} \in SUBSET Node
  OBVIOUS
<1>2. Steady(g, FailAll(g, {n}))
  BY <1>1, FailAllSteady
<1>3. Failed(g, FailAll(g, {n}), {n}) /\ FailAll(g, {n}).gstatus = "FAILED"
  BY <1>1, FailAllFields
<1> QED BY <1>2, <1>3 DEF Failed, FailNode

LEMMA ResultBacks ==
  ASSUME IInv, CInv, NEW n \in Node, RecordResult(n)
  PROVE  CInv'
<1>1. PICK amount \in Amount \cup {Unknown} :
        \/ RecordOverBudget(n, amount)
        \/ \E output \in Output, verdict \in Outcome : RecordGateResult(n, output, verdict, amount)
        \/ \E verdict \in Outcome : RecordRejected(n, verdict, amount)
        \/ \E output \in Output : RecordAccepted(n, output, amount)
  BY DEF RecordResult
<1>2. PICK row : row = UsageRow(n, snap.attempt[n], amount)
  OBVIOUS
<1>3. /\ ResultAccepted(n, row) /\ row.node = n
  BY <1>1, <1>2 DEF RecordOverBudget, RecordGateResult, RecordRejected, RecordAccepted, UsageRow
<1>4. /\ snap # NoGraph /\ snap \in Graphs /\ Sound(snap, MaxParallelism) /\ GraphOK(snap)
      /\ Backed(snap, approvals, usage)
      /\ snap.status[n] = "RUNNING" /\ NodeType[n] # "HUMAN_APPROVAL"
      /\ usage' = usage \cup {row} /\ approvals' = approvals
  BY <1>3 DEF ResultAccepted, Planned, IInv, GraphsSound, Sound, Graphs, CInv
<1>5. CASE snap' = FailNode(snap, n) /\ ckpt' = FailNode(snap, n)
  <2>1. Backed(FailNode(snap, n), approvals', usage')
    BY <1>3, <1>4, FailNodeSteady, MeasuredBacked DEF Done
  <2> QED BY <1>5, <2>1, CommitBacks
<1>6. ASSUME NEW output \in Output, NEW verdict \in Outcome, RecordGateResult(n, output, verdict, amount)
      PROVE  CInv'
  <2>1. PICK m : m = ResolveGate(snap, n, output, verdict)
    OBVIOUS
  <2>2. snap' = m /\ ckpt' = m /\ ~BudgetViolated(n, usage \cup {row})
    BY <1>2, <1>6, <2>1 DEF RecordGateResult, CommitGraph
  <2>3. verdict \in GateResult
    BY EngineConstants
  <2>4. Taken(snap, m, n)
    BY <1>4, <2>1, <2>3, ResolveGateTaken DEF Backed
  <2>5. Backed(m, approvals', usage')
    BY <1>3, <1>4, <2>2, <2>4, TakenBacked
  <2> QED BY <2>2, <2>5, CommitBacks
<1>7. ASSUME NEW output \in Output, RecordAccepted(n, output, amount)
      PROVE  CInv'
  <2>1. PICK m : m = AcceptNode(snap, n, output, "NONE")
    OBVIOUS
  <2>2. snap' = m /\ ckpt' = m /\ ~BudgetViolated(n, usage \cup {row})
    BY <1>2, <1>7, <2>1 DEF RecordAccepted, CommitGraph
  <2>3. "NONE" \in Verdict
    BY DEF Verdict
  <2>4. Taken(snap, m, n)
    BY <1>4, <2>1, <2>3, AcceptNodeTaken DEF Backed
  <2>5. Backed(m, approvals', usage')
    BY <1>3, <1>4, <2>2, <2>4, TakenBacked
  <2> QED BY <2>2, <2>5, CommitBacks
<1>8. CASE RecordOverBudget(n, amount) \/ \E verdict \in Outcome : RecordRejected(n, verdict, amount)
  BY <1>5, <1>8 DEF RecordOverBudget, RecordRejected, CommitFailure, CommitGraph
<1> QED BY <1>1, <1>6, <1>7, <1>8

LEMMA GivenUpSteady ==
  ASSUME NEW g, GraphOK(g)
  PROVE  Steady(g, [g EXCEPT !.gstatus = "FAILED"])
BY GstatusSteady DEF GraphStatus

LEMMA SendBackBacks ==
  ASSUME IInv, CInv, NEW n \in Node,
         SendBackApplied(n) \/ SendBackConverged(n) \/ SendBackRefused(n)
  PROVE  CInv'
<1>1. /\ SendBackDone(n) /\ snap # NoGraph /\ GraphOK(snap) /\ snap \in Graphs
      /\ UNCHANGED << approvals, usage >>
  BY DEF SendBackApplied, SendBackConverged, SendBackRefused, SendBackDone,
         IInv, PcOK, GraphsSound, Sound, Idle, Graphs
<1>2. CASE SendBackApplied(n)
  <2>1. PICK m : m = ApplySendBack(snap, n)
    OBVIOUS
  <2>2. Steady(snap, m)
    BY <1>1, <2>1, TargetsAreNodes, FailAllSteady DEF ApplySendBack
  <2> QED BY <1>1, <1>2, <2>1, <2>2, SteadyCommit DEF SendBackApplied, CommitGraph
<1>3. CASE SendBackConverged(n)
  <2>1. PICK m : m = [snap EXCEPT !.gstatus = "FAILED"]
    OBVIOUS
  <2>2. Steady(snap, m)
    BY <1>1, <2>1, GivenUpSteady
  <2> QED BY <1>1, <1>3, <2>1, <2>2, SteadyCommit DEF SendBackConverged, CommitGraph
<1>4. CASE SendBackRefused(n)
  BY <1>1, <1>4, StandBacks DEF SendBackRefused
<1> QED BY <1>2, <1>3, <1>4

LEMMA ApprovalBacks ==
  ASSUME IInv, CInv, NEW n \in Node,
         \/ BeginApproval(n)
         \/ \E op \in Op, output \in Output, amount \in Amount \cup {Unknown} :
              CommitApproval(n, op, output, amount)
  PROVE  CInv'
<1>1. CASE BeginApproval(n)
  BY <1>1, StandBacks DEF BeginApproval
<1>2. ASSUME NEW op \in Op, NEW output \in Output, NEW amount \in Amount \cup {Unknown},
             CommitApproval(n, op, output, amount)
      PROVE  CInv'
  <2>1. PICK g : g = StartNode(snap, n)
    OBVIOUS
  <2>2. PICK row : row = UsageRow(n, g.attempt[n], amount)
    OBVIOUS
  <2>3. PICK a : a = [node |-> n, attempt |-> g.attempt[n], input |-> g.input[n], op |-> op]
    OBVIOUS
  <2>4. /\ usage' = usage \cup {row} /\ approvals' = approvals \cup {a}
        /\ snap' = ckpt'
        /\ snap' = IF BudgetViolated(n, usage \cup {row}) THEN FailNode(g, n)
                   ELSE AcceptNode(g, n, output, "NONE")
    BY <1>2, <2>1, <2>2, <2>3 DEF CommitApproval, CommitGraph
  <2>5. /\ n \in ReadyNodes(snap, MaxParallelism)
        /\ snap # NoGraph /\ Sound(snap, MaxParallelism) /\ Backed(snap, approvals, usage)
    BY <1>2 DEF CommitApproval, IInv, PcOK, GraphsSound, Idle, CInv, Graphs
  <2>6. Sound(g, MaxParallelism) /\ g.status[n] = "RUNNING" /\ GraphOK(g)
    BY <2>1, <2>5, StartedNode, SoundIsGraph
  <2>7. Steady(snap, g)
    <3>1. Candidate(snap, n)
      BY <2>5, Parallel, ReadyNodeFits
    <3> QED BY <2>1, <2>5, <3>1, StartNodeSteady DEF Candidate, Sound
  <2>8. Backed(g, approvals, usage)
    BY <2>5, <2>7, SteadyBacked
  <2>9. row.node = n /\ a.node = n /\ a.attempt = g.attempt[n] /\ a.input = g.input[n]
    BY <2>2, <2>3 DEF UsageRow
  <2>10. CASE BudgetViolated(n, usage \cup {row})
    <3>1. Backed(FailNode(g, n), approvals', usage')
      BY <2>4, <2>6, <2>8, <2>9, FailNodeSteady, MeasuredBacked DEF Done
    <3> QED BY <2>4, <2>10, <3>1, CommitBacks
  <2>11. CASE ~BudgetViolated(n, usage \cup {row})
    <3>1. "NONE" \in Verdict
      BY DEF Verdict
    <3>2. Taken(g, AcceptNode(g, n, output, "NONE"), n)
      BY <2>6, <2>8, <3>1, AcceptNodeTaken DEF Backed
    <3>3. Backed(AcceptNode(g, n, output, "NONE"), approvals', usage')
      BY <2>4, <2>8, <2>9, <2>11, <3>2, TakenBacked
    <3> QED BY <2>4, <2>11, <3>3, CommitBacks
  <2> QED BY <2>10, <2>11
<1> QED BY <1>1, <1>2

LEMMA FailureBacks ==
  ASSUME IInv, CInv, NEW n \in Node, NEW reason \in HostReason,
         \/ RecordFailure(n, reason)
         \/ \E amount \in Amount \cup {Unknown} : RecordMeasuredFailure(n, reason, amount)
  PROVE  CInv'
<1>1. PICK m : m = FailNode(snap, n)
  OBVIOUS
<1>2. /\ snap # NoGraph /\ snap \in Graphs /\ GraphOK(snap) /\ Backed(snap, approvals, usage)
      /\ snap' = m /\ ckpt' = m /\ approvals' = approvals
  BY <1>1 DEF RecordFailure, RecordMeasuredFailure, CommitFailure, CommitGraph, Planned,
         IInv, GraphsSound, Sound, Graphs, CInv
<1>3. Steady(snap, m) /\ m.status[n] = "FAILED" /\ m.gstatus = "FAILED"
  BY <1>1, <1>2, FailNodeSteady
<1>4. CASE RecordFailure(n, reason)
  BY <1>2, <1>3, <1>4, SteadyCommit DEF RecordFailure
<1>5. ASSUME NEW amount \in Amount \cup {Unknown}, RecordMeasuredFailure(n, reason, amount)
      PROVE  CInv'
  <2>1. PICK row : row = UsageRow(n, snap.attempt[n], amount)
    OBVIOUS
  <2>2. usage' = usage \cup {row} /\ row.node = n
    BY <1>5, <2>1 DEF RecordMeasuredFailure, UsageRow
  <2>3. Backed(m, approvals', usage')
    BY <1>2, <1>3, <2>2, MeasuredBacked DEF Done
  <2> QED BY <1>2, <2>3, CommitBacks
<1> QED BY <1>4, <1>5

LEMMA RetryBacks ==
  ASSUME IInv, CInv, NEW n \in Node, Retry(n)
  PROVE  CInv'
<1>1. PICK m : m = RetryNode(snap, n)
  OBVIOUS
<1>2. /\ snap \in Graphs /\ GraphOK(snap) /\ snap' = m
      /\ UNCHANGED << ckpt, approvals, usage >>
  BY <1>1 DEF Retry, Planned, IInv, GraphsSound, Sound, Graphs
<1>3. Steady(snap, m)
  BY <1>1, <1>2, RetryNodeSteady
<1> QED BY <1>2, <1>3, SteadyCommit

LEMMA CancelBacks ==
  ASSUME IInv, CInv, Cancel
  PROVE  CInv'
<1>1. PICK m : m = CancelGraph(snap)
  OBVIOUS
<1>2. /\ snap \in Graphs /\ GraphOK(snap) /\ snap' = m /\ ckpt' = m
      /\ UNCHANGED << approvals, usage >>
  BY <1>1 DEF Cancel, CommitGraph, Planned, IInv, GraphsSound, Sound, Graphs
<1>3. Steady(snap, m)
  BY <1>1, <1>2, CancelGraphSteady
<1> QED BY <1>2, <1>3, SteadyCommit

LEMMA ResumeBacks ==
  ASSUME IInv, CInv, Resume \/ ResumeConverged
  PROVE  CInv'
<1>1. PICK m : snap' = m /\ ckpt' = m
               /\ m \in {RecoverSendBacks(ckpt), [ckpt EXCEPT !.gstatus = "FAILED"]}
  BY DEF Resume, ResumeConverged, CommitGraph
<1>2. ckpt \in Graphs /\ GraphOK(ckpt) /\ UNCHANGED << approvals, usage >>
  BY DEF Resume, ResumeConverged, Resumable, IInv, GraphsSound, Sound, Graphs
<1>3. Steady(ckpt, m)
  BY <1>1, <1>2, RecoverSteady, GivenUpSteady
<1> QED BY <1>1, <1>2, <1>3, SteadyCommit

LEMMA ReceiptBacks ==
  ASSUME CInv, NEW n \in Node, NEW op \in Op, Prepare(n, op) \/ CommitReceipt(n, op)
  PROVE  CInv'
BY StandBacks DEF Prepare, CommitReceipt

(* Every graph a crash can leave stands on its inputs, its approvals and    *)
(* its budgets.                                                             *)
THEOREM ResultsAreBacked == Spec => []CInv
<1>1. Init => CInv
  BY DEF Init, CInv, Graphs
<1>2. IInv /\ CInv /\ [Next]_vars => CInv'
  <2> SUFFICES ASSUME IInv, CInv, [Next]_vars PROVE CInv'
    OBVIOUS
  <2>1. ASSUME NEW n \in Node, NodeStep(n) PROVE CInv'
    BY <2>1, StartBacks, ResultBacks, SendBackBacks, ApprovalBacks,
       FailureBacks, RetryBacks, ReceiptBacks DEF NodeStep
  <2>2. CASE CheckpointReceipt
    BY <2>2, StandBacks DEF CheckpointReceipt
  <2>3. CASE Crash \/ (\E key \in granted : HostEffect(key)) \/ UNCHANGED vars
    BY <2>3, StandBacks DEF Crash, HostEffect, vars, durable
  <2> QED BY <2>1, <2>2, <2>3, PlanBacks, CancelBacks, ResumeBacks DEF Next
<1> QED BY <1>1, <1>2, Invariance, PTL DEF Spec

(* No graph is accepted over its budget, and no result stands of a node     *)
(* over its own: not after failures, retries, rollbacks or parallel work.   *)
THEOREM BudgetsAreKept == Spec => []AcceptedWithinBudget
<1>1. CInv => AcceptedWithinBudget
  BY DEF CInv, Graphs, Backed, Within, AcceptedWithinBudget
<1> QED BY <1>1, ResultsAreBacked, PTL

(* A running attempt was started on the inputs it would be given now, unless *)
(* it is a MERGE of a branch that was skipped.                              *)
StaleMerge(n) == NodeType[n] = "MERGE" /\ \E d \in Deps[n] : snap.status[d] = "SKIPPED"

THEOREM InputsAreFresh ==
  Spec => [](snap # NoGraph => \A n \in Running(snap) :
               snap.input[n] = InputOf(snap, n) \/ StaleMerge(n))
<1>1. IInv /\ CInv => (snap # NoGraph => \A n \in Running(snap) :
                         snap.input[n] = InputOf(snap, n) \/ StaleMerge(n))
  <2> SUFFICES ASSUME IInv, CInv, snap # NoGraph, NEW n \in Running(snap), ~StaleMerge(n)
               PROVE  snap.input[n] = InputOf(snap, n)
    OBVIOUS
  <2>1. n \in Node /\ snap.status[n] = "RUNNING" /\ EdgesHold(snap)
    BY DEF Running, IInv, GraphsSound, Sound
  <2>2. \A d \in Deps[n] : PredecessorReady(snap, d, n)
    BY <2>1 DEF EdgesHold, Deps
  <2>3. \A d \in Deps[n] : snap.status[d] \in Done
    BY <2>2 DEF PredecessorReady, StaleMerge
  <2> QED BY <2>1, <2>3 DEF CInv, Graphs, Backed, Computed
<1> QED BY <1>1, Invariance, ResultsAreBacked, PTL

(* Without a MERGE every running attempt has the inputs it would be given.  *)
THEOREM InputsAreFreshWithoutMerge ==
  ASSUME \A n \in Node : NodeType[n] # "MERGE"
  PROVE  Spec => []RunningInputFresh
<1>1. (snap # NoGraph => \A n \in Running(snap) :
         snap.input[n] = InputOf(snap, n) \/ StaleMerge(n)) => RunningInputFresh
  BY DEF StaleMerge, RunningInputFresh, Running
<1> QED BY <1>1, InputsAreFresh, PTL

(* Whenever the host is granted an operation, a node that may approve it is *)
(* accepted, by the approval of its present attempt and input.              *)
THEOREM ApproversAreCurrent == Spec => ApproverCurrent
<1>1. IInv /\ CInv /\ [Next]_vars =>
        [\A key \in granted' \ granted : \E a \in approvals :
           /\ Approves(key.op, a.node)
           /\ a.attempt = snap.attempt[a.node] /\ a.input = snap.input[a.node]]_vars
  <2> SUFFICES ASSUME IInv, CInv, Next, NEW key \in granted' \ granted
               PROVE  \E a \in approvals :
                        /\ Approves(key.op, a.node)
                        /\ a.attempt = snap.attempt[a.node] /\ a.input = snap.input[a.node]
    OBVIOUS
  <2>1. PICK n \in Node, op \in Op : Prepare(n, op)
    <3>1. ASSUME NEW n \in Node, NodeStep(n) PROVE \E op \in Op : Prepare(n, op)
      BY <3>1 DEF NodeStep, Start, AppendRunning, RecordResult, RecordOverBudget,
         RecordGateResult, RecordRejected, RecordAccepted, ResultAccepted,
         SendBackApplied, SendBackConverged, SendBackRefused, SendBackDone,
         BeginApproval, CommitApproval, RecordFailure, RecordMeasuredFailure,
         Retry, CommitReceipt
    <3>2. ~(Plan \/ SavePlan \/ AppendIntent \/ Cancel \/ CheckpointReceipt \/ Resume
            \/ ResumeConverged \/ Crash \/ \E k \in granted : HostEffect(k))
      BY DEF Plan, SavePlan, AppendIntent, Cancel, CheckpointReceipt, Resume,
             ResumeConverged, Crash, HostEffect
    <3> QED BY <3>1, <3>2 DEF Next
  <2>2. /\ key = Key(n, op) /\ Authorised(n, op)
    BY <2>1 DEF Prepare
  <2>3. /\ key.op = op /\ snap # NoGraph /\ snap.status[n] = "RUNNING" /\ op \in ExternalOps[n]
    BY <2>2 DEF Key, Authorised, Planned
  <2>4. PICK d \in Node : /\ NodeType[d] = "HUMAN_APPROVAL" /\ op \in ApproveOps[d]
                          /\ [from |-> d, to |-> n, type |-> "gate_pass"] \in Edge
    BY <2>3, Compiled DEF ExternalNodesApproved
  <2>5. NodeType[n] # "MERGE"
    BY <2>3, Compiled DEF ExternalNodesApproved
  <2>6. snap.status[d] \in Done
    BY <2>3, <2>4, <2>5 DEF IInv, GraphsSound, Sound, EdgesHold, PredecessorReady
  <2>7. PICK a \in approvals : a.node = d /\ a.attempt = snap.attempt[d] /\ a.input = snap.input[d]
    BY <2>3, <2>4, <2>6 DEF CInv, Graphs, Backed, Approved
  <2> QED BY <2>3, <2>4, <2>6, <2>7 DEF Approves
<1> QED BY <1>1, Invariance, ResultsAreBacked, PTL DEF Spec, ApproverCurrent
-----------------------------------------------------------------------------
(* Recursion.  The recursive functions of the model refer, for a node, to   *)
(* nodes of lower rank only.  Each has a solution therefore, and what it    *)
(* says of every node holds of it.                                          *)

(* A recursion over a rank has a solution: f is one up to a rank when it    *)
(* agrees with F[f] there, and F[f] is then one up to the next.             *)
RankRecursive(F, S, V, rank) ==
  \A f, h \in [S -> V] : \A n \in S :
    (\A m \in S : rank[m] < rank[n] => f[m] = h[m]) => F[f][n] = F[h][n]

SolvedTo(F, S, rank, f, k) == \A n \in S : rank[n] < k => f[n] = F[f][n]

LEMMA SolutionGrows ==
  ASSUME NEW S, NEW V, NEW rank \in [S -> Nat], NEW F \in [[S -> V] -> [S -> V]],
         RankRecursive(F, S, V, rank), NEW k \in Nat, NEW f \in [S -> V], SolvedTo(F, S, rank, f, k)
  PROVE  SolvedTo(F, S, rank, F[f], k + 1)
<1> SUFFICES ASSUME NEW n \in S, rank[n] < k + 1 PROVE F[f][n] = F[F[f]][n]
  BY DEF SolvedTo
<1>1. F[f] \in [S -> V]
  OBVIOUS
<1>2. ASSUME NEW m \in S, rank[m] < rank[n] PROVE f[m] = F[f][m]
  <2>1. rank[m] < k
    BY <1>2
  <2> QED BY <2>1 DEF SolvedTo
<1> QED BY <1>1, <1>2 DEF RankRecursive

LEMMA SolutionsExist ==
  ASSUME NEW S, NEW V, NEW rank \in [S -> Nat], NEW F \in [[S -> V] -> [S -> V]],
         RankRecursive(F, S, V, rank), V # {}, NEW k0 \in Nat
  PROVE  \E f \in [S -> V] : SolvedTo(F, S, rank, f, k0)
<1> SUFFICES ASSUME ~ \E f \in [S -> V] : SolvedTo(F, S, rank, f, k0) PROVE FALSE
  OBVIOUS
<1> DEFINE Ks == {k \in Nat : ~ \E f \in [S -> V] : SolvedTo(F, S, rank, f, k)}
<1>1. Ks \in SUBSET Nat /\ Ks # {}
  OBVIOUS
<1>2. PICK k \in Ks : \A j \in Ks : k <= j
  <2> HIDE DEF Ks
  <2> QED BY <1>1, LeastNatural
<1>3. k \in Nat /\ ~ \E f \in [S -> V] : SolvedTo(F, S, rank, f, k)
  OBVIOUS
<1>4. k # 0
  <2>1. PICK v \in V : TRUE
    OBVIOUS
  <2>2. [n \in S |-> v] \in [S -> V]
    OBVIOUS
  <2>3. SolvedTo(F, S, rank, [n \in S |-> v], 0)
    BY DEF SolvedTo
  <2> QED BY <1>3, <2>2, <2>3
<1>5. k - 1 \in Nat /\ k - 1 \notin Ks
  BY <1>2, <1>3, <1>4
<1>6. PICK f \in [S -> V] : SolvedTo(F, S, rank, f, k - 1)
  BY <1>5
<1>7. F[f] \in [S -> V] /\ SolvedTo(F, S, rank, F[f], (k - 1) + 1)
  BY <1>5, <1>6, SolutionGrows
<1>8. (k - 1) + 1 = k
  BY <1>3
<1> QED BY <1>3, <1>7, <1>8

WellRecursive(F, S, V, rank) ==
  /\ IsFiniteSet(S) /\ V # {} /\ rank \in [S -> Nat]
  /\ F \in [[S -> V] -> [S -> V]]
  /\ RankRecursive(F, S, V, rank)

LEMMA RecursionSolved ==
  ASSUME NEW S, NEW V, NEW rank, NEW F, WellRecursive(F, S, V, rank)
  PROVE  \E f \in [S -> V] : f = F[f]
<1> USE DEF WellRecursive
<1>1. PICK k \in Nat : \A n \in S : rank[n] < k
  <2> DEFINE Ranks == {rank[n] : n \in S}
  <2>1. IsFiniteSet(Ranks) /\ Ranks \in SUBSET Nat
    BY FiniteImage
  <2>0. \A n \in S : rank[n] \in Ranks
    OBVIOUS
  <2>2. CASE Ranks = {}
    <3>1. \A n \in S : rank[n] < 0
      <4> HIDE DEF Ranks
      <4> QED BY <2>0, <2>2
    <3> QED BY <3>1
  <2>3. CASE Ranks # {}
    <3>1. PICK m \in Ranks : \A j \in Ranks : j <= m
      <4> HIDE DEF Ranks
      <4> QED BY <2>1, <2>3, LargestNatural
    <3>2. m + 1 \in Nat /\ \A n \in S : rank[n] < m + 1
      <4> HIDE DEF Ranks
      <4> QED BY <2>0, <2>1, <3>1
    <3> QED BY <3>2
  <2> QED BY <2>2, <2>3
<1>2. PICK f \in [S -> V] : SolvedTo(F, S, rank, f, k)
  BY SolutionsExist
<1>3. \A n \in S : f[n] = F[f][n]
  BY <1>1, <1>2 DEF SolvedTo
<1>4. F[f] \in [S -> V]
  OBVIOUS
<1>5. f = F[f]
  BY <1>3, <1>4
<1> QED BY <1>5
-----------------------------------------------------------------------------
(* The send_backs a resumed graph owes.  PendingSources is recursive over   *)
(* the order of the node ids.                                               *)

Keeps(g, f, n) ==
  /\ PendingSendBack(g, n)
  /\ \A m \in Node : Rank[m] < Rank[n] /\ f[m] =>
       n \notin SendBackTargets(m) \cup DownstreamOf(SendBackTargets(m))

LEMMA SameBelow ==
  ASSUME NEW g, NEW f, NEW h, NEW n \in Node,
         \A m \in Node : Rank[m] < Rank[n] => f[m] = h[m]
  PROVE  Keeps(g, f, n) = Keeps(g, h, n)
BY DEF Keeps, PendingSendBack

LEMMA KeptEverywhere ==
  ASSUME NEW g
  PROVE  \E f : f \in [Node -> BOOLEAN] /\ \A n \in Node : f[n] <=> Keeps(g, f, n)
<1> DEFINE F == [f \in [Node -> BOOLEAN] |-> [n \in Node |-> Keeps(g, f, n)]]
<1>1. F \in [[Node -> BOOLEAN] -> [Node -> BOOLEAN]]
  BY DEF Keeps, PendingSendBack
<1>2. RankRecursive(F, Node, BOOLEAN, Rank)
  <2> SUFFICES ASSUME NEW f \in [Node -> BOOLEAN], NEW h \in [Node -> BOOLEAN], NEW n \in Node,
                      \A m \in Node : Rank[m] < Rank[n] => f[m] = h[m]
               PROVE  Keeps(g, f, n) = Keeps(g, h, n)
    BY DEF RankRecursive
  <2> QED BY SameBelow
<1>3. PICK f \in [Node -> BOOLEAN] : f = F[f]
  <2>1. BOOLEAN # {} /\ IsFiniteSet(Node) /\ Rank \in [Node -> Nat]
    BY NodesFinite, Compiled DEF ContractsTyped
  <2> HIDE DEF F
  <2>2. WellRecursive(F, Node, BOOLEAN, Rank)
    BY <1>1, <1>2, <2>1 DEF WellRecursive
  <2> QED BY <2>2, RecursionSolved
<1>4. f = [n \in Node |-> Keeps(g, f, n)]
  BY <1>3
<1> QED BY <1>4

(* What the recursion says of each node.                                    *)
LEMMA PendingSourcesUnfold ==
  ASSUME NEW g, NEW n \in Node
  PROVE  n \in PendingSources(g) <=>
           /\ PendingSendBack(g, n)
           /\ \A m \in PendingSources(g) : Rank[m] < Rank[n] =>
                n \notin SendBackTargets(m) \cup DownstreamOf(SendBackTargets(m))
<1> DEFINE Solves(f) == f = [k \in Node |-> Keeps(g, f, k)]
<1>1. PICK f : f \in [Node -> BOOLEAN] /\ \A k \in Node : f[k] <=> Keeps(g, f, k)
  BY KeptEverywhere
<1>2. Solves(f)
  BY <1>1 DEF Keeps, PendingSendBack
<1>3. PICK kept : kept = CHOOSE h : Solves(h)
  OBVIOUS
<1>4. kept = [k \in Node |-> Keeps(g, kept, k)]
  BY <1>2, <1>3
<1>5. PendingSources(g) = {k \in Node : kept[k]}
  BY <1>3 DEF PendingSources, Keeps
<1> QED BY <1>4, <1>5 DEF Keeps

(* A send_back owed by a gate is taken, or the gate lies below the targets  *)
(* of one that is.                                                          *)
LEMMA EveryOneIsTaken ==
  ASSUME NEW g, NEW n \in Node, PendingSendBack(g, n),
         NEW S, S = TargetsOf(PendingSources(g))
  PROVE  n \in S \cup DownstreamOf(S)
<1>1. PICK P : P = PendingSources(g)
  OBVIOUS
<1>2. CASE n \in P
  <2>1. PICK b \in SendBack : b.from = n
    BY DEF PendingSendBack, SendBackTargets
  <2>2. b.to \in SendBackTargets(n) /\ n \in Downstream[b.to]
    BY <2>1, Compiled DEF SendBackTargets, SendBackBounded
  <2> QED BY <1>1, <1>2, <2>2 DEF TargetsOf, DownstreamOf
<1>3. CASE n \notin P
  <2>1. PICK m \in P : n \in SendBackTargets(m) \cup DownstreamOf(SendBackTargets(m))
    BY <1>1, <1>3, PendingSourcesUnfold
  <2> QED BY <1>1, <2>1 DEF TargetsOf, DownstreamOf
<1> QED BY <1>2, <1>3

LEMMA NoneIsOwed ==
  ASSUME NEW g, GraphOK(g), NEW n \in Node
  PROVE  ~PendingSendBack(RecoverSendBacks(g), n)
<1>1. PICK S : S = TargetsOf(PendingSources(g))
  OBVIOUS
<1>2. S \in SUBSET Node
  BY <1>1, TargetsAreNodes DEF TargetsOf
<1>3. CASE PendingSources(g) = {}
  <2>1. TargetsOf(PendingSources(g)) = {}
    BY <1>3 DEF TargetsOf
  <2>2. S = {} /\ DownstreamOf(S) = {}
    BY <1>1, <2>1 DEF DownstreamOf
  <2> QED BY <1>1, <1>3, <2>2, EveryOneIsTaken DEF RecoverSendBacks
<1>4. CASE PendingSources(g) # {}
  <2>1. PICK f : f = [FailAll(g, S) EXCEPT !.gstatus = "RUNNING"]
    OBVIOUS
  <2>2. GraphOK(f) /\ Failed(g, f, S)
    BY <1>2, <2>1, ApplySendBackFields
  <2>3. ASSUME PendingSendBack(f, n) PROVE FALSE
    <3>1. f.status[n] \in Done
      BY <2>3 DEF PendingSendBack
    <3>2. n \notin S /\ n \notin DownstreamOf(S)
      BY <2>2, <3>1 DEF Failed, Done, Success
    <3>3. f.status[n] = (IF g.status[n] = "ACCEPTED" THEN "FROZEN" ELSE g.status[n])
            /\ f.verdict[n] = g.verdict[n]
      BY <2>2, <3>2 DEF Failed
    <3>4. PendingSendBack(g, n)
      BY <2>3, <3>1, <3>3 DEF PendingSendBack, Done
    <3> QED BY <1>1, <3>2, <3>4, EveryOneIsTaken
  <2> QED BY <1>1, <1>4, <2>1, <2>3 DEF RecoverSendBacks
<1> QED BY <1>3, <1>4

(* resume leaves no send_back owed, unless it declares the graph failed:    *)
(* every gate that owed one has sent its targets back, or has lost its      *)
(* result to one that did.                                                  *)
THEOREM ResumesComplete == Spec => ResumeCompletesSendBack
<1>1. IInv /\ [Next]_vars =>
        [Resume \/ ResumeConverged =>
           \/ \A n \in Node : ~PendingSendBack(snap', n)
           \/ snap'.gstatus = "FAILED"]_vars
  <2>1. ASSUME IInv, Resume PROVE \A n \in Node : ~PendingSendBack(snap', n)
    <3>1. GraphOK(ckpt) /\ snap' = RecoverSendBacks(ckpt)
      BY <2>1 DEF Resume, Resumable, CommitGraph, IInv, GraphsSound, Sound
    <3> QED BY <3>1, NoneIsOwed
  <2>2. ASSUME IInv, ResumeConverged PROVE snap'.gstatus = "FAILED"
    <3>1. GraphOK(ckpt) /\ snap' = [ckpt EXCEPT !.gstatus = "FAILED"]
      BY <2>2 DEF ResumeConverged, Resumable, CommitGraph, IInv, GraphsSound, Sound
    <3> QED BY <3>1 DEF GraphOK
  <2> QED BY <2>1, <2>2
<1> QED BY <1>1, Invariance, PTL DEF Spec, ResumeCompletesSendBack

-----------------------------------------------------------------------------
(* Constraints that successors feed back: a verified constraint is never    *)
(* lost, and no result is accepted from an attempt that was not claimed     *)
(* with every constraint that applies to it.  The branches do not hold      *)
(* here, a constraint leaves nodes running on inputs it took back; what     *)
(* carries the argument is that every transition recomputes the inputs it   *)
(* changes, and that no transition but an acceptance makes a node done.     *)

(* Every input names the constraints that apply to its node.                *)
InputsName(g) ==
  \A n \in Node : g.input[n].constraints = {c \in g.constraints : n \in c.appliesTo}

Whole(g) == GraphOK(g) /\ InputsName(g)

(* m replaces g: a whole graph with the same constraints, in which no node  *)
(* outside S has become done.                                               *)
Carried(g, m, S) ==
  /\ Whole(m)
  /\ m.constraints = g.constraints
  /\ \A n \in Node \ S : m.status[n] \in Done => g.status[n] \in Done

LEMMA CarriedTransitive ==
  ASSUME NEW g, NEW h, NEW m, NEW S, Carried(g, h, {}), Carried(h, m, S)
  PROVE  Carried(g, m, S)
BY DEF Carried

(* A transition that leaves inputs and constraints alone.                   *)
LEMMA SameInputsCarried ==
  ASSUME NEW g, NEW m, NEW S, Whole(g), GraphOK(m),
         m.input = g.input, m.constraints = g.constraints,
         \A n \in Node \ S : m.status[n] \in Done => g.status[n] \in Done
  PROVE  Carried(g, m, S)
BY DEF Carried, Whole, InputsName

LEMMA RecomputedInputs ==
  ASSUME NEW g, GraphOK(g)
  PROVE  InputsName(RecomputeInputs(g)) /\ RecomputeInputs(g).constraints = g.constraints
BY DEF InputsName, RecomputeInputs, InputOf, GraphOK

LEMMA MarkReadyInputs ==
  ASSUME NEW g, GraphOK(g), NEW slots
  PROVE  Whole(MarkReady(g, slots)) /\ MarkReady(g, slots).constraints = g.constraints
<1>1. PICK r : r = RecomputeInputs(g)
  OBVIOUS
<1>2. PICK s : s = SkipUnselected(r)
  OBVIOUS
<1>3. PICK d : d = Demoted(s)
  OBVIOUS
<1>4. /\ GraphOK(r) /\ InputsName(r) /\ r.constraints = g.constraints
  BY <1>1, RecomputeInputsSettled, RecomputedInputs
<1>5. PICK c : c = Cleared(r, Unselected(r))
  OBVIOUS
<1>6. GraphOK(c) /\ c.input = r.input /\ c.constraints = r.constraints
  BY <1>4, <1>5, ClearedFields
<1>7. s.input = r.input /\ s.constraints = r.constraints /\ GraphOK(s)
  BY <1>2, <1>4, <1>5, <1>6, SkipUnselectedSettled DEF SkipUnselected, GraphOK
<1>8. d.input = s.input /\ d.constraints = s.constraints /\ DOMAIN d = DOMAIN s
  BY <1>3, <1>7 DEF Demoted, GraphOK
<1>9. /\ MarkReady(g, slots).input = d.input
      /\ MarkReady(g, slots).constraints = d.constraints
  BY <1>1, <1>2, <1>3, <1>7, <1>8 DEF MarkReady, GraphOK
<1>10. GraphOK(MarkReady(g, slots))
  BY MarkReadySettled
<1> QED BY <1>4, <1>7, <1>8, <1>9, <1>10 DEF Whole, InputsName
-----------------------------------------------------------------------------
(* Each transition carries its graph.                                       *)

LEMMA FailAllCarried ==
  ASSUME NEW g, Whole(g), NEW S \in SUBSET Node
  PROVE  /\ Carried(g, FailAll(g, S), {})
         /\ Carried(g, [FailAll(g, S) EXCEPT !.gstatus = "RUNNING"], {})
<1>1. PICK f : f = FailAll(g, S)
  OBVIOUS
<1>2. PICK r : r = [f EXCEPT !.gstatus = "RUNNING"]
  OBVIOUS
<1>3. GraphOK(f) /\ Failed(g, f, S)
  BY <1>1, FailAllFields DEF Whole
<1>4. f.input = g.input /\ f.constraints = g.constraints
  <2>1. PICK lost : lost = {n \in DownstreamOf(S) \ S :
                              g.status[n] \in Success \cup {"READY", "RUNNING"}}
    OBVIOUS
  <2>2. PICK c : c = Cleared(g, lost)
    OBVIOUS
  <2>3. GraphOK(c) /\ c.input = g.input /\ c.constraints = g.constraints
    BY <2>2, ClearedFields DEF Whole
  <2> QED BY <1>1, <2>1, <2>2, <2>3 DEF FailAll, GraphOK
<1>5. \A n \in Node : f.status[n] \in Done => g.status[n] \in Done
  BY <1>3 DEF Failed, Done, Success
<1>6. GraphOK(r) /\ r.status = f.status
  BY <1>2, <1>3, GstatusUpdate DEF GraphStatus
<1>7. r.input = f.input /\ r.constraints = f.constraints
  BY <1>2, <1>3 DEF GraphOK
<1> QED BY <1>1, <1>2, <1>3, <1>4, <1>5, <1>6, <1>7, SameInputsCarried

LEMMA FailNodeCarried ==
  ASSUME NEW g, Whole(g), NEW n \in Node
  PROVE  Carried(g, FailNode(g, n), {})
BY FailAllCarried DEF FailNode

LEMMA AcceptNodeCarried ==
  ASSUME NEW g, Whole(g), NEW n \in Node, NEW output \in Output, NEW verdict \in Verdict
  PROVE  Carried(g, AcceptNode(g, n, output, verdict), {n})
<1>1. PICK a : a = [g EXCEPT !.status[n] = "ACCEPTED", !.out[n] = output,
                     !.verdict[n] = IF NodeType[n] = "GATE" THEN verdict ELSE @]
  OBVIOUS
<1>2. PICK m : m = MarkReady(a, DefaultParallelism)
  OBVIOUS
<1>3. PICK r : r = AcceptNode(g, n, output, verdict)
  OBVIOUS
<1>4. r = [m EXCEPT !.gstatus = IF GloballyAccepted(m) THEN "ACCEPTED" ELSE @]
  BY <1>1, <1>2, <1>3 DEF AcceptNode
<1>5. GraphOK(r) /\ Accepted(g, r, n)
  BY <1>3, AcceptNodeFields DEF Whole
<1>6. /\ DOMAIN a = DOMAIN g
      /\ a.gstatus = g.gstatus
      /\ a.status = [g.status EXCEPT ![n] = "ACCEPTED"]
      /\ a.attempt = g.attempt
      /\ a.verdict = [g.verdict EXCEPT ![n] = IF NodeType[n] = "GATE" THEN verdict ELSE @]
      /\ a.out = [g.out EXCEPT ![n] = output]
      /\ a.input = g.input
      /\ a.constraints = g.constraints
  BY <1>1 DEF Whole, GraphOK
<1>7. GraphOK(a)
  BY <1>6 DEF Whole, GraphOK, NodeStatus
<1>8. Whole(m) /\ m.constraints = g.constraints
  BY <1>2, <1>6, <1>7, MarkReadyInputs
<1>9. r.input = m.input /\ r.constraints = m.constraints
  BY <1>4, <1>8 DEF Whole, GraphOK
<1>10. Whole(r)
  BY <1>5, <1>8, <1>9 DEF Whole, InputsName
<1>11. \A k \in Node \ {n} : r.status[k] \in Done => g.status[k] \in Done
  BY <1>5 DEF Accepted, Done, Waiting
<1> QED BY <1>3, <1>8, <1>9, <1>10, <1>11 DEF Carried

LEMMA ResolveGateCarried ==
  ASSUME NEW g, Whole(g), NEW n \in Node, NEW output \in Output, NEW verdict \in GateResult
  PROVE  Carried(g, ResolveGate(g, n, output, verdict), {n})
<1>1. PICK a : a = AcceptNode(g, n, output, verdict)
  OBVIOUS
<1>2. verdict \in Verdict
  BY DEF Verdict
<1>3. Carried(g, a, {n})
  BY <1>1, <1>2, AcceptNodeCarried
<1>4. PICK s : s = IF verdict = "PASS" THEN a.gstatus
                   ELSE IF n = GlobalGate THEN "FAILED" ELSE "RUNNING"
  OBVIOUS
<1>5. s \in GraphStatus
  BY <1>3, <1>4 DEF Carried, Whole, GraphOK, GraphStatus
<1>6. PICK r : r = [a EXCEPT !.gstatus = s]
  OBVIOUS
<1>7. ResolveGate(g, n, output, verdict) = r
  BY <1>1, <1>4, <1>6 DEF ResolveGate
<1>8. /\ GraphOK(r) /\ r.status = a.status
      /\ r.input = a.input /\ r.constraints = a.constraints
  BY <1>3, <1>5, <1>6, GstatusUpdate DEF Carried, Whole, GraphOK
<1> QED BY <1>3, <1>7, <1>8 DEF Carried, Whole, InputsName

LEMMA GivenUpCarried ==
  ASSUME NEW g, Whole(g)
  PROVE  Carried(g, [g EXCEPT !.gstatus = "FAILED"], {})
<1>1. PICK r : r = [g EXCEPT !.gstatus = "FAILED"]
  OBVIOUS
<1>2. /\ GraphOK(r) /\ r.status = g.status
      /\ r.input = g.input /\ r.constraints = g.constraints
  BY <1>1, GstatusUpdate DEF Whole, GraphOK, GraphStatus
<1> QED BY <1>1, <1>2, SameInputsCarried

LEMMA RecoverSendBacksCarried ==
  ASSUME NEW g, Whole(g)
  PROVE  Carried(g, RecoverSendBacks(g), {})
<1>1. TargetsOf(PendingSources(g)) \in SUBSET Node
  BY TargetsAreNodes DEF TargetsOf
<1>2. Carried(g, g, {})
  BY DEF Carried
<1> QED BY <1>1, <1>2, FailAllCarried DEF RecoverSendBacks

LEMMA CancelGraphCarried ==
  ASSUME NEW g, Whole(g)
  PROVE  Carried(g, CancelGraph(g), {})
<1>1. GraphOK(CancelGraph(g))
  BY CancelGraphFields DEF Whole
<1>2. \A n \in Node : CancelGraph(g).status[n] \in Done => g.status[n] \in Done
  BY CancelGraphFields DEF Whole, Done
<1>3. CancelGraph(g).input = g.input /\ CancelGraph(g).constraints = g.constraints
  BY DEF CancelGraph, Whole, GraphOK
<1> QED BY <1>1, <1>2, <1>3, SameInputsCarried

LEMMA RetryNodeCarried ==
  ASSUME NEW g, Whole(g), NEW n \in Node
  PROVE  Carried(g, RetryNode(g, n), {})
<1>1. /\ GraphOK(RetryNode(g, n))
      /\ RetryNode(g, n).status = [g.status EXCEPT ![n] = "READY"]
      /\ RetryNode(g, n).input = g.input /\ RetryNode(g, n).constraints = g.constraints
  BY RetryNodeFields DEF Whole
<1>2. \A k \in Node : RetryNode(g, n).status[k] \in Done => g.status[k] \in Done
  BY <1>1 DEF Whole, GraphOK, Done
<1> QED BY <1>1, <1>2, SameInputsCarried

LEMMA StartNodeCarried ==
  ASSUME NEW g, Whole(g), NEW n \in ReadyNodes(g, MaxParallelism)
  PROVE  /\ n \in Node /\ g.status[n] \notin Done \cup {"RUNNING"}
         /\ Carried(g, StartNode(g, n), {})
<1>1. n \in Node /\ Candidate(g, n)
  BY Parallel, ReadyNodeFits
<1>2. /\ GraphOK(StartNode(g, n))
      /\ StartNode(g, n).status = [g.status EXCEPT ![n] = "RUNNING"]
      /\ StartNode(g, n).input = g.input /\ StartNode(g, n).constraints = g.constraints
  BY <1>1, StartNodeFields DEF Whole, Candidate
<1>3. \A k \in Node : StartNode(g, n).status[k] \in Done => g.status[k] \in Done
  BY <1>1, <1>2 DEF Whole, GraphOK, Done
<1>4. g.status[n] \notin Done \cup {"RUNNING"}
  BY <1>1 DEF Candidate, Done
<1> QED BY <1>1, <1>2, <1>3, <1>4, SameInputsCarried

LEMMA AddConstraintWhole ==
  ASSUME NEW g, Whole(g), NEW c \in Constraint
  PROVE  /\ Whole(AddConstraint(g, c))
         /\ AddConstraint(g, c).constraints = g.constraints \cup {c}
         /\ \A n \in Node : AddConstraint(g, c).status[n] \in Done => g.status[n] \in Done
<1>1. PICK a : a = [g EXCEPT !.constraints = @ \cup {c}]
  OBVIOUS
<1>2. GraphOK(a) /\ a.status = g.status /\ a.constraints = g.constraints \cup {c}
  BY <1>1 DEF Whole, GraphOK
<1>3. PICK hit : hit = {n \in c.invalidates \cup DownstreamOf(c.invalidates) :
                         g.status[n] \in Success}
  OBVIOUS
<1>4. PICK b : b = Cleared(a, hit)
  OBVIOUS
<1>5. GraphOK(b) /\ b.status = a.status /\ b.constraints = a.constraints
  BY <1>2, <1>4, ClearedFields
<1>6. PICK f : f = With(g, hit, "INVALIDATED")
  OBVIOUS
<1>7. /\ f \in [Node -> NodeStatus]
      /\ \A n \in Node : f[n] \in Done => g.status[n] \in Done
  BY <1>6 DEF With, Whole, GraphOK, NodeStatus, Done
<1>8. PICK d : d = [b EXCEPT !.status = f]
  OBVIOUS
<1>9. GraphOK(d) /\ d.status = f /\ d.constraints = b.constraints
  BY <1>5, <1>7, <1>8 DEF GraphOK
<1>10. AddConstraint(g, c) = RecomputeInputs(d)
  BY <1>1, <1>3, <1>4, <1>6, <1>8 DEF AddConstraint
<1>11. GraphOK(RecomputeInputs(d)) /\ RecomputeInputs(d).status = d.status
  BY <1>9, RecomputeInputsSettled DEF RecomputeInputs, GraphOK
<1> QED BY <1>2, <1>5, <1>7, <1>9, <1>10, <1>11, RecomputedInputs DEF Whole
-----------------------------------------------------------------------------
(* Snapshot and checkpoint carry the same constraints, and the checkpoint   *)
(* knows no result the snapshot does not.                                   *)
Behind ==
  snap # NoGraph =>
    /\ ckpt # NoGraph /\ ckpt.constraints = snap.constraints
    /\ \A n \in Node : ckpt.status[n] \in Done => snap.status[n] \in Done

FInv ==
  /\ snap # NoGraph => Whole(snap)
  /\ ckpt # NoGraph => Whole(ckpt)
  /\ Behind
  /\ PcOK

(* What every step is shown to do.                                          *)
Claimed(n) ==
  \E c \in claims : c.node = n /\ c.attempt = snap.attempt[n] /\ c.input = snap.input[n]

Obeyed == \A n \in Node : Finished(n) => Claimed(n)

StepKeeps ==
  FInv' /\ (snap # NoGraph => snap.constraints \subseteq snap'.constraints) /\ Obeyed

LEMMA WholeIsGraph ==
  ASSUME NEW g, Whole(g)
  PROVE  g # NoGraph
BY DEF Whole, GraphOK, NoGraph, GraphStatus

(* A transaction that commits what replaces the snapshot or the checkpoint. *)
LEMMA CommitCarries ==
  ASSUME FInv, NEW g \in {snap, ckpt}, g # NoGraph, NEW m, NEW S, Carried(g, m, S),
         snap' = m, ckpt' = m, pc' # << "save_plan" >>,
         \A n \in Node : pc' # << "approve", n >>,
         \A n \in Node \cap S : Finished(n) => Claimed(n)
  PROVE  StepKeeps
<1>1. Whole(m) /\ m # NoGraph
  BY WholeIsGraph DEF Carried
<1>2. FInv'
  BY <1>1 DEF FInv, Behind, PcOK
<1>3. snap # NoGraph => snap.constraints \subseteq snap'.constraints
  BY DEF Carried, FInv, Behind
<1>4. ASSUME NEW n \in Node \ S, Finished(n) PROVE FALSE
  BY <1>4 DEF Finished, Carried, FInv, Behind, Done
<1>5. Obeyed
  BY <1>4 DEF Obeyed
<1> QED BY <1>2, <1>3, <1>5 DEF StepKeeps

(* The snapshot alone moves on.                                             *)
LEMMA SnapshotCarries ==
  ASSUME FInv, snap # NoGraph, NEW m, Carried(snap, m, {}), snap' = m, ckpt' = ckpt,
         \A n \in Node : ckpt.status[n] \in Done => m.status[n] \in Done,
         pc' # << "save_plan" >>, \A n \in Node : pc' # << "approve", n >>
  PROVE  StepKeeps
<1>1. Whole(m) /\ m # NoGraph
  BY WholeIsGraph DEF Carried
<1>2. FInv'
  BY <1>1 DEF FInv, Behind, PcOK, Carried
<1>3. Obeyed
  BY DEF Obeyed, Finished, Carried, Done
<1> QED BY <1>2, <1>3 DEF StepKeeps, Carried

(* The snapshot stays, the checkpoint stays or catches up.                  *)
LEMMA StandCarries ==
  ASSUME FInv, snap' = snap, ckpt' \in {ckpt, snap}, ckpt' = ckpt \/ snap # NoGraph, PcOK'
  PROVE  StepKeeps
<1>1. Obeyed
  BY DEF Obeyed, Finished, Done
<1>2. FInv'
  BY DEF FInv, Behind
<1> QED BY <1>1, <1>2 DEF StepKeeps

LEMMA FreshGraphOK == GraphOK(FreshGraph)
BY FreshGraphSound DEF Sound

LEMMA PlanCarries ==
  ASSUME FInv, Plan \/ SavePlan \/ AppendIntent
  PROVE  StepKeeps
<1>1. CASE Plan
  <2>1. PICK m : m = MarkReady(FreshGraph, MaxParallelism)
    OBVIOUS
  <2>2. Whole(m) /\ m # NoGraph
    BY <2>1, FreshGraphOK, MarkReadyInputs, WholeIsGraph
  <2> QED BY <1>1, <2>1, <2>2 DEF Plan, FInv, Behind, PcOK, Idle, StepKeeps, Obeyed, Finished
<1>2. CASE SavePlan
  BY <1>2 DEF SavePlan, FInv, Behind, PcOK, Idle, StepKeeps, Obeyed, Finished
<1>3. CASE AppendIntent
  <2>1. PcOK'
    BY <1>3 DEF AppendIntent, FInv, PcOK, Idle
  <2> QED BY <1>3, <2>1, StandCarries DEF AppendIntent
<1> QED BY <1>1, <1>2, <1>3

LEMMA StartCarries ==
  ASSUME FInv, NEW n \in Node, Start(n) \/ AppendRunning(n)
  PROVE  StepKeeps
<1>1. CASE Start(n)
  <2>1. PICK m : m = StartNode(snap, n)
    OBVIOUS
  <2>2. /\ snap # NoGraph /\ Whole(snap) /\ n \in ReadyNodes(snap, MaxParallelism)
        /\ snap' = m /\ ckpt' = ckpt
    BY <1>1, <2>1 DEF Start, Startable, Planned, FInv
  <2>3. Carried(snap, m, {}) /\ snap.status[n] \notin Done
    BY <2>1, <2>2, StartNodeCarried
  <2>4. \A k \in Node \ {n} : m.status[k] = snap.status[k]
    BY <2>1, <2>2 DEF StartNode, Whole, GraphOK
  <2>5. \A k \in Node : ckpt.status[k] \in Done => m.status[k] \in Done
    BY <2>2, <2>3, <2>4 DEF FInv, Behind
  <2> QED BY <1>1, <2>2, <2>3, <2>5, SnapshotCarries DEF Start
<1>2. CASE AppendRunning(n)
  <2>1. PcOK'
    BY <1>2 DEF AppendRunning, FInv, PcOK, Idle
  <2> QED BY <1>2, <2>1, StandCarries DEF AppendRunning
<1> QED BY <1>1, <1>2

LEMMA ResultCarries ==
  ASSUME FInv, NEW n \in Node, RecordResult(n)
  PROVE  StepKeeps
<1>1. PICK amount \in Amount \cup {Unknown} :
        \/ RecordOverBudget(n, amount)
        \/ \E output \in Output, verdict \in Outcome :
             RecordGateResult(n, output, verdict, amount)
        \/ \E verdict \in Outcome : RecordRejected(n, verdict, amount)
        \/ \E output \in Output : RecordAccepted(n, output, amount)
  BY DEF RecordResult
<1>2. PICK row : row = UsageRow(n, snap.attempt[n], amount)
  OBVIOUS
<1>3. /\ ResultAccepted(n, row)
      /\ pc' = Idle \/ pc' = << "send_back", n >>
  BY <1>1, <1>2 DEF RecordOverBudget, RecordGateResult, RecordRejected, RecordAccepted,
                    ResultAccepted, Planned
<1>4. snap # NoGraph /\ Whole(snap)
  BY <1>3 DEF ResultAccepted, Planned, FInv
<1>5. pc' # << "save_plan" >> /\ \A k \in Node : pc' # << "approve", k >>
  BY <1>3 DEF Idle
<1>6. PICK m : snap' = m /\ ckpt' = m /\ Carried(snap, m, {n})
  <2>1. CASE RecordOverBudget(n, amount) \/ \E verdict \in Outcome : RecordRejected(n, verdict, amount)
    <3>1. Carried(snap, FailNode(snap, n), {n})
      BY <1>4, FailNodeCarried DEF Carried
    <3> QED BY <2>1, <3>1 DEF RecordOverBudget, RecordRejected, CommitFailure, CommitGraph
  <2>2. CASE \E output \in Output, verdict \in Outcome : RecordGateResult(n, output, verdict, amount)
    BY <1>4, <2>2, ResolveGateCarried, EngineConstants DEF RecordGateResult, CommitGraph
  <2>3. CASE \E output \in Output : RecordAccepted(n, output, amount)
    BY <1>4, <2>3, AcceptNodeCarried DEF RecordAccepted, CommitGraph, Verdict
  <2> QED BY <1>1, <2>1, <2>2, <2>3
<1>7. Claimed(n)
  <2>1. PICK c \in claims :
          c = [node |-> n, attempt |-> snap.attempt[n], input |-> snap.input[n]]
    BY <1>3 DEF ResultAccepted
  <2>2. c.node = n /\ c.attempt = snap.attempt[n] /\ c.input = snap.input[n]
    BY <2>1
  <2> QED BY <2>2 DEF Claimed
<1> QED BY <1>4, <1>5, <1>6, <1>7, CommitCarries

LEMMA SendBackCarries ==
  ASSUME FInv, NEW n \in Node,
         SendBackApplied(n) \/ SendBackConverged(n) \/ SendBackRefused(n)
  PROVE  StepKeeps
<1>1. SendBackDone(n) /\ snap # NoGraph /\ Whole(snap)
  BY DEF SendBackApplied, SendBackConverged, SendBackRefused, SendBackDone, FInv, PcOK, Idle
<1>2. CASE SendBackApplied(n) \/ SendBackConverged(n)
  <2>1. PICK m : snap' = m /\ ckpt' = m /\ Carried(snap, m, {})
    BY <1>1, <1>2, TargetsAreNodes, FailAllCarried, GivenUpCarried
       DEF SendBackApplied, SendBackConverged, CommitGraph, ApplySendBack
  <2> QED BY <1>1, <2>1, CommitCarries DEF SendBackDone, Idle
<1>3. CASE SendBackRefused(n)
  <2>1. PcOK'
    BY <1>1, <1>3 DEF SendBackRefused, SendBackDone, PcOK, Idle
  <2> QED BY <1>3, <2>1, StandCarries DEF SendBackRefused
<1> QED BY <1>2, <1>3

LEMMA ApprovalCarries ==
  ASSUME FInv, NEW n \in Node,
         \/ BeginApproval(n)
         \/ \E op \in Op, output \in Output, amount \in Amount \cup {Unknown} :
              CommitApproval(n, op, output, amount)
  PROVE  StepKeeps
<1>1. CASE BeginApproval(n)
  <2>1. PcOK'
    BY <1>1 DEF BeginApproval, Planned, PcOK, Idle
  <2> QED BY <1>1, <2>1, StandCarries DEF BeginApproval, Planned
<1>2. ASSUME NEW op \in Op, NEW output \in Output, NEW amount \in Amount \cup {Unknown},
             CommitApproval(n, op, output, amount)
      PROVE  StepKeeps
  <2>1. PICK g : g = StartNode(snap, n)
    OBVIOUS
  <2>2. /\ pc' = Idle /\ snap' = ckpt'
        /\ snap' \in {FailNode(g, n), AcceptNode(g, n, output, "NONE")}
    BY <1>2, <2>1 DEF CommitApproval, CommitGraph
  <2>3. snap # NoGraph /\ Whole(snap) /\ n \in ReadyNodes(snap, MaxParallelism)
    BY <1>2 DEF CommitApproval, FInv, PcOK, Idle
  <2>4. Carried(snap, g, {}) /\ snap.status[n] # "RUNNING" /\ Whole(g)
    BY <2>1, <2>3, StartNodeCarried DEF Carried
  <2>5. Carried(g, snap', {n})
    <3>1. Carried(g, FailNode(g, n), {n})
      BY <2>4, FailNodeCarried DEF Carried
    <3>2. Carried(g, AcceptNode(g, n, output, "NONE"), {n})
      BY <2>4, AcceptNodeCarried DEF Verdict
    <3> QED BY <2>2, <3>1, <3>2
  <2>6. Carried(snap, snap', {n})
    BY <2>4, <2>5, CarriedTransitive
  <2>7. ~ Finished(n)
    BY <2>4 DEF Finished
  <2> QED BY <2>2, <2>3, <2>6, <2>7, CommitCarries DEF Idle
<1> QED BY <1>1, <1>2

LEMMA FailureCarries ==
  ASSUME FInv, NEW n \in Node, NEW reason \in HostReason,
         \/ RecordFailure(n, reason)
         \/ \E amount \in Amount \cup {Unknown} : RecordMeasuredFailure(n, reason, amount)
  PROVE  StepKeeps
<1>1. /\ snap # NoGraph /\ Whole(snap)
      /\ snap' = FailNode(snap, n) /\ ckpt' = snap' /\ pc' = Idle
  BY DEF RecordFailure, RecordMeasuredFailure, CommitFailure, CommitGraph, Planned, FInv
<1>2. Carried(snap, snap', {})
  BY <1>1, FailNodeCarried
<1> QED BY <1>1, <1>2, CommitCarries DEF Idle

LEMMA RetryCarries ==
  ASSUME FInv, NEW n \in Node, Retry(n)
  PROVE  StepKeeps
<1>1. /\ snap # NoGraph /\ Whole(snap) /\ snap.status[n] = "FAILED"
      /\ snap' = RetryNode(snap, n) /\ ckpt' = ckpt /\ pc' = Idle
  BY DEF Retry, Retryable, Planned, FInv
<1>2. Carried(snap, snap', {})
  BY <1>1, RetryNodeCarried
<1>3. \A k \in Node : ckpt.status[k] \in Done => snap'.status[k] \in Done
  <2>1. GraphOK(snap) /\ snap'.status = [snap.status EXCEPT ![n] = "READY"]
    BY <1>1, RetryNodeFields DEF Whole
  <2>2. \A k \in Node \ {n} : snap'.status[k] = snap.status[k]
    BY <2>1 DEF GraphOK
  <2>3. ckpt.status[n] \notin Done
    BY <1>1 DEF FInv, Behind, Done
  <2> QED BY <1>1, <2>2, <2>3 DEF FInv, Behind
<1> QED BY <1>1, <1>2, <1>3, SnapshotCarries DEF Idle

LEMMA CancelCarries ==
  ASSUME FInv, Cancel
  PROVE  StepKeeps
<1>1. /\ snap # NoGraph /\ Whole(snap)
      /\ snap' = CancelGraph(snap) /\ ckpt' = snap' /\ pc' = Idle
  BY DEF Cancel, CommitGraph, Planned, FInv
<1>2. Carried(snap, snap', {})
  BY <1>1, CancelGraphCarried
<1> QED BY <1>1, <1>2, CommitCarries DEF Idle

LEMMA ReceiptCarries ==
  ASSUME FInv,
         \/ \E n \in Node, op \in Op : Prepare(n, op) \/ CommitReceipt(n, op)
         \/ CheckpointReceipt
  PROVE  StepKeeps
<1>1. CASE \E n \in Node, op \in Op : Prepare(n, op) \/ CommitReceipt(n, op)
  <2>1. PcOK'
    BY <1>1 DEF Prepare, CommitReceipt, Authorised, Planned, FInv, PcOK, Idle
  <2> QED BY <1>1, <2>1, StandCarries DEF Prepare, CommitReceipt
<1>2. CASE CheckpointReceipt
  <2>1. PcOK' /\ snap # NoGraph
    BY <1>2 DEF CheckpointReceipt, FInv, PcOK, Idle
  <2> QED BY <1>2, <2>1, StandCarries DEF CheckpointReceipt
<1> QED BY <1>1, <1>2

(* Steps that touch nothing durable.                                        *)
LEMMA VolatileCarries ==
  ASSUME FInv, UNCHANGED durable, pc' \in {pc, Idle}
  PROVE  StepKeeps
<1>1. PcOK'
  BY DEF durable, FInv, PcOK, Idle
<1> QED BY <1>1, StandCarries DEF durable

LEMMA ResumeCarries ==
  ASSUME FInv, Resume \/ ResumeConverged
  PROVE  StepKeeps
<1>1. ckpt # NoGraph /\ Whole(ckpt) /\ ckpt' = snap'
  BY DEF Resume, ResumeConverged, Resumable, CommitGraph, FInv
<1>2. Carried(ckpt, snap', {})
  BY <1>1, RecoverSendBacksCarried, GivenUpCarried DEF Resume, ResumeConverged, CommitGraph
<1>3. pc' # << "save_plan" >> /\ \A n \in Node : pc' # << "approve", n >>
  BY DEF Resume, ResumeConverged, Resumable, Idle
<1> QED BY <1>1, <1>2, <1>3, CommitCarries

LEMMA ConstraintCarries ==
  ASSUME FInv, NEW c \in Constraint, AddVerifiedConstraint(c)
  PROVE  StepKeeps
<1>1. /\ snap # NoGraph /\ Whole(snap) /\ pc' = Idle
      /\ snap' = AddConstraint(snap, c) /\ ckpt' = snap'
  BY DEF AddVerifiedConstraint, Constrainable, CommitGraph, Planned, FInv
<1>2. /\ Whole(snap') /\ snap'.constraints = snap.constraints \cup {c}
      /\ \A n \in Node : snap'.status[n] \in Done => snap.status[n] \in Done
  BY <1>1, AddConstraintWhole
<1>3. Obeyed
  BY <1>2 DEF Obeyed, Finished, Done
<1>4. FInv'
  BY <1>1, <1>2, WholeIsGraph DEF FInv, Behind, PcOK, Idle
<1> QED BY <1>1, <1>2, <1>3, <1>4 DEF StepKeeps

(* Every step, from the invariant.                                          *)
LEMMA EveryStepKeeps == FInv /\ [FeedbackNext]_vars => StepKeeps
<1> SUFFICES ASSUME FInv, [FeedbackNext]_vars PROVE StepKeeps
  OBVIOUS
<1>1. ASSUME NEW n \in Node, NodeStep(n) PROVE StepKeeps
  BY <1>1, StartCarries, ResultCarries, SendBackCarries, ApprovalCarries, FailureCarries,
     RetryCarries, ReceiptCarries DEF NodeStep
<1>2. CASE \E key \in granted : HostEffect(key)
  BY <1>2, VolatileCarries DEF HostEffect
<1>3. CASE Crash
  BY <1>3, VolatileCarries DEF Crash
<1>4. CASE UNCHANGED vars
  BY <1>4, VolatileCarries DEF vars
<1>5. CASE \E c \in Constraint : AddVerifiedConstraint(c)
  BY <1>5, ConstraintCarries
<1>6. CASE Plan \/ SavePlan \/ AppendIntent
  BY <1>6, PlanCarries
<1>7. CASE Cancel \/ CheckpointReceipt \/ Resume \/ ResumeConverged
  BY <1>7, CancelCarries, ReceiptCarries, ResumeCarries
<1> QED BY <1>1, <1>2, <1>3, <1>4, <1>5, <1>6, <1>7 DEF FeedbackNext, Next

LEMMA FInitially == Init => FInv
BY DEF Init, FInv, Behind, PcOK, Idle

(* A verified constraint is never lost.                                     *)
THEOREM ConstraintsAreKept == FeedbackSpec => ConstraintsPersist
<1>1. FInv /\ [FeedbackNext]_vars => FInv'
  BY EveryStepKeeps DEF StepKeeps
<1>2. FInv /\ [FeedbackNext]_vars =>
        [snap # NoGraph => snap.constraints \subseteq snap'.constraints]_vars
  BY EveryStepKeeps DEF StepKeeps
<1> QED BY <1>1, <1>2, FInitially, PTL DEF FeedbackSpec, ConstraintsPersist

(* What is accepted was claimed with every constraint that applies.         *)
THEOREM ResultsObeyConstraints == FeedbackSpec => ResultObeysConstraints
<1>1. FInv /\ [FeedbackNext]_vars => FInv'
  BY EveryStepKeeps DEF StepKeeps
<1>2. FInv /\ [FeedbackNext]_vars =>
        [\A n \in Node : Finished(n) =>
           \E c \in claims :
             /\ c.node = n /\ c.attempt = snap.attempt[n]
             /\ c.input.constraints = {d \in snap.constraints : n \in d.appliesTo}]_vars
  BY EveryStepKeeps DEF StepKeeps, Obeyed, Claimed, Finished, FInv, Whole, InputsName
<1> QED BY <1>1, <1>2, FInitially, PTL DEF FeedbackSpec, ResultObeysConstraints

(* A verified constraint is neither lost nor ignored by a result.           *)
THEOREM ConstraintsAreObeyed == FeedbackSpec => ConstraintsObeyed
BY ConstraintsAreKept, ResultsObeyConstraints DEF ConstraintsObeyed
-----------------------------------------------------------------------------
(* What a result stands on.  A constraint, or the failure of what a running *)
(* node depends on, takes the result of a dependency away, and with it the  *)
(* input the attempt was claimed with; the input comes back only with the   *)
(* result.                                                                  *)

(* The inputs of a running node are those it would be given now, and what   *)
(* is no longer accepted below it has no result.                            *)
Stands(g, n) ==
  /\ g.input[n] = InputOf(g, n)
  /\ \A d \in Deps[n] : g.status[d] \in Done \/ Empty(g, d)

Given(g) == \A n \in Node : g.status[n] \in Done => g.out[n] \in Output

Based(g) ==
  /\ Computed(g) /\ Given(g)
  /\ \A n \in Running(g) : NodeType[n] # "MERGE" => Stands(g, n)

(* A claim is made on results, of gates that select the node.               *)
ClaimBased(c) ==
  NodeType[c.node] # "MERGE" =>
    \A e \in Edge : e.to = c.node =>
      \E o \in Output, v \in Verdict :
        /\ c.input.upstream[e.from] = << o, v >>
        /\ NodeType[e.from] = "GATE" /\ e.type # "plain" =>
             (IF v = "INCONCLUSIVE" THEN "FAIL" ELSE v) = Selects(e)

LEMMA Upstream ==
  ASSUME NEW g, NEW n, NEW d \in Deps[n]
  PROVE  InputOf(g, n).upstream[d] = << g.out[d], g.verdict[d] >>
BY DEF InputOf

LEMMA SteadyBased ==
  ASSUME NEW g, NEW m, Based(g), Steady(g, m),
         \A k \in Running(m) : NodeType[k] # "MERGE" =>
           /\ k \in Running(g)
           /\ \A d \in Deps[k] : /\ m.out[d] = g.out[d] /\ m.verdict[d] = g.verdict[d]
                                 /\ g.status[d] \in Done => m.status[d] \in Done
  PROVE  Based(m)
<1>1. Computed(m)
  BY SteadyComputed DEF Based
<1>2. Given(m)
  BY DEF Based, Given, Steady
<1>3. ASSUME NEW k \in Running(m), NodeType[k] # "MERGE" PROVE Stands(m, k)
  <2>1. k \in Node /\ k \in Running(g) /\ Stands(g, k)
    BY <1>3 DEF Based, Running
  <2>2. \A d \in Deps[k] : m.out[d] = g.out[d] /\ m.verdict[d] = g.verdict[d]
    BY <1>3
  <2>3. m.constraints = g.constraints /\ m.input = g.input
    BY DEF Steady
  <2>4. InputOf(m, k) = InputOf(g, k)
    BY <2>1, <2>2, <2>3, SameInput
  <2>5. \A d \in Deps[k] : m.status[d] \in Done \/ Empty(m, d)
    BY <1>3, <2>1 DEF Stands, Empty
  <2> QED BY <2>1, <2>3, <2>4, <2>5 DEF Stands
<1> QED BY <1>1, <1>2, <1>3 DEF Based

(* The statuses of a graph, without its results, change.                    *)
LEMMA StatusBased ==
  ASSUME NEW g, NEW m, Based(g), Steady(g, m), m.out = g.out, m.verdict = g.verdict,
         Running(m) \subseteq Running(g),
         \A n \in Node : g.status[n] \in Done => m.status[n] \in Done
  PROVE  Based(m)
<1>1. \A k \in Running(m) : \A d \in Deps[k] : d \in Node
  BY DepsAreNodes DEF Running
<1> QED BY <1>1, SteadyBased

LEMMA GivenUpBased ==
  ASSUME NEW g, GraphOK(g), Based(g)
  PROVE  Based([g EXCEPT !.gstatus = "FAILED"])
<1>1. PICK m : m = [g EXCEPT !.gstatus = "FAILED"]
  OBVIOUS
<1>2. m.status = g.status /\ m.verdict = g.verdict /\ m.out = g.out
  BY <1>1 DEF GraphOK
<1>3. Steady(g, m)
  BY <1>1, GivenUpSteady
<1> QED BY <1>1, <1>2, <1>3, StatusBased DEF Running

LEMMA RetryNodeBased ==
  ASSUME NEW g, GraphOK(g), Based(g), NEW n \in Node, g.status[n] = "FAILED"
  PROVE  Based(RetryNode(g, n))
<1>1. PICK m : m = RetryNode(g, n)
  OBVIOUS
<1>2. /\ m.status = [g.status EXCEPT ![n] = "READY"]
      /\ m.verdict = g.verdict /\ m.out = g.out
  BY <1>1, RetryNodeFields
<1>3. Steady(g, m)
  BY <1>1, RetryNodeSteady
<1>4. Running(m) \subseteq Running(g) /\ \A k \in Node : g.status[k] \in Done => m.status[k] \in Done
  BY <1>2 DEF Running, GraphOK, Done
<1> QED BY <1>1, <1>2, <1>3, <1>4, StatusBased

LEMMA CancelGraphBased ==
  ASSUME NEW g, GraphOK(g), Based(g)
  PROVE  Based(CancelGraph(g))
<1>1. PICK m : m = CancelGraph(g)
  OBVIOUS
<1>2. m.out = g.out
  BY <1>1 DEF CancelGraph, GraphOK
<1>3. /\ m.verdict = g.verdict
      /\ \A n \in Node : m.status[n] = IF g.status[n] \in Waiting \cup {"RUNNING"}
                                         THEN "CANCELLED" ELSE g.status[n]
  BY <1>1, CancelGraphFields
<1>4. Steady(g, m)
  BY <1>1, CancelGraphSteady
<1>5. Running(m) \subseteq Running(g) /\ \A n \in Node : g.status[n] \in Done => m.status[n] \in Done
  BY <1>3 DEF Running, Waiting, Done
<1> QED BY <1>1, <1>2, <1>3, <1>4, <1>5, StatusBased

(* What still runs after a failure is not downstream of it, nor is what it  *)
(* depends on.                                                              *)
LEMMA FailAllBased ==
  ASSUME NEW g, GraphOK(g), Based(g), NEW S \in SUBSET Node, NEW s \in {"FAILED", "RUNNING"}
  PROVE  /\ Based(FailAll(g, S))
         /\ Based([FailAll(g, S) EXCEPT !.gstatus = s])
<1>1. PICK lost : lost = {n \in DownstreamOf(S) \ S : g.status[n] \in Success \cup {"READY", "RUNNING"}}
  OBVIOUS
<1>2. PICK c : c = Cleared(g, lost)
  OBVIOUS
<1>3. PICK f : f = [n \in Node |-> IF n \in S THEN "FAILED"
                                  ELSE IF n \in lost THEN "INVALIDATED"
                                  ELSE IF g.status[n] = "ACCEPTED" THEN "FROZEN"
                                  ELSE g.status[n]]
  OBVIOUS
<1>4. PICK m : m = [c EXCEPT !.status = f, !.gstatus = "FAILED"]
  OBVIOUS
<1>5. m = FailAll(g, S)
  BY <1>1, <1>2, <1>3, <1>4 DEF FailAll
<1>6. /\ GraphOK(c)
      /\ \A n \in Node : n \notin lost => c.out[n] = g.out[n] /\ c.verdict[n] = g.verdict[n]
  <2>1. \A n \in Node : n \notin lost => c.out[n] = g.out[n]
    BY <1>2 DEF Cleared, GraphOK
  <2> QED BY <1>2, <2>1, ClearedFields
<1>7. /\ m.status = f /\ m.verdict = c.verdict /\ m.out = c.out
  BY <1>4, <1>6 DEF GraphOK
<1>8. Steady(g, m)
  BY <1>5, FailAllSteady
<1>9. ASSUME NEW k \in Running(m)
      PROVE  /\ k \in Running(g)
             /\ \A d \in Deps[k] : /\ m.out[d] = g.out[d] /\ m.verdict[d] = g.verdict[d]
                                   /\ g.status[d] \in Done => m.status[d] \in Done
  <2>1. k \in Node /\ k \notin S /\ k \notin lost /\ g.status[k] = "RUNNING"
    BY <1>3, <1>7, <1>9 DEF Running
  <2>2. k \notin DownstreamOf(S)
    BY <1>1, <2>1
  <2>3. ASSUME NEW d \in Deps[k]
        PROVE  /\ d \in Node /\ d \notin S /\ d \notin lost
    <3>1. PICK e \in Edge : e.from = d /\ e.to = k
      BY <2>1 DEF Deps
    <3>2. d \notin S \cup DownstreamOf(S)
      BY <2>2, <3>1, DownstreamEdge
    <3> QED BY <1>1, <2>1, <3>2, DepsAreNodes
  <2>4. \A d \in Deps[k] : m.out[d] = g.out[d] /\ m.verdict[d] = g.verdict[d]
    BY <1>6, <1>7, <2>3
  <2>5. \A d \in Deps[k] : g.status[d] \in Done => m.status[d] \in Done
    BY <1>3, <1>7, <2>3 DEF Done
  <2> QED BY <2>1, <2>4, <2>5 DEF Running
<1>10. Based(m)
  BY <1>8, <1>9, SteadyBased
<1>11. PICK r : r = [m EXCEPT !.gstatus = s]
  OBVIOUS
<1>12. GraphOK(m)
  BY <1>5, FailAllFields
<1>13. r.status = m.status /\ r.verdict = m.verdict /\ r.out = m.out /\ r.input = m.input
       /\ r.constraints = m.constraints
  BY <1>11, <1>12 DEF GraphOK
<1>14. \A k : InputOf(r, k) = InputOf(m, k)
  BY <1>13 DEF InputOf
<1>15. Based(r)
  BY <1>10, <1>13, <1>14 DEF Based, Computed, Given, Running, Stands, Empty
<1> QED BY <1>5, <1>10, <1>11, <1>15

(* mark_ready gives every node its input anew.                              *)
LEMMA MarkReadyBased ==
  ASSUME NEW g, GraphOK(g), Given(g), NEW slots,
         \A k \in Running(g) : NodeType[k] # "MERGE" =>
           \A d \in Deps[k] : g.status[d] \in Done \/ Empty(g, d)
  PROVE  Based(MarkReady(g, slots))
<1>1. PICK m : m = MarkReady(g, slots)
  OBVIOUS
<1>2. Settled(g, m)
  BY <1>1, MarkReadySettled
<1>3. /\ m.constraints = g.constraints
      /\ \A n \in Node : m.input[n] = InputOf(g, n)
      /\ \A n \in Node : m.status[n] \in Done => m.out[n] = g.out[n] /\ m.verdict[n] = g.verdict[n]
      /\ \A n \in Node : (m.out[n] = g.out[n] /\ m.verdict[n] = g.verdict[n]) \/ Empty(m, n)
  BY <1>1, MarkReadyTakes
<1>4. \A n \in Node : m.status[n] \in Done <=> g.status[n] \in Done
  BY <1>2 DEF Settled, Waiting, Done
<1>5. Computed(m)
  <2> SUFFICES ASSUME NEW n \in Node, \A d \in Deps[n] : m.status[d] \in Done
               PROVE  m.input[n] = InputOf(m, n)
    BY DEF Computed
  <2>1. \A d \in Deps[n] : m.out[d] = g.out[d] /\ m.verdict[d] = g.verdict[d]
    BY <1>3, DepsAreNodes
  <2>2. InputOf(m, n) = InputOf(g, n)
    BY <1>3, <2>1, SameInput
  <2> QED BY <1>3, <2>2
<1>6. Given(m)
  BY <1>3, <1>4 DEF Given
<1>7. ASSUME NEW k \in Running(m), NodeType[k] # "MERGE" PROVE Stands(m, k)
  <2>1. k \in Node /\ k \in Running(g)
    BY <1>2, <1>7 DEF Running, Settled, Waiting
  <2>2. \A d \in Deps[k] : d \in Node /\ (g.status[d] \in Done \/ Empty(g, d))
    BY <1>7, <2>1, DepsAreNodes
  <2>3. \A d \in Deps[k] : m.out[d] = g.out[d] /\ m.verdict[d] = g.verdict[d]
    BY <1>3, <1>4, <2>2 DEF Empty
  <2>4. InputOf(m, k) = InputOf(g, k)
    BY <1>3, <2>1, <2>3, SameInput
  <2>5. \A d \in Deps[k] : m.status[d] \in Done \/ Empty(m, d)
    BY <1>4, <2>2, <2>3 DEF Empty
  <2> QED BY <1>3, <2>1, <2>4, <2>5 DEF Stands
<1> QED BY <1>1, <1>5, <1>6, <1>7 DEF Based

LEMMA AcceptNodeBased ==
  ASSUME NEW g, GraphOK(g), Based(g), NEW n \in Node, NEW output \in Output, NEW verdict \in Verdict
  PROVE  Based(AcceptNode(g, n, output, verdict))
<1>1. PICK a : a = [g EXCEPT !.status[n] = "ACCEPTED", !.out[n] = output,
                     !.verdict[n] = IF NodeType[n] = "GATE" THEN verdict ELSE @]
  OBVIOUS
<1>2. PICK m : m = MarkReady(a, DefaultParallelism)
  OBVIOUS
<1>3. PICK r : r = [m EXCEPT !.gstatus = IF GloballyAccepted(m) THEN "ACCEPTED" ELSE @]
  OBVIOUS
<1>4. r = AcceptNode(g, n, output, verdict)
  BY <1>1, <1>2, <1>3 DEF AcceptNode
<1>5. /\ DOMAIN a = DOMAIN g /\ a.gstatus = g.gstatus
      /\ a.status = [g.status EXCEPT ![n] = "ACCEPTED"] /\ a.attempt = g.attempt
      /\ a.verdict = [g.verdict EXCEPT ![n] = IF NodeType[n] = "GATE" THEN verdict ELSE @]
      /\ a.out = [g.out EXCEPT ![n] = output]
      /\ a.input = g.input /\ a.constraints = g.constraints
  BY <1>1 DEF GraphOK
<1>6. GraphOK(a)
  <2>1. a.status \in [Node -> NodeStatus]
    BY <1>5 DEF GraphOK, NodeStatus
  <2>2. a.verdict \in [Node -> Verdict]
    BY <1>5 DEF GraphOK
  <2>3. \A k \in Node : NodeType[k] # "GATE" => a.verdict[k] = "NONE"
    BY <1>5 DEF GraphOK
  <2>4. a.out \in [Node -> Output \cup {NoOutput}]
    BY <1>5 DEF GraphOK
  <2> QED BY <1>5, <2>1, <2>2, <2>3, <2>4 DEF GraphOK
<1>7. Given(a)
  BY <1>5 DEF Based, Given, GraphOK
<1>8. ASSUME NEW k \in Running(a), NodeType[k] # "MERGE"
      PROVE  \A d \in Deps[k] : a.status[d] \in Done \/ Empty(a, d)
  <2>1. k \in Running(g)
    BY <1>5, <1>8 DEF Running, GraphOK
  <2>2. \A d \in Deps[k] : d \in Node /\ (g.status[d] \in Done \/ Empty(g, d))
    BY <1>8, <2>1, DepsAreNodes DEF Based, Stands, Running
  <2> QED BY <1>5, <2>2 DEF Empty, GraphOK, Done
<1>9. Based(m)
  <2> HIDE DEF DefaultParallelism
  <2> QED BY <1>2, <1>6, <1>7, <1>8, MarkReadyBased
<1>10. GraphOK(m)
  BY <1>2, <1>6, MarkReadySettled
<1>11. r.status = m.status /\ r.verdict = m.verdict /\ r.out = m.out /\ r.input = m.input
       /\ r.constraints = m.constraints
  BY <1>3, <1>10 DEF GraphOK
<1>12. \A k : InputOf(r, k) = InputOf(m, k)
  BY <1>11 DEF InputOf
<1> QED BY <1>4, <1>9, <1>11, <1>12 DEF Based, Computed, Given, Running, Stands, Empty

LEMMA ResolveGateBased ==
  ASSUME NEW g, GraphOK(g), Based(g), NEW n \in Node, NEW output \in Output, NEW verdict \in GateResult
  PROVE  Based(ResolveGate(g, n, output, verdict))
<1>1. PICK a : a = AcceptNode(g, n, output, verdict)
  OBVIOUS
<1>2. verdict \in Verdict
  BY DEF Verdict
<1>3. Based(a) /\ GraphOK(a)
  BY <1>1, <1>2, AcceptNodeBased, AcceptNodeFields
<1>4. PICK r : r = [a EXCEPT !.gstatus = IF verdict = "PASS" THEN @
                                        ELSE IF n = GlobalGate THEN "FAILED" ELSE "RUNNING"]
  OBVIOUS
<1>5. r = ResolveGate(g, n, output, verdict)
  BY <1>1, <1>4 DEF ResolveGate
<1>6. r.status = a.status /\ r.verdict = a.verdict /\ r.out = a.out /\ r.input = a.input
      /\ r.constraints = a.constraints
  BY <1>3, <1>4 DEF GraphOK
<1>7. \A k : InputOf(r, k) = InputOf(a, k)
  BY <1>6 DEF InputOf
<1> QED BY <1>3, <1>5, <1>6, <1>7 DEF Based, Computed, Given, Running, Stands, Empty

(* What is started stands on the results its claim names.                   *)
LEMMA StartNodeBased ==
  ASSUME NEW g, GraphOK(g), Based(g), NEW slots \in Nat, NEW n \in ReadyNodes(g, slots),
         NEW k \in Nat
  PROVE  /\ Based(StartNode(g, n))
         /\ n \in Node
         /\ ClaimBased([node |-> n, attempt |-> k, input |-> g.input[n]])
<1>1. n \in Node /\ Candidate(g, n)
  BY ReadyNodeFits
<1>2. g.attempt[n] < MaxAttempts[n] /\ g.status[n] \notin Done \cup {"RUNNING"} /\ InputsReady(g, n)
  BY <1>1 DEF Candidate, Done
<1>3. PICK m : m = StartNode(g, n)
  OBVIOUS
<1>4. /\ m.status = [g.status EXCEPT ![n] = "RUNNING"]
      /\ m.verdict = g.verdict /\ m.out = g.out /\ m.input = g.input /\ m.constraints = g.constraints
  BY <1>1, <1>2, <1>3, StartNodeFields
<1>5. Steady(g, m)
  BY <1>1, <1>2, <1>3, StartNodeSteady
<1>6. NodeType[n] # "MERGE" => \A d \in Deps[n] : d \in Node /\ g.status[d] \in Done
  BY <1>1, <1>2, DepsAreNodes DEF InputsReady, PredecessorReady, Deps
<1>7. NodeType[n] # "MERGE" => g.input[n] = InputOf(g, n)
  BY <1>1, <1>6 DEF Based, Computed
<1>8. Computed(m) /\ Given(m)
  BY <1>5, SteadyComputed DEF Based, Given, Steady
<1>9. ASSUME NEW j \in Running(m), NodeType[j] # "MERGE" PROVE Stands(m, j)
  <2>1. j \in Node /\ (j = n \/ j \in Running(g))
    BY <1>1, <1>4, <1>9 DEF Running, GraphOK
  <2>2. g.input[j] = InputOf(g, j) /\ \A d \in Deps[j] : d \in Node /\ (g.status[d] \in Done \/ Empty(g, d))
    BY <1>6, <1>7, <1>9, <2>1, DepsAreNodes DEF Based, Stands
  <2>3. InputOf(m, j) = InputOf(g, j)
    BY <1>4 DEF InputOf
  <2>4. \A d \in Node : g.status[d] \in Done => m.status[d] \in Done
    BY <1>2, <1>4 DEF GraphOK, Done
  <2> QED BY <1>4, <2>1, <2>2, <2>3, <2>4 DEF Stands, Empty
<1>10. ASSUME NodeType[n] # "MERGE", NEW e \in Edge, e.to = n
       PROVE  /\ g.out[e.from] \in Output /\ g.verdict[e.from] \in Verdict
              /\ g.input[n].upstream[e.from] = << g.out[e.from], g.verdict[e.from] >>
              /\ NodeType[e.from] = "GATE" /\ e.type # "plain" =>
                   (IF g.verdict[e.from] = "INCONCLUSIVE" THEN "FAIL" ELSE g.verdict[e.from]) = Selects(e)
  <2>1. e.from \in Deps[n]
    BY <1>1, <1>10 DEF Deps
  <2>2. e.from \in Node /\ g.status[e.from] \in Done
    BY <1>6, <1>10, <2>1
  <2>3. EdgeActive(g, e)
    BY <1>2, <1>10 DEF InputsReady
  <2>4. g.input[n].upstream[e.from] = << g.out[e.from], g.verdict[e.from] >>
    BY <1>7, <1>10, <2>1, Upstream
  <2> QED BY <2>2, <2>3, <2>4 DEF Based, Given, GraphOK, EdgeActive, EffectiveVerdict, GateVerdict
<1>11. PICK c : c = [node |-> n, attempt |-> k, input |-> g.input[n]]
  OBVIOUS
<1>12. c.node = n /\ c.input = g.input[n]
  BY <1>11
<1>13. ClaimBased(c)
  BY <1>10, <1>12 DEF ClaimBased
<1> QED BY <1>1, <1>3, <1>8, <1>9, <1>11, <1>13 DEF Based

(* A constraint gives every node its input anew, too.                       *)
LEMMA AddConstraintBased ==
  ASSUME NEW g, GraphOK(g), Based(g), NEW c \in Constraint
  PROVE  Based(AddConstraint(g, c))
<1>1. PICK a : a = [g EXCEPT !.constraints = @ \cup {c}]
  OBVIOUS
<1>2. GraphOK(a) /\ a.status = g.status /\ a.out = g.out /\ a.verdict = g.verdict
  BY <1>1 DEF GraphOK
<1>3. PICK hit : hit = {n \in c.invalidates \cup DownstreamOf(c.invalidates) :
                         g.status[n] \in Success}
  OBVIOUS
<1>4. PICK b : b = Cleared(a, hit)
  OBVIOUS
<1>5. GraphOK(b)
  BY <1>2, <1>4, ClearedFields
<1>6. \A n \in Node : IF n \in hit THEN Empty(b, n)
                      ELSE b.out[n] = g.out[n] /\ b.verdict[n] = g.verdict[n]
  BY <1>2, <1>4 DEF Cleared, GraphOK, Empty
<1>7. PICK f : f = With(g, hit, "INVALIDATED")
  OBVIOUS
<1>8. PICK d : d = [b EXCEPT !.status = f]
  OBVIOUS
<1>9. d.status = f /\ d.out = b.out /\ d.verdict = b.verdict /\ d.constraints = b.constraints
      /\ DOMAIN d = DOMAIN b
  BY <1>5, <1>8 DEF GraphOK
<1>10. PICK r : r = RecomputeInputs(d)
  OBVIOUS
<1>11. AddConstraint(g, c) = r
  BY <1>1, <1>3, <1>4, <1>7, <1>8, <1>10 DEF AddConstraint
<1>12. r.status = f /\ r.out = b.out /\ r.verdict = b.verdict /\ r.constraints = d.constraints
       /\ \A n \in Node : r.input[n] = InputOf(d, n)
  BY <1>5, <1>9, <1>10 DEF RecomputeInputs, GraphOK
<1>13. \A n : InputOf(r, n) = InputOf(d, n)
  BY <1>9, <1>12 DEF InputOf
<1>14. Computed(r)
  BY <1>12, <1>13 DEF Computed
<1>15. Given(r)
  BY <1>6, <1>7, <1>12 DEF Given, Based, With, Done
<1>16. ASSUME NEW k \in Running(r), NodeType[k] # "MERGE" PROVE Stands(r, k)
  <2>1. k \in Node /\ k \in Running(g)
    BY <1>7, <1>12, <1>16 DEF Running, With
  <2>2. \A n \in Deps[k] : n \in Node /\ (g.status[n] \in Done \/ Empty(g, n))
    BY <1>16, <2>1, DepsAreNodes DEF Based, Stands
  <2>3. \A n \in Deps[k] : r.status[n] \in Done \/ Empty(r, n)
    BY <1>6, <1>7, <1>12, <2>2 DEF With, Empty
  <2> QED BY <1>12, <1>13, <2>1, <2>3 DEF Stands
<1> QED BY <1>11, <1>14, <1>15, <1>16 DEF Based
-----------------------------------------------------------------------------
BInv ==
  /\ snap # NoGraph => Based(snap)
  /\ ckpt # NoGraph => Based(ckpt)
  /\ \A c \in claims : ClaimBased(c)

LEMMA CommitBased ==
  ASSUME BInv, NEW m, Based(m), snap' = m, ckpt' \in {m, ckpt}, claims' \subseteq claims
  PROVE  BInv'
BY DEF BInv

LEMMA StandBased ==
  ASSUME BInv, {snap', ckpt'} \subseteq {snap, ckpt}, claims' \subseteq claims
  PROVE  BInv'
BY DEF BInv

LEMMA PlanBased ==
  ASSUME BInv, Plan \/ SavePlan \/ AppendIntent
  PROVE  BInv'
<1>1. CASE Plan
  <2>1. PICK f : f = FreshGraph
    OBVIOUS
  <2>2. \A n \in Node : f.status[n] = "PENDING"
    BY <2>1 DEF FreshGraph
  <2>3. GraphOK(f) /\ Given(f) /\ Running(f) = {}
    BY <2>1, <2>2, FreshGraphOK DEF Given, Running, Done
  <2>4. Based(MarkReady(f, MaxParallelism))
    BY <2>3, MarkReadyBased
  <2> QED BY <1>1, <2>1, <2>4 DEF Plan, BInv
<1>2. CASE SavePlan \/ AppendIntent
  BY <1>2, StandBased DEF SavePlan, AppendIntent
<1> QED BY <1>1, <1>2

LEMMA StartBased ==
  ASSUME FInv, BInv, NEW n \in Node, Start(n) \/ AppendRunning(n)
  PROVE  BInv'
<1>1. CASE Start(n)
  <2>1. /\ snap # NoGraph /\ GraphOK(snap) /\ Based(snap) /\ n \in ReadyNodes(snap, MaxParallelism)
        /\ snap' = StartNode(snap, n) /\ ckpt' = ckpt
        /\ claims' = {c \in claims : c.node # n}
             \cup {[node |-> n, attempt |-> snap.attempt[n] + 1, input |-> snap.input[n]]}
    BY <1>1 DEF Start, Startable, Planned, FInv, Whole, BInv
  <2>2. snap.attempt[n] + 1 \in Nat
    BY <2>1 DEF GraphOK
  <2>3. /\ Based(StartNode(snap, n))
        /\ ClaimBased([node |-> n, attempt |-> snap.attempt[n] + 1, input |-> snap.input[n]])
    BY <2>1, <2>2, Parallel, StartNodeBased
  <2> QED BY <2>1, <2>3 DEF BInv
<1>2. CASE AppendRunning(n)
  BY <1>2, StandBased DEF AppendRunning
<1> QED BY <1>1, <1>2

LEMMA FailNodeBased ==
  ASSUME NEW g, GraphOK(g), Based(g), NEW n \in Node
  PROVE  Based(FailNode(g, n))
BY FailAllBased DEF FailNode

LEMMA ResultBased ==
  ASSUME FInv, BInv, NEW n \in Node, RecordResult(n)
  PROVE  BInv'
<1>1. PICK amount \in Amount \cup {Unknown} :
        \/ RecordOverBudget(n, amount)
        \/ \E output \in Output, verdict \in Outcome : RecordGateResult(n, output, verdict, amount)
        \/ \E verdict \in Outcome : RecordRejected(n, verdict, amount)
        \/ \E output \in Output : RecordAccepted(n, output, amount)
  BY DEF RecordResult
<1>2. ResultAccepted(n, UsageRow(n, snap.attempt[n], amount))
  BY <1>1 DEF RecordOverBudget, RecordGateResult, RecordRejected, RecordAccepted
<1>3. snap # NoGraph /\ GraphOK(snap) /\ Based(snap) /\ claims' = claims
  BY <1>2 DEF ResultAccepted, Planned, FInv, Whole, BInv
<1>4. PICK m : snap' = m /\ ckpt' = m /\ Based(m)
  <2>1. CASE RecordOverBudget(n, amount) \/ \E verdict \in Outcome : RecordRejected(n, verdict, amount)
    BY <1>3, <2>1, FailNodeBased DEF RecordOverBudget, RecordRejected, CommitFailure, CommitGraph
  <2>2. CASE \E output \in Output, verdict \in Outcome : RecordGateResult(n, output, verdict, amount)
    BY <1>3, <2>2, ResolveGateBased, EngineConstants DEF RecordGateResult, CommitGraph
  <2>3. CASE \E output \in Output : RecordAccepted(n, output, amount)
    BY <1>3, <2>3, AcceptNodeBased DEF RecordAccepted, CommitGraph, Verdict
  <2> QED BY <1>1, <2>1, <2>2, <2>3
<1> QED BY <1>3, <1>4, CommitBased

LEMMA SendBackBased ==
  ASSUME FInv, BInv, NEW n \in Node,
         SendBackApplied(n) \/ SendBackConverged(n) \/ SendBackRefused(n)
  PROVE  BInv'
<1>1. /\ SendBackDone(n) /\ snap # NoGraph /\ GraphOK(snap) /\ Based(snap) /\ claims' = claims
  BY DEF SendBackApplied, SendBackConverged, SendBackRefused, SendBackDone, FInv, PcOK, Idle, Whole, BInv
<1>2. CASE SendBackApplied(n) \/ SendBackConverged(n)
  <2>1. PICK m : snap' = m /\ ckpt' = m /\ Based(m)
    BY <1>1, <1>2, TargetsAreNodes, FailAllBased, GivenUpBased
       DEF SendBackApplied, SendBackConverged, CommitGraph, ApplySendBack
  <2> QED BY <1>1, <2>1, CommitBased
<1>3. CASE SendBackRefused(n)
  BY <1>1, <1>3, StandBased DEF SendBackRefused
<1> QED BY <1>2, <1>3

LEMMA ApprovalBased ==
  ASSUME FInv, BInv, NEW n \in Node,
         \/ BeginApproval(n)
         \/ \E op \in Op, output \in Output, amount \in Amount \cup {Unknown} :
              CommitApproval(n, op, output, amount)
  PROVE  BInv'
<1>1. CASE BeginApproval(n)
  BY <1>1, StandBased DEF BeginApproval
<1>2. ASSUME NEW op \in Op, NEW output \in Output, NEW amount \in Amount \cup {Unknown},
             CommitApproval(n, op, output, amount)
      PROVE  BInv'
  <2>1. PICK g : g = StartNode(snap, n)
    OBVIOUS
  <2>2. /\ snap' = ckpt' /\ claims' = claims
        /\ snap' \in {FailNode(g, n), AcceptNode(g, n, output, "NONE")}
    BY <1>2, <2>1 DEF CommitApproval, CommitGraph
  <2>3. snap # NoGraph /\ Whole(snap) /\ Based(snap) /\ n \in ReadyNodes(snap, MaxParallelism)
    BY <1>2 DEF CommitApproval, FInv, PcOK, Idle, BInv
  <2>4. Based(g) /\ GraphOK(g)
    BY <2>1, <2>3, Parallel, StartNodeBased, StartNodeCarried DEF Whole, Carried
  <2>5. Based(FailNode(g, n)) /\ Based(AcceptNode(g, n, output, "NONE"))
    BY <2>4, FailNodeBased, AcceptNodeBased DEF Verdict
  <2> QED BY <2>2, <2>5, CommitBased
<1> QED BY <1>1, <1>2

LEMMA OtherBased ==
  ASSUME FInv, BInv, NEW n \in Node,
         \/ Retry(n)
         \/ \E reason \in HostReason : RecordFailure(n, reason)
         \/ \E reason \in HostReason, amount \in Amount \cup {Unknown} :
              RecordMeasuredFailure(n, reason, amount)
         \/ \E op \in Op : Prepare(n, op) \/ CommitReceipt(n, op)
  PROVE  BInv'
<1>1. CASE \E op \in Op : Prepare(n, op) \/ CommitReceipt(n, op)
  BY <1>1, StandBased DEF Prepare, CommitReceipt
<1>2. CASE Retry(n)
  BY <1>2, RetryNodeBased, CommitBased DEF Retry, Retryable, Planned, FInv, Whole, BInv
<1>3. CASE \/ \E reason \in HostReason : RecordFailure(n, reason)
           \/ \E reason \in HostReason, amount \in Amount \cup {Unknown} :
                RecordMeasuredFailure(n, reason, amount)
  <2>1. /\ snap # NoGraph /\ GraphOK(snap) /\ Based(snap)
        /\ snap' = FailNode(snap, n) /\ ckpt' = FailNode(snap, n) /\ claims' = claims
    BY <1>3 DEF RecordFailure, RecordMeasuredFailure, CommitFailure, CommitGraph, Planned,
                FInv, Whole, BInv
  <2> QED BY <2>1, FailNodeBased, CommitBased
<1> QED BY <1>1, <1>2, <1>3

LEMMA ResumeBased ==
  ASSUME FInv, BInv, Resume \/ ResumeConverged
  PROVE  BInv'
<1>1. ckpt # NoGraph /\ GraphOK(ckpt) /\ Based(ckpt) /\ claims' = claims
  BY DEF Resume, ResumeConverged, Resumable, FInv, Whole, BInv
<1>2. TargetsOf(PendingSources(ckpt)) \in SUBSET Node
  BY TargetsAreNodes DEF TargetsOf
<1>3. PICK m : snap' = m /\ ckpt' = m /\ Based(m)
  BY <1>1, <1>2, FailAllBased, GivenUpBased
     DEF Resume, ResumeConverged, CommitGraph, RecoverSendBacks
<1> QED BY <1>1, <1>3, CommitBased

(* Every step keeps what results stand on.                                  *)
LEMMA EveryStepBased == FInv /\ BInv /\ [FeedbackNext]_vars => BInv'
<1> SUFFICES ASSUME FInv, BInv, [FeedbackNext]_vars PROVE BInv'
  OBVIOUS
<1>1. ASSUME NEW n \in Node, NodeStep(n) PROVE BInv'
  BY <1>1, StartBased, ResultBased, SendBackBased, ApprovalBased, OtherBased DEF NodeStep
<1>2. CASE (\E key \in granted : HostEffect(key)) \/ Crash \/ CheckpointReceipt \/ UNCHANGED vars
  BY <1>2, StandBased DEF HostEffect, Crash, CheckpointReceipt, vars, durable
<1>3. CASE \E c \in Constraint : AddVerifiedConstraint(c)
  BY <1>3, AddConstraintBased, CommitBased
     DEF AddVerifiedConstraint, Constrainable, CommitGraph, Planned, FInv, Whole, BInv
<1>4. CASE Cancel
  BY <1>4, CancelGraphBased, CommitBased DEF Cancel, CommitGraph, Planned, FInv, Whole, BInv
<1> QED BY <1>1, <1>2, <1>3, <1>4, PlanBased, ResumeBased DEF FeedbackNext, Next

(* An attempt that still has the input it was claimed with stands on its    *)
(* edges.                                                                   *)
StandsIn(n) ==
  \A e \in Edge : e.to = n => EdgeActive(snap, e) /\ PredecessorReady(snap, e.from, n)

LEMMA AcceptedStands ==
  ASSUME FInv, BInv, NEW n \in Node, NodeType[n] # "MERGE", snap # NoGraph, snap.status[n] = "RUNNING",
         NEW c \in claims, c.node = n, c.input = snap.input[n]
  PROVE  StandsIn(n)
<1> SUFFICES ASSUME NEW e \in Edge, e.to = n
             PROVE  EdgeActive(snap, e) /\ PredecessorReady(snap, e.from, n)
  BY DEF StandsIn
<1>1. e.from \in Deps[n] /\ e.from \in Node
  BY DepsAreNodes DEF Deps
<1>2. Stands(snap, n) /\ GraphOK(snap)
  BY DEF BInv, Based, Running, FInv, Whole
<1>3. snap.input[n].upstream[e.from] = << snap.out[e.from], snap.verdict[e.from] >>
  BY <1>1, <1>2, Upstream DEF Stands
<1>4. PICK o \in Output, v \in Verdict :
        /\ c.input.upstream[e.from] = << o, v >>
        /\ NodeType[e.from] = "GATE" /\ e.type # "plain" =>
             (IF v = "INCONCLUSIVE" THEN "FAIL" ELSE v) = Selects(e)
  BY DEF BInv, ClaimBased
<1>5. snap.out[e.from] = o /\ snap.verdict[e.from] = v
  BY <1>3, <1>4
<1>6. snap.status[e.from] \in Done
  BY <1>1, <1>2, <1>5, OutputsDistinct DEF Stands, Empty
<1>7. ASSUME e.type # "plain" PROVE EffectiveVerdict(snap, e.from) = Selects(e)
  <2>1. CASE NodeType[e.from] = "GATE"
    BY <1>4, <1>5, <1>7, <2>1 DEF EffectiveVerdict, GateVerdict
  <2>2. CASE NodeType[e.from] # "GATE"
    <3>1. e.type = "gate_pass"
      BY <1>7, <2>2, Compiled DEF EdgesTyped, EdgeTypes
    <3> QED BY <1>6, <2>2, <3>1 DEF EffectiveVerdict, GateVerdict, Selects
  <2> QED BY <2>1, <2>2
<1> QED BY <1>6, <1>7 DEF EdgeActive, PredecessorReady

LEMMA BInitially == Init => BInv
BY DEF Init, BInv

(* What is accepted stands on its edges, whatever constraints have taken    *)
(* back and given again meanwhile; a MERGE may also stand on a skipped node *)
(* that a constraint took back, to be skipped again.                        *)
THEOREM ResultsStand ==
  FeedbackSpec => [][\A n \in Node : Finished(n) /\ NodeType[n] # "MERGE" => StandsIn(n)]_vars
<1>1. FInv /\ BInv /\ [FeedbackNext]_vars => FInv' /\ BInv'
  BY EveryStepKeeps, EveryStepBased DEF StepKeeps
<1>2. FInv /\ BInv /\ [FeedbackNext]_vars =>
        [\A n \in Node : Finished(n) /\ NodeType[n] # "MERGE" => StandsIn(n)]_vars
  <2> SUFFICES ASSUME FInv, BInv, FeedbackNext, NEW n \in Node, Finished(n), NodeType[n] # "MERGE"
               PROVE  StandsIn(n)
    OBVIOUS
  <2>1. Claimed(n)
    BY EveryStepKeeps DEF StepKeeps, Obeyed
  <2>2. PICK c \in claims : c.node = n /\ c.input = snap.input[n]
    BY <2>1 DEF Claimed
  <2> QED BY <2>2, AcceptedStands DEF Finished
<1> QED BY <1>1, <1>2, FInitially, BInitially, PTL DEF FeedbackSpec

(* Without a MERGE, every result that is accepted stands.                   *)
THEOREM ResultsStandWithoutMerge ==
  ASSUME \A n \in Node : NodeType[n] # "MERGE"
  PROVE  FeedbackSpec => ResultStands
<1>1. [\A n \in Node : Finished(n) /\ NodeType[n] # "MERGE" => StandsIn(n)]_vars =>
        [\A n \in Node : Finished(n) =>
           \A e \in Edge : e.to = n =>
             EdgeActive(snap, e) /\ PredecessorReady(snap, e.from, n)]_vars
  BY DEF StandsIn
<1> QED BY <1>1, ResultsStand, PTL DEF ResultStands
-----------------------------------------------------------------------------
(* That a graph does not wedge.  First upstream and downstream, and the     *)
(* critical path, another recursion.                                        *)

LEMMA ChildrenBelow ==
  ASSUME NEW n \in Node, NEW c \in Children[n]
  PROVE  c \in Node /\ c \in Downstream[n] /\ Downstream[c] \subseteq Downstream[n] \ {c}
<1>1. c \in Node
  BY Compiled DEF Children, EdgesTyped
<1>2. c \in Downstream[n]
  BY <1>1 DEF Downstream
<1>3. ASSUME NEW m \in Downstream[c] PROVE m \in Downstream[n]
  <2> SUFFICES ASSUME NEW S \in SUBSET Node, Children[n] \subseteq S, ClosedUnderChildren(S)
               PROVE  m \in S
    BY <1>1, <1>3 DEF Downstream
  <2>1. Children[c] \subseteq S
    BY DEF ClosedUnderChildren
  <2> QED BY <1>1, <1>3, <2>1 DEF Downstream
<1>4. c \notin Downstream[c]
  BY <1>1, Compiled DEF Acyclic
<1> QED BY <1>1, <1>2, <1>3, <1>4

(* What holds of the children, and of the children of whatever it holds of, *)
(* holds downstream.                                                        *)
LEMMA DownstreamLeast ==
  ASSUME NEW n \in Node, NEW S \in SUBSET Node, Children[n] \subseteq S, ClosedUnderChildren(S)
  PROVE  Downstream[n] \subseteq S
BY DEF Downstream

Depth == [n \in Node |-> Cardinality(Downstream[n])]

LEMMA DepthDecreases ==
  /\ Depth \in [Node -> Nat]
  /\ \A n \in Node : \A c \in Children[n] : c \in Node /\ Depth[c] < Depth[n]
<1>1. \A n \in Node : IsFiniteSet(Downstream[n]) /\ Cardinality(Downstream[n]) \in Nat
  <2> TAKE n \in Node
  <2>1. Downstream[n] \subseteq Node
    BY DEF Downstream
  <2> QED BY <2>1, NodesFinite, FS_Subset, FS_CardinalityType
<1>2. ASSUME NEW n \in Node, NEW c \in Children[n] PROVE c \in Node /\ Depth[c] < Depth[n]
  <2>1. c \in Node /\ c \in Downstream[n] /\ Downstream[c] \subseteq Downstream[n] \ {c}
    BY ChildrenBelow
  <2>2. Cardinality(Downstream[n] \ {c}) = Cardinality(Downstream[n]) - 1
        /\ IsFiniteSet(Downstream[n] \ {c})
    BY <1>1, <2>1, FS_RemoveElement
  <2>3. Cardinality(Downstream[c]) <= Cardinality(Downstream[n] \ {c})
    BY <2>1, <2>2, FS_Subset
  <2> QED BY <1>1, <2>1, <2>2, <2>3 DEF Depth
<1> QED BY <1>1, <1>2 DEF Depth

(* The recursive definition of the critical path has a solution, so it is   *)
(* one; its values are natural numbers that decrease downstream.            *)
PathLength(f, n) ==
  IF Children[n] = {} THEN 1
  ELSE 1 + (CHOOSE k \in {f[c] : c \in Children[n]} : \A c \in Children[n] : f[c] <= k)

(* It depends on the lengths of the children alone.                         *)
LEMMA PathLengthBelow ==
  ASSUME NEW n, NEW f, NEW h, \A c \in Children[n] : f[c] = h[c]
  PROVE  PathLength(f, n) = PathLength(h, n)
<1> DEFINE Longest(k, e) == k \in {e[c] : c \in Children[n]} /\ \A c \in Children[n] : e[c] <= k
<1>1. \A k : Longest(k, f) <=> Longest(k, h)
  OBVIOUS
<1>2. \A e : PathLength(e, n) = IF Children[n] = {} THEN 1 ELSE 1 + (CHOOSE k : Longest(k, e))
  BY DEF PathLength
<1>3. (CHOOSE k : Longest(k, f)) = (CHOOSE k : Longest(k, h))
  <2> HIDE DEF Longest
  <2> QED BY <1>1, Zenon
<1> HIDE DEF Longest
<1> QED BY <1>2, <1>3

LEMMA LongestChild ==
  ASSUME NEW n \in Node, Children[n] # {}, NEW f, \A c \in Children[n] : f[c] \in Nat
  PROVE  /\ PathLength(f, n) \in Nat
         /\ \A c \in Children[n] : f[c] < PathLength(f, n)
<1> DEFINE Lengths == {f[c] : c \in Children[n]}
<1>1. IsFiniteSet(Children[n])
  <2>1. Children[n] \subseteq Node
    BY Compiled DEF EdgesTyped, Children
  <2> QED BY <2>1, NodesFinite, FS_Subset
<1>2. Lengths \in SUBSET Nat /\ Lengths # {} /\ IsFiniteSet(Lengths)
  BY <1>1, FiniteImage
<1>3. \E k \in Lengths : \A c \in Children[n] : f[c] <= k
  <2>1. PICK k \in Lengths : \A j \in Lengths : j <= k
    <3> HIDE DEF Lengths
    <3> QED BY <1>2, LargestNatural
  <2>2. \A c \in Children[n] : f[c] \in Lengths
    OBVIOUS
  <2> QED BY <2>1, <2>2
<1>4. PICK k : k = CHOOSE j \in Lengths : \A c \in Children[n] : f[c] <= j
  OBVIOUS
<1>5. k \in Lengths /\ \A c \in Children[n] : f[c] <= k
  BY <1>3, <1>4
<1>6. PathLength(f, n) = 1 + k
  BY <1>4 DEF PathLength
<1> QED BY <1>2, <1>5, <1>6

LEMMA CriticalPathSolves == CriticalPath = [n \in Node |-> PathLength(CriticalPath, n)]
<1> DEFINE F == [f \in [Node -> Nat] |-> [n \in Node |-> PathLength(f, n)]]
<1>1. F \in [[Node -> Nat] -> [Node -> Nat]]
  <2> SUFFICES ASSUME NEW f \in [Node -> Nat], NEW n \in Node PROVE PathLength(f, n) \in Nat
    OBVIOUS
  <2>1. \A c \in Children[n] : f[c] \in Nat
    BY DepthDecreases
  <2>2. CASE Children[n] = {}
    BY <2>2 DEF PathLength
  <2> QED BY <2>1, <2>2, LongestChild
<1>2. RankRecursive(F, Node, Nat, Depth)
  <2> SUFFICES ASSUME NEW f \in [Node -> Nat], NEW h \in [Node -> Nat], NEW n \in Node,
                      \A m \in Node : Depth[m] < Depth[n] => f[m] = h[m]
               PROVE  PathLength(f, n) = PathLength(h, n)
    BY DEF RankRecursive
  <2>1. \A c \in Children[n] : f[c] = h[c]
    BY DepthDecreases
  <2> QED BY <2>1, PathLengthBelow
<1>3. PICK f \in [Node -> Nat] : f = F[f]
  <2>1. Nat # {} /\ IsFiniteSet(Node) /\ Depth \in [Node -> Nat]
    BY NodesFinite, DepthDecreases
  <2> HIDE DEF F
  <2>2. WellRecursive(F, Node, Nat, Depth)
    BY <1>1, <1>2, <2>1 DEF WellRecursive
  <2> QED BY <2>2, RecursionSolved
<1>4. f = [n \in Node |-> PathLength(f, n)]
  BY <1>3
<1> DEFINE Solves(h) == h = [n \in Node |-> PathLength(h, n)]
<1>5. Solves(f)
  BY <1>4
<1>6. CriticalPath = CHOOSE h : Solves(h)
  BY DEF CriticalPath, PathLength
<1>7. Solves(CriticalPath)
  <2> HIDE DEF Solves
  <2> QED BY <1>5, <1>6
<1> QED BY <1>7

LEMMA CriticalPathNatural == \A n \in Node : CriticalPath[n] \in Nat
<1> SUFFICES ASSUME NEW n0 \in Node, CriticalPath[n0] \notin Nat PROVE FALSE
  OBVIOUS
<1> DEFINE Depths == {Depth[n] : n \in {m \in Node : CriticalPath[m] \notin Nat}}
<1>1. Depths \in SUBSET Nat /\ Depths # {}
  BY DepthDecreases
<1>2. PICK k \in Depths : \A j \in Depths : k <= j
  <2> HIDE DEF Depths
  <2> QED BY <1>1, LeastNatural
<1>3. PICK n \in Node : k = Depth[n] /\ CriticalPath[n] \notin Nat
  OBVIOUS
<1>4. \A c \in Children[n] : CriticalPath[c] \in Nat
  BY <1>2, <1>3, DepthDecreases
<1>5. CriticalPath[n] = PathLength(CriticalPath, n)
  BY CriticalPathSolves
<1>6. CASE Children[n] = {}
  BY <1>3, <1>5, <1>6 DEF PathLength
<1> QED BY <1>3, <1>4, <1>5, <1>6, LongestChild

LEMMA CriticalPathDecreases ==
  ASSUME NEW n \in Node, NEW m \in Downstream[n]
  PROVE  m \in Node /\ CriticalPath[m] < CriticalPath[n]
<1>1. \A k \in Node : \A c \in Children[k] : c \in Node /\ CriticalPath[c] < CriticalPath[k]
  <2> TAKE k \in Node
  <2>1. \A c \in Children[k] : c \in Node /\ CriticalPath[c] \in Nat
    BY CriticalPathNatural, DepthDecreases
  <2>2. CriticalPath[k] = PathLength(CriticalPath, k)
    BY CriticalPathSolves
  <2> QED BY <2>1, <2>2, LongestChild
<1> DEFINE S == {k \in Node : CriticalPath[k] < CriticalPath[n]}
<1>2. Children[n] \subseteq S
  BY <1>1
<1>3. ClosedUnderChildren(S)
  BY <1>1, CriticalPathNatural DEF ClosedUnderChildren
<1>4. Downstream[n] \subseteq S
  <2>1. S \in SUBSET Node
    OBVIOUS
  <2> HIDE DEF S
  <2> QED BY <1>2, <1>3, <2>1, DownstreamLeast
<1> QED BY <1>4
-----------------------------------------------------------------------------
(* The scheduling order: a strict order in which whatever is upstream comes *)
(* first, so that every set of nodes has a first one.                       *)

LEMMA ScheduleNaturals ==
  \A n \in Node : CriticalPath[n] \in Nat /\ Risk[n] \in Nat /\ Rank[n] \in Nat
<1>1. Risk \in [Node -> 0 .. 3] /\ Rank \in [Node -> Nat]
  BY Compiled DEF ContractsTyped
<1> QED BY <1>1, CriticalPathNatural

LEMMA BeforeOrders ==
  /\ \A n \in Node : ~Before(n, n)
  /\ \A m, n, k \in Node : Before(m, n) /\ Before(n, k) => Before(m, k)
BY ScheduleNaturals DEF Before

LEMMA UpstreamFirst ==
  ASSUME NEW n \in Node, NEW m \in Downstream[n]
  PROVE  m \in Node /\ Before(n, m)
BY CriticalPathDecreases, ScheduleNaturals DEF Before

Position == [n \in Node |-> Cardinality({m \in Node : Before(m, n)})]

LEMMA PositionGrows ==
  /\ Position \in [Node -> Nat]
  /\ \A m, n \in Node : Before(m, n) => Position[m] < Position[n]
<1>1. \A n \in Node : /\ IsFiniteSet({m \in Node : Before(m, n)})
                      /\ Cardinality({m \in Node : Before(m, n)}) \in Nat
  <2> TAKE n \in Node
  <2>1. {m \in Node : Before(m, n)} \subseteq Node
    OBVIOUS
  <2> QED BY <2>1, NodesFinite, FS_Subset, FS_CardinalityType
<1>2. ASSUME NEW m \in Node, NEW n \in Node, Before(m, n) PROVE Position[m] < Position[n]
  <2>1. PICK M, N : M = {k \in Node : Before(k, m)} /\ N = {k \in Node : Before(k, n)}
    OBVIOUS
  <2>2. M \subseteq N \ {m} /\ m \in N
    BY <1>2, <2>1, BeforeOrders
  <2>3. IsFiniteSet(N) /\ Cardinality(N) \in Nat /\ Cardinality(M) \in Nat
    BY <1>1, <2>1
  <2>4. Cardinality(N \ {m}) = Cardinality(N) - 1 /\ IsFiniteSet(N \ {m})
    BY <2>2, <2>3, FS_RemoveElement
  <2>5. Cardinality(M) <= Cardinality(N \ {m})
    BY <2>2, <2>4, FS_Subset
  <2> QED BY <2>1, <2>3, <2>4, <2>5 DEF Position
<1> QED BY <1>1, <1>2 DEF Position

LEMMA FirstNode ==
  ASSUME NEW S \in SUBSET Node, S # {}
  PROVE  \E s \in S : \A m \in S : ~Before(m, s)
<1> DEFINE Places == {Position[n] : n \in S}
<1>1. Places \in SUBSET Nat /\ Places # {}
  BY PositionGrows
<1>2. PICK k \in Places : \A j \in Places : k <= j
  <2> HIDE DEF Places
  <2> QED BY <1>1, LeastNatural
<1>3. PICK s \in S : k = Position[s]
  OBVIOUS
<1>4. ASSUME NEW m \in S, Before(m, s) PROVE FALSE
  <2>1. Position[m] < Position[s] /\ Position[m] \in Nat /\ Position[s] \in Nat
    BY <1>4, PositionGrows
  <2>2. Position[s] <= Position[m]
    BY <1>2, <1>3
  <2> QED BY <2>1, <2>2
<1> QED BY <1>4

(* The greedy selection passes a candidate over only for one that precedes  *)
(* it: the slots are used up by earlier ones, or one of them conflicts.     *)
ChosenFor(g, available, f, n) ==
  LET earlier == {m \in Node : Candidate(g, m) /\ Before(m, n) /\ f[m]}
  IN  /\ Cardinality(earlier) < available
      /\ \A m \in earlier : ~Conflict(m, n)

LEMMA TakenBelow ==
  ASSUME NEW g, NEW available, NEW n \in Node, NEW f, NEW h,
         \A m \in Node : Before(m, n) => f[m] = h[m]
  PROVE  ChosenFor(g, available, f, n) = ChosenFor(g, available, h, n)
<1>1. PICK E : E = {m \in Node : Candidate(g, m) /\ Before(m, n) /\ f[m]}
  OBVIOUS
<1>2. E = {m \in Node : Candidate(g, m) /\ Before(m, n) /\ h[m]}
  BY <1>1
<1>3. /\ ChosenFor(g, available, f, n) = (Cardinality(E) < available /\ \A m \in E : ~Conflict(m, n))
      /\ ChosenFor(g, available, h, n) = (Cardinality(E) < available /\ \A m \in E : ~Conflict(m, n))
  BY <1>1, <1>2 DEF ChosenFor
<1> QED BY <1>3

LEMMA ReadyNodesUnfold ==
  ASSUME NEW g, NEW slots \in Nat, Cardinality(Running(g)) < slots
  PROVE  \E f \in [Node -> BOOLEAN] :
           /\ ReadyNodes(g, slots) = {n \in Node : Candidate(g, n) /\ f[n]}
           /\ \A n \in Node : f[n] = ChosenFor(g, slots - Cardinality(Running(g)), f, n)
<1>1. PICK a : a = slots - Cardinality(Running(g))
  OBVIOUS
<1>2. ~(a <= 0)
  BY <1>1, RunningFinite
<1> DEFINE F == [f \in [Node -> BOOLEAN] |-> [n \in Node |-> ChosenFor(g, a, f, n)]]
<1>3. F \in [[Node -> BOOLEAN] -> [Node -> BOOLEAN]]
  <2> SUFFICES ASSUME NEW f \in [Node -> BOOLEAN], NEW n \in Node
               PROVE  ChosenFor(g, a, f, n) \in BOOLEAN
    OBVIOUS
  <2> QED BY DEF ChosenFor
<1>4. RankRecursive(F, Node, BOOLEAN, Position)
  <2> SUFFICES ASSUME NEW f \in [Node -> BOOLEAN], NEW h \in [Node -> BOOLEAN], NEW n \in Node,
                      \A m \in Node : Position[m] < Position[n] => f[m] = h[m]
               PROVE  ChosenFor(g, a, f, n) = ChosenFor(g, a, h, n)
    BY DEF RankRecursive
  <2>1. \A m \in Node : Before(m, n) => f[m] = h[m]
    BY PositionGrows
  <2> QED BY <2>1, TakenBelow
<1>5. PICK f \in [Node -> BOOLEAN] : f = F[f]
  <2>1. BOOLEAN # {} /\ IsFiniteSet(Node) /\ Position \in [Node -> Nat]
    BY NodesFinite, PositionGrows
  <2> HIDE DEF F
  <2>2. WellRecursive(F, Node, BOOLEAN, Position)
    BY <1>3, <1>4, <2>1 DEF WellRecursive
  <2> QED BY <2>2, RecursionSolved
<1> DEFINE Solves(h) == h = [n \in Node |-> ChosenFor(g, a, h, n)]
<1>6. Solves(f)
  BY <1>5
<1>7. PICK taken : taken = CHOOSE h : Solves(h)
  OBVIOUS
<1>8. Solves(taken)
  <2> HIDE DEF Solves
  <2> QED BY <1>6, <1>7
<1>9. taken \in [Node -> BOOLEAN] /\ \A n \in Node : taken[n] = ChosenFor(g, a, taken, n)
  <2>1. taken = [n \in Node |-> ChosenFor(g, a, taken, n)]
    BY <1>8
  <2>2. \A n \in Node : ChosenFor(g, a, taken, n) \in BOOLEAN
    BY DEF ChosenFor
  <2> QED BY <2>1, <2>2
<1>10. ReadyNodes(g, slots) = {n \in Node : Candidate(g, n) /\ taken[n]}
  BY <1>1, <1>2, <1>7 DEF ReadyNodes, ChosenFor
<1> QED BY <1>1, <1>9, <1>10

LEMMA PassedOver ==
  ASSUME NEW g, NEW slots \in Nat, Cardinality(Running(g)) < slots,
         NEW n \in Node, Candidate(g, n), n \notin ReadyNodes(g, slots)
  PROVE  \E m \in ReadyNodes(g, slots) : Before(m, n)
<1>1. PICK a : a = slots - Cardinality(Running(g))
  OBVIOUS
<1>2. a > 0
  BY <1>1, RunningFinite
<1>3. PICK f \in [Node -> BOOLEAN] :
        /\ ReadyNodes(g, slots) = {m \in Node : Candidate(g, m) /\ f[m]}
        /\ \A m \in Node : f[m] = ChosenFor(g, a, f, m)
  BY <1>1, ReadyNodesUnfold
<1>4. ~ChosenFor(g, a, f, n)
  BY <1>3
<1>5. PICK E : E = {m \in Node : Candidate(g, m) /\ Before(m, n) /\ f[m]}
  OBVIOUS
<1>6. E # {}
  <2>1. Cardinality({}) = 0
    BY FS_EmptySet
  <2> QED BY <1>2, <1>4, <1>5, <2>1 DEF ChosenFor
<1> QED BY <1>3, <1>5, <1>6
-----------------------------------------------------------------------------
(* What keeps a graph without conditional branches moving.  A node is due   *)
(* when everything it depends on is done and it is not.  Unless the graph   *)
(* has stopped for good, every due node that neither runs nor is offered    *)
(* nor failed has one that does: before it in the schedule, or, if it is    *)
(* external, anywhere.                                                      *)

Unconditional == \A e \in Edge : e.type # "plain" => NodeType[e.from] # "GATE"

Live == {"READY", "RUNNING", "FAILED"}

Stopped(g) ==
  \E n \in Node : \/ g.status[n] = "CANCELLED"
                  \/ /\ g.status[n] \notin Success \cup {"RUNNING"}
                     /\ ~(g.attempt[n] < MaxAttempts[n])

Due(g, n) == g.status[n] \notin Done /\ \A d \in Deps[n] : g.status[d] \in Done

Unskipped(g) == \A n \in Node : g.status[n] \notin {"SKIPPED", "BLOCKED"}

Leads(g, r, w) == Due(g, r) /\ g.status[r] \in Live /\ (External(w) \/ Before(r, w))

Led(g) ==
  \/ Stopped(g)
  \/ \A w \in Node : Due(g, w) /\ g.status[w] \notin Live => \E r \in Node : Leads(g, r, w)

Moving(g) == Unskipped(g) /\ Led(g)

LEMMA DepsAreEdges ==
  ASSUME NEW n \in Node, NEW d
  PROVE  d \in Deps[n] <=> \E e \in Edge : e.from = d /\ e.to = n
BY DEF Deps

LEMMA DepsUpstream ==
  ASSUME NEW n \in Node, NEW d \in Deps[n]
  PROVE  d \in Node /\ n \in Children[d] /\ n \in Downstream[d] /\ Before(d, n)
<1>1. PICK e \in Edge : e.from = d /\ e.to = n
  BY DepsAreEdges
<1>2. d \in Node /\ n \in Children[d]
  BY <1>1, Compiled DEF EdgesTyped, Children
<1> QED BY <1>2, ChildrenBelow, UpstreamFirst

LEMMA ChildrenDepend ==
  ASSUME NEW n \in Node, NEW c \in Children[n]
  PROVE  c \in Node /\ n \in Deps[c]
<1>1. PICK e \in Edge : e.from = n /\ e.to = c
  BY DEF Children
<1>2. c \in Node
  BY <1>1, Compiled DEF EdgesTyped
<1> QED BY <1>1, <1>2, DepsAreEdges

LEMMA InputsAreDeps ==
  ASSUME Unconditional, NEW g, GraphOK(g), Unskipped(g), NEW n \in Node
  PROVE  InputsReady(g, n) <=> \A d \in Deps[n] : g.status[d] \in Done
<1>1. ASSUME NEW e \in Edge, e.to = n
      PROVE  EdgeActive(g, e) /\ PredecessorReady(g, e.from, n) <=> g.status[e.from] \in Done
  <2>1. e.from \in Node
    BY Compiled DEF EdgesTyped
  <2>2. PredecessorReady(g, e.from, n) <=> g.status[e.from] \in Done
    BY <2>1 DEF PredecessorReady, Unskipped
  <2>3. CASE e.type = "plain"
    BY <2>2, <2>3 DEF EdgeActive
  <2>4. CASE e.type # "plain"
    <3>1. NodeType[e.from] # "GATE" /\ e.type = "gate_pass"
      BY <2>4, Compiled DEF EdgesTyped, EdgeTypes, Unconditional
    <3>2. g.status[e.from] \in Done => EdgeActive(g, e)
      BY <3>1 DEF EdgeActive, EffectiveVerdict, GateVerdict, Selects
    <3> QED BY <2>2, <3>2
  <2> QED BY <2>3, <2>4
<1> QED BY <1>1, DepsAreEdges DEF InputsReady

LEMMA DoneAbove ==
  ASSUME NEW g, EdgesHold(g), Unskipped(g), NEW n \in Node,
         g.status[n] \in Done \cup {"RUNNING"}
  PROVE  \A d \in Deps[n] : g.status[d] \in Done
<1> SUFFICES ASSUME NEW d \in Deps[n] PROVE g.status[d] \in Done
  OBVIOUS
<1>1. PICK e \in Edge : e.from = d /\ e.to = n
  BY DepsAreEdges
<1>2. d \in Node /\ PredecessorReady(g, d, n)
  BY <1>1, DepsUpstream DEF EdgesHold
<1> QED BY <1>2 DEF PredecessorReady, Unskipped

(* Nothing is due below a node that is not done.                            *)
LEMMA NoneDueBelow ==
  ASSUME NEW g, EdgesHold(g), Unskipped(g), NEW s \in Node, g.status[s] \notin Done,
         NEW n \in Downstream[s]
  PROVE  ~Due(g, n)
<1> DEFINE T == {m \in Node : \E d \in Deps[m] : g.status[d] \notin Done}
<1>1. Children[s] \subseteq T
  BY ChildrenDepend
<1>2. ClosedUnderChildren(T)
  <2> SUFFICES ASSUME NEW m \in T, NEW c \in Children[m] PROVE c \in T
    BY DEF ClosedUnderChildren
  <2>1. m \in Node /\ g.status[m] \notin Done
    BY DoneAbove
  <2> QED BY <2>1, ChildrenDepend
<1>3. n \in T
  <2>1. T \in SUBSET Node
    OBVIOUS
  <2> HIDE DEF T
  <2> QED BY <1>1, <1>2, <2>1, DownstreamLeast
<1> QED BY <1>3 DEF Due

(* Without conditional branches nothing is skipped.                         *)
LEMMA NoneUnselected ==
  ASSUME Unconditional, NEW g, GraphOK(g), Unskipped(g)
  PROVE  Unselected(g) = {}
<1>1. InactiveTargets(g) = {}
  <2>1. ASSUME NEW e \in Edge, EdgeInactive(g, e) PROVE FALSE
    <3>1. NodeType[e.from] # "GATE" /\ e.type = "gate_pass"
      BY <2>1, Compiled DEF EdgesTyped, EdgeTypes, Unconditional, EdgeInactive
    <3> QED BY <2>1, <3>1 DEF EdgeInactive, EffectiveVerdict, GateVerdict, Selects
  <2> QED BY <2>1 DEF InactiveTargets
<1> DEFINE Skip(h, n) ==
      /\ g.status[n] \in Waiting
      /\ \/ n \in InactiveTargets(g)
         \/ /\ NodeType[n] # "MERGE"
            /\ \E p \in Deps[n] : g.status[p] = "SKIPPED" \/ h[p]
    Solves(h) == h = [n \in Node |-> Skip(h, n)]
<1>2. \A n \in Node : \A p \in Deps[n] : p \in Node /\ g.status[p] # "SKIPPED"
  BY DepsUpstream DEF Unskipped
<1>3. Solves([n \in Node |-> FALSE])
  <2>1. \A n \in Node : \A p \in Deps[n] : ~([k \in Node |-> FALSE][p])
    BY <1>2
  <2>2. \A n \in Node : Skip([k \in Node |-> FALSE], n) = FALSE
    BY <1>1, <1>2, <2>1
  <2> HIDE DEF Skip
  <2> QED BY <2>2
<1>4. PICK skip : skip = CHOOSE h : Solves(h)
  OBVIOUS
<1>5. Solves(skip)
  <2> HIDE DEF Solves
  <2> QED BY <1>3, <1>4
<1>6. \A n \in Node : skip[n] = Skip(skip, n)
  <2> HIDE DEF Skip
  <2> QED BY <1>5
<1>7. Unselected(g) = {n \in Node : g.status[n] \in Waiting /\ skip[n]}
  BY <1>4 DEF Unselected
<1>8. ASSUME Unselected(g) # {} PROVE FALSE
  <2>1. Unselected(g) \in SUBSET Node
    BY <1>7
  <2>2. PICK n \in Unselected(g) : \A m \in Unselected(g) : ~Before(m, n)
    BY <1>8, <2>1, FirstNode
  <2>3. n \in Node /\ Skip(skip, n)
    BY <1>6, <1>7
  <2>4. PICK p \in Deps[n] : skip[p]
    BY <1>1, <1>2, <2>3
  <2>5. p \in Node /\ Before(p, n)
    BY <2>3, DepsUpstream
  <2>6. p \in Unselected(g)
    BY <1>6, <1>7, <2>4, <2>5
  <2> QED BY <2>2, <2>5, <2>6
<1> QED BY <1>8

(* mark_ready, when nothing is skipped: what was READY waits again, and the *)
(* ready set of that graph becomes READY.                                   *)
LEMMA MarkReadyStatus ==
  ASSUME Unconditional, NEW g, GraphOK(g), EdgesHold(g), Unskipped(g), NEW slots
  PROVE  \E d : /\ GraphOK(d) /\ EdgesHold(d) /\ Unskipped(d)
                /\ Running(d) = Running(g)
                /\ MarkReady(g, slots).attempt = d.attempt
                /\ MarkReady(g, slots).status = With(d, ReadyNodes(d, slots), "READY")
                /\ \A n \in Node : d.status[n] # "READY"
<1>1. PICK r : r = RecomputeInputs(g)
  OBVIOUS
<1>2. GraphOK(r) /\ Settled(g, r) /\ r.status = g.status
  BY <1>1, RecomputeInputsSettled DEF RecomputeInputs, GraphOK
<1>3. Unselected(r) = {} /\ Unskipped(r)
  BY <1>2, NoneUnselected DEF Unskipped
<1>4. PICK s : s = SkipUnselected(r)
  OBVIOUS
<1>5. GraphOK(s) /\ Settled(r, s)
  BY <1>2, <1>4, SkipUnselectedSettled
<1>6. s.status = r.status
  <2>1. GraphOK(Cleared(r, {})) /\ With(r, {}, "SKIPPED") = r.status
    BY <1>2, ClearedFields DEF With, GraphOK
  <2> QED BY <1>3, <1>4, <2>1 DEF SkipUnselected, GraphOK
<1>7. PICK d : d = Demoted(s)
  OBVIOUS
<1>8. GraphOK(d) /\ Settled(s, d)
  BY <1>5, <1>7, RewaitSettled DEF Demoted, Waiting
<1>9. \A n \in Node : d.status[n] = IF g.status[n] = "READY" THEN "PENDING" ELSE g.status[n]
  BY <1>2, <1>5, <1>6, <1>7 DEF Demoted, With, GraphOK
<1>10. Unskipped(d) /\ Running(d) = Running(g) /\ \A n \in Node : d.status[n] # "READY"
  BY <1>9 DEF Unskipped, Running
<1>11. EdgesHold(d)
  BY <1>2, <1>5, <1>8, SettledEdges
<1>12. MarkReady(g, slots) = [d EXCEPT !.status = With(d, ReadyNodes(d, slots), "READY")]
  BY <1>1, <1>4, <1>7 DEF MarkReady
<1>13. /\ MarkReady(g, slots).attempt = d.attempt
       /\ MarkReady(g, slots).status = With(d, ReadyNodes(d, slots), "READY")
  BY <1>8, <1>12 DEF GraphOK
<1> QED BY <1>8, <1>10, <1>11, <1>13

(* A due node meets no write lock: whoever runs is neither above nor below. *)
LEMMA DueUnlocked ==
  ASSUME NEW g, EdgesHold(g), Unskipped(g), NEW n \in Node, Due(g, n),
         NEW m \in Running(g), Conflict(m, n), m # n
  PROVE  External(n)
<1>1. m \in Node /\ g.status[m] = "RUNNING" /\ g.status[m] \notin Done /\ Due(g, m)
  BY DoneAbove DEF Running, Done, Due
<1>2. ~Ordered(m, n)
  BY <1>1, NoneDueBelow DEF Ordered, Due
<1>3. ~WriteConflict(m, n)
  BY <1>1, <1>2, Compiled DEF ParallelNodesDisjoint
<1> QED BY <1>3 DEF Conflict

(* mark_ready leads every due node, as long as a slot is left: a candidate  *)
(* is passed over for an earlier one only.                                  *)
LEMMA MarkReadyMoving ==
  ASSUME Unconditional, NEW g, GraphOK(g), EdgesHold(g), Unskipped(g), NEW slots \in Nat,
         Cardinality(Running(g)) < slots
  PROVE  Moving(MarkReady(g, slots))
<1>1. PICK d : /\ GraphOK(d) /\ EdgesHold(d) /\ Unskipped(d)
               /\ Running(d) = Running(g)
               /\ MarkReady(g, slots).attempt = d.attempt
               /\ MarkReady(g, slots).status = With(d, ReadyNodes(d, slots), "READY")
               /\ \A n \in Node : d.status[n] # "READY"
  BY MarkReadyStatus
<1>2. PICK m, ready : m = MarkReady(g, slots) /\ ready = ReadyNodes(d, slots)
  OBVIOUS
<1>3. \A n \in Node : m.status[n] = IF n \in ready THEN "READY" ELSE d.status[n]
  BY <1>1, <1>2 DEF With
<1>4. \A n \in ready : n \in Node /\ Candidate(d, n)
  BY <1>2 DEF ReadyNodes
<1>5. \A n \in ready : d.status[n] \in {"PENDING", "INVALIDATED"}
  BY <1>1, <1>4 DEF Candidate
<1>6. Unskipped(m)
  BY <1>1, <1>3 DEF Unskipped
<1>7. \A n \in Node : m.status[n] \in Done <=> d.status[n] \in Done
  BY <1>3, <1>5 DEF Done
<1>8. \A n \in Node : Due(m, n) <=> Due(d, n)
  BY <1>7, DepsUpstream DEF Due
<1>9. ASSUME ~Stopped(m), NEW w \in Node, Due(m, w), m.status[w] \notin Live
      PROVE  \E r \in Node : Leads(m, r, w)
  <2>1. w \notin ready /\ d.status[w] = m.status[w] /\ Due(d, w)
    BY <1>3, <1>8, <1>9 DEF Live
  <2>2. d.status[w] \in {"PENDING", "INVALIDATED"} /\ d.attempt[w] < MaxAttempts[w]
    <3>1. d.status[w] \in NodeStatus \ {"SKIPPED", "BLOCKED"}
      BY <1>1 DEF GraphOK, Unskipped
    <3>2. d.status[w] \notin Done \cup Live
      BY <1>9, <2>1 DEF Due
    <3>3. d.status[w] # "CANCELLED"
      BY <1>9, <2>1 DEF Stopped
    <3>4. d.status[w] \in {"PENDING", "INVALIDATED"}
      BY <3>1, <3>2, <3>3 DEF NodeStatus, Done, Live
    <3> QED BY <1>1, <1>2, <1>9, <2>1, <3>4 DEF Stopped, Success, Done
  <2>3. InputsReady(d, w)
    BY <1>1, <2>1, InputsAreDeps DEF Due
  <2>4. CASE Candidate(d, w)
    <3>1. PICK r \in ready : Before(r, w)
      BY <1>1, <1>2, <2>1, <2>4, PassedOver
    <3>2. r \in Node /\ Candidate(d, r) /\ m.status[r] = "READY"
      BY <1>3, <1>4
    <3>3. Due(d, r)
      BY <1>1, <1>5, <3>2, InputsAreDeps DEF Candidate, Due, Done
    <3> QED BY <1>8, <3>1, <3>2, <3>3 DEF Leads, Live
  <2>5. CASE ~Candidate(d, w)
    <3>1. PICK r \in Running(d) : Conflict(r, w)
      BY <2>2, <2>3, <2>5 DEF Candidate
    <3>2. r \in Node /\ d.status[r] = "RUNNING" /\ r # w
      BY <2>2, <3>1 DEF Running
    <3>3. External(w)
      BY <1>1, <2>1, <3>1, <3>2, DueUnlocked
    <3>4. Due(d, r)
      BY <1>1, <3>2, DoneAbove DEF Due, Done
    <3>5. m.status[r] = "RUNNING"
      BY <1>3, <1>5, <3>2
    <3> QED BY <1>8, <3>2, <3>3, <3>4, <3>5 DEF Leads, Live
  <2> QED BY <2>4, <2>5
<1>10. Led(m)
  BY <1>9 DEF Led
<1> QED BY <1>2, <1>6, <1>10 DEF Moving

(* It depends on the statuses and the attempts alone.                       *)
LEMMA SameMoving ==
  ASSUME NEW g, NEW m, Moving(g), m.status = g.status, m.attempt = g.attempt
  PROVE  Moving(m)
BY DEF Moving, Unskipped, Led, Stopped, Leads, Due
-----------------------------------------------------------------------------
(* Every transition of a sound graph keeps it moving.                       *)

(* accept_node refreshes with three slots: enough when the configured       *)
(* parallelism is not greater, for the accepted node has given up its own.  *)
LEMMA AcceptNodeMoving ==
  ASSUME Unconditional, MaxParallelism <= DefaultParallelism,
         NEW g, Sound(g, MaxParallelism), Moving(g), NEW n \in Node, g.status[n] = "RUNNING",
         NEW output \in Output, NEW verdict \in Verdict
  PROVE  Moving(AcceptNode(g, n, output, verdict))
<1>1. PICK a : a = [g EXCEPT !.status[n] = "ACCEPTED", !.out[n] = output,
                     !.verdict[n] = IF NodeType[n] = "GATE" THEN verdict ELSE @]
  OBVIOUS
<1>2. PICK m : m = MarkReady(a, DefaultParallelism)
  OBVIOUS
<1>3. PICK r : r = AcceptNode(g, n, output, verdict)
  OBVIOUS
<1>4. r = [m EXCEPT !.gstatus = IF GloballyAccepted(m) THEN "ACCEPTED" ELSE @]
  BY <1>1, <1>2, <1>3 DEF AcceptNode
<1>0. GraphOK(g) /\ EdgesHold(g) /\ Exclusive(g, MaxParallelism) /\ Unskipped(g)
  BY DEF Sound, Moving
<1>5. /\ DOMAIN a = DOMAIN g
      /\ a.gstatus = g.gstatus
      /\ a.status = [g.status EXCEPT ![n] = "ACCEPTED"]
      /\ a.attempt = g.attempt
      /\ a.verdict = [g.verdict EXCEPT ![n] = IF NodeType[n] = "GATE" THEN verdict ELSE @]
      /\ a.out = [g.out EXCEPT ![n] = output]
      /\ a.input = g.input
      /\ a.constraints = g.constraints
  BY <1>0, <1>1 DEF GraphOK
<1>6. GraphOK(a)
  <2>1. a.status \in [Node -> NodeStatus]
    BY <1>0, <1>5 DEF GraphOK, NodeStatus
  <2>2. a.verdict \in [Node -> Verdict]
    BY <1>0, <1>5 DEF GraphOK
  <2>3. \A k \in Node : NodeType[k] # "GATE" => a.verdict[k] = "NONE"
    BY <1>0, <1>5 DEF GraphOK
  <2>4. a.out \in [Node -> Output \cup {NoOutput}]
    BY <1>0, <1>5 DEF GraphOK
  <2> QED BY <1>0, <1>5, <2>1, <2>2, <2>3, <2>4 DEF GraphOK
<1>7. Accepted(g, a, n)
  BY <1>0, <1>5 DEF Accepted, GraphOK
<1>8. EdgesHold(a)
  BY <1>0, <1>7, AcceptedEdges
<1>9. Unskipped(a)
  BY <1>0, <1>5 DEF Unskipped, GraphOK
<1>10. Cardinality(Running(a)) < DefaultParallelism
  <2>1. n \in Running(g) /\ Running(a) \subseteq Running(g) \ {n}
    BY <1>7, AcceptedRunning DEF Running
  <2>2. /\ Cardinality(Running(g) \ {n}) = Cardinality(Running(g)) - 1
        /\ IsFiniteSet(Running(g) \ {n})
    BY <2>1, RunningFinite, FS_RemoveElement
  <2>3. Cardinality(Running(a)) <= Cardinality(Running(g) \ {n})
    BY <2>1, <2>2, FS_Subset
  <2>4. Cardinality(Running(g)) <= MaxParallelism
    BY <1>0 DEF Exclusive
  <2>5. Cardinality(Running(g)) \in Nat /\ Cardinality(Running(a)) \in Nat
    BY RunningFinite
  <2> QED BY <2>2, <2>3, <2>4, <2>5, Parallel DEF DefaultParallelism
<1>11. DefaultParallelism \in Nat
  BY DEF DefaultParallelism
<1>12. Moving(m)
  BY <1>2, <1>6, <1>8, <1>9, <1>10, <1>11, MarkReadyMoving
<1>13. GraphOK(m)
  BY <1>2, <1>6, MarkReadySettled
<1>14. r.status = m.status /\ r.attempt = m.attempt
  BY <1>4, <1>13 DEF GraphOK
<1> QED BY <1>3, <1>12, <1>14, SameMoving

LEMMA ResolveGateMoving ==
  ASSUME Unconditional, MaxParallelism <= DefaultParallelism,
         NEW g, Sound(g, MaxParallelism), Moving(g), NEW n \in Node, g.status[n] = "RUNNING",
         NEW output \in Output, NEW verdict \in GateResult
  PROVE  Moving(ResolveGate(g, n, output, verdict))
<1>1. PICK a : a = AcceptNode(g, n, output, verdict)
  OBVIOUS
<1>2. verdict \in Verdict /\ GraphOK(g)
  BY DEF Verdict, Sound
<1>3. Moving(a) /\ GraphOK(a)
  BY <1>1, <1>2, AcceptNodeMoving, AcceptNodeFields
<1>4. PICK r : r = ResolveGate(g, n, output, verdict)
  OBVIOUS
<1>5. r.status = a.status /\ r.attempt = a.attempt
  BY <1>1, <1>3, <1>4 DEF ResolveGate, GraphOK
<1> QED BY <1>3, <1>4, <1>5, SameMoving

LEMMA FailAllStatus ==
  ASSUME NEW g, GraphOK(g), NEW S \in SUBSET Node, NEW n \in Node
  PROVE  FailAll(g, S).status[n] =
           IF n \in S THEN "FAILED"
           ELSE IF n \in DownstreamOf(S) /\ g.status[n] \in Success \cup {"READY", "RUNNING"}
             THEN "INVALIDATED"
           ELSE IF g.status[n] = "ACCEPTED" THEN "FROZEN"
           ELSE g.status[n]
<1>1. PICK D : D = DownstreamOf(S)
  OBVIOUS
<1>2. PICK lost : lost = {k \in D \ S : g.status[k] \in Success \cup {"READY", "RUNNING"}}
  OBVIOUS
<1>3. PICK c : c = Cleared(g, lost)
  OBVIOUS
<1>4. PICK f : f = [k \in Node |-> IF k \in S THEN "FAILED"
                                  ELSE IF k \in lost THEN "INVALIDATED"
                                  ELSE IF g.status[k] = "ACCEPTED" THEN "FROZEN"
                                  ELSE g.status[k]]
  OBVIOUS
<1>5. FailAll(g, S) = [c EXCEPT !.status = f, !.gstatus = "FAILED"]
  BY <1>1, <1>2, <1>3, <1>4 DEF FailAll
<1>6. GraphOK(c)
  BY <1>3, ClearedFields
<1>7. FailAll(g, S).status = f
  BY <1>5, <1>6 DEF GraphOK
<1> QED BY <1>1, <1>2, <1>4, <1>7

(* A failure leads what it leaves due: whoever led it still does, or the    *)
(* first failed node at or above that one does.                             *)
LEMMA FailAllMoving ==
  ASSUME NEW g, GraphOK(g), EdgesHold(g), Moving(g), NEW S \in SUBSET Node,
         \A n \in S : g.status[n] # "CANCELLED"
  PROVE  Moving(FailAll(g, S))
<1>1. PICK f, D : f = FailAll(g, S) /\ D = DownstreamOf(S)
  OBVIOUS
<1>2. GraphOK(f) /\ Failed(g, f, S)
  BY <1>1, FailAllFields
<1>3. EdgesHold(f)
  BY <1>2, FailedEdges
<1>4. \A n \in Node :
        f.status[n] = IF n \in S THEN "FAILED"
                      ELSE IF n \in D /\ g.status[n] \in Success \cup {"READY", "RUNNING"}
                        THEN "INVALIDATED"
                      ELSE IF g.status[n] = "ACCEPTED" THEN "FROZEN"
                      ELSE g.status[n]
  BY <1>1, FailAllStatus
<1>5. Unskipped(g) /\ Unskipped(f)
  BY <1>4 DEF Moving, Unskipped
<1>6. Stopped(g) => Stopped(f)
  <2> SUFFICES ASSUME NEW n \in Node,
                      \/ g.status[n] = "CANCELLED"
                      \/ /\ g.status[n] \notin Success \cup {"RUNNING"}
                         /\ ~(g.attempt[n] < MaxAttempts[n])
               PROVE  Stopped(f)
    BY DEF Stopped
  <2>1. f.attempt = g.attempt
    BY <1>2 DEF Failed
  <2> QED BY <1>4, <2>1 DEF Stopped, Success, Done
<1>7. \A n \in Node : n \notin S \cup D =>
        /\ f.status[n] \in Done <=> g.status[n] \in Done
        /\ f.status[n] \notin Done => f.status[n] = g.status[n]
        /\ \A d \in Deps[n] : d \in Node \ (S \cup D)
  <2> SUFFICES ASSUME NEW n \in Node, n \notin S \cup D
               PROVE  /\ f.status[n] \in Done <=> g.status[n] \in Done
                      /\ f.status[n] \notin Done => f.status[n] = g.status[n]
                      /\ \A d \in Deps[n] : d \in Node \ (S \cup D)
    OBVIOUS
  <2>1. f.status[n] = IF g.status[n] = "ACCEPTED" THEN "FROZEN" ELSE g.status[n]
    BY <1>4
  <2>2. ASSUME NEW d \in Deps[n] PROVE d \in Node \ (S \cup D)
    <3>1. PICK e \in Edge : e.from = d /\ e.to = n
      BY DepsAreEdges
    <3> QED BY <1>1, <3>1, DepsUpstream, DownstreamEdge
  <2> QED BY <2>1, <2>2 DEF Done
<1>8. ASSUME NEW n \in Node, n \notin S \cup D PROVE Due(f, n) <=> Due(g, n)
  BY <1>7, <1>8 DEF Due
<1>9. ASSUME NEW n \in D PROVE ~Due(f, n)
  <2>1. PICK s \in S : n \in Downstream[s]
    BY <1>1 DEF DownstreamOf
  <2>2. f.status[s] \notin Done
    BY <1>4 DEF Done
  <2> QED BY <1>3, <1>5, <2>1, <2>2, NoneDueBelow
<1>10. ASSUME ~Stopped(f), NEW w \in Node, Due(f, w), f.status[w] \notin Live
       PROVE  \E r \in Node : Leads(f, r, w)
  <2>1. w \notin S \cup D
    BY <1>4, <1>9, <1>10 DEF Live
  <2>2. Due(g, w) /\ g.status[w] \notin Live
    BY <1>7, <1>8, <1>10, <2>1 DEF Due
  <2>3. PICK r \in Node : Leads(g, r, w)
    BY <1>6, <1>10, <2>2 DEF Moving, Led
  <2>4. CASE r \notin S \cup D
    BY <1>7, <1>8, <2>3, <2>4 DEF Leads, Due
  <2>5. CASE r \in S \cup D
    <3>1. PICK T : T = {s \in S : s = r \/ r \in Downstream[s]}
      OBVIOUS
    <3>2. T \in SUBSET Node /\ T # {}
      BY <1>1, <2>5, <3>1 DEF DownstreamOf
    <3>3. PICK s \in T : \A t \in T : ~Before(t, s)
      BY <3>2, FirstNode
    <3>4. s \in S /\ s \in Node /\ (s = r \/ r \in Downstream[s])
      BY <3>1
    <3>5. \A d \in Deps[s] : g.status[d] \in Done
      <4>1. CASE s = r
        BY <2>3, <4>1 DEF Leads, Due
      <4>2. CASE r \in Downstream[s]
        <5>1. g.status[s] \in Done
          BY <1>5, <2>3, <3>4, <4>2, NoneDueBelow DEF Leads
        <5> QED BY <1>5, <3>4, <5>1, DoneAbove
      <4> QED BY <3>4, <4>1, <4>2
    <3>6. s \notin D
      <4> SUFFICES ASSUME s \in D PROVE FALSE
        OBVIOUS
      <4>1. PICK t \in S : s \in Downstream[t]
        BY <1>1 DEF DownstreamOf
      <4>2. r \in Downstream[t]
        BY <3>4, <4>1 DEF Downstream, ClosedUnderChildren
      <4> QED BY <3>1, <3>3, <4>1, <4>2, UpstreamFirst
    <3>7. \A d \in Deps[s] : f.status[d] \in Done
      <4> SUFFICES ASSUME NEW d \in Deps[s] PROVE f.status[d] \in Done
        OBVIOUS
      <4>1. PICK e \in Edge : e.from = d /\ e.to = s
        BY <3>4, DepsAreEdges
      <4>2. d \in Node /\ d \notin S \cup D
        BY <1>1, <3>4, <3>6, <4>1, DepsUpstream, DownstreamEdge
      <4> QED BY <1>7, <3>5, <4>2
    <3>8. f.status[s] = "FAILED" /\ Due(f, s)
      BY <1>4, <3>4, <3>7 DEF Due, Done
    <3>9. External(w) \/ Before(s, w)
      BY <2>3, <3>4, UpstreamFirst, BeforeOrders DEF Leads
    <3> QED BY <3>4, <3>8, <3>9 DEF Leads, Live
  <2> QED BY <2>4, <2>5
<1>11. Led(f)
  BY <1>10 DEF Led
<1> QED BY <1>1, <1>5, <1>11 DEF Moving

LEMMA FailNodeMoving ==
  ASSUME NEW g, Sound(g, MaxParallelism), Moving(g), NEW n \in Node, g.status[n] # "CANCELLED"
  PROVE  Moving(FailNode(g, n))
BY FailAllMoving DEF FailNode, Sound

LEMMA FailAllMovingAgain ==
  ASSUME NEW g, Sound(g, MaxParallelism), Moving(g), NEW S \in SUBSET Node,
         \A n \in S : g.status[n] # "CANCELLED"
  PROVE  Moving([FailAll(g, S) EXCEPT !.gstatus = "RUNNING"])
<1>1. PICK f : f = FailAll(g, S)
  OBVIOUS
<1>2. GraphOK(f) /\ Moving(f)
  BY <1>1, FailAllFields, FailAllMoving DEF Sound
<1>3. PICK m : m = [f EXCEPT !.gstatus = "RUNNING"]
  OBVIOUS
<1>4. m.status = f.status /\ m.attempt = f.attempt
  BY <1>2, <1>3 DEF GraphOK
<1> QED BY <1>1, <1>2, <1>3, <1>4, SameMoving

LEMMA SendBackMoving ==
  ASSUME NEW g, Sound(g, MaxParallelism), Moving(g), NEW n \in Node, SendBackRetryable(g, n)
  PROVE  Moving(ApplySendBack(g, n))
<1>1. \A t \in SendBackTargets(n) : g.status[t] # "CANCELLED"
  BY DEF SendBackRetryable, Failable, Done
<1> QED BY <1>1, TargetsAreNodes, FailAllMovingAgain DEF ApplySendBack

(* The targets that a resume fails are failable when their turn comes, and  *)
(* a cancelled node never is.                                               *)
LEMMA RecoverSendBacksMoving ==
  ASSUME NEW g, Sound(g, MaxParallelism), Moving(g), StuckSources(g) = {}
  PROVE  Moving(RecoverSendBacks(g))
<1>1. PICK S : S = TargetsOf(PendingSources(g))
  OBVIOUS
<1>2. S \in SUBSET Node
  BY <1>1, TargetsAreNodes DEF TargetsOf
<1>3. ASSUME NEW t \in S, g.status[t] = "CANCELLED" PROVE FALSE
  <2>1. PICK n \in PendingSources(g) : t \in SendBackTargets(n)
    BY <1>1 DEF TargetsOf
  <2>2. PICK B : B = TargetsOf({m \in PendingSources(g) : Rank[m] < Rank[n]})
    OBVIOUS
  <2>3. B \in SUBSET Node
    BY <2>2, TargetsAreNodes DEF TargetsOf
  <2>4. SendBackRetryable(FailAll(g, B), n)
    BY <2>1, <2>2 DEF StuckSources, Stuck, BeforeSource
  <2>5. FailAll(g, B).status[t] \in Failable
    BY <2>1, <2>4 DEF SendBackRetryable
  <2>6. FailAll(g, B).status[t] \in {"FAILED", "CANCELLED"}
    BY <1>2, <1>3, <2>3, FailAllStatus DEF Success, Done, Sound
  <2> QED BY <2>5, <2>6 DEF Failable, Done
<1> QED BY <1>1, <1>2, <1>3, FailAllMovingAgain DEF RecoverSendBacks

LEMMA GivenUpMoving ==
  ASSUME NEW g, Sound(g, MaxParallelism), Moving(g)
  PROVE  Moving([g EXCEPT !.gstatus = "FAILED"])
<1>1. PICK m : m = [g EXCEPT !.gstatus = "FAILED"]
  OBVIOUS
<1>2. m.status = g.status /\ m.attempt = g.attempt
  BY <1>1 DEF GraphOK, Sound
<1> QED BY <1>1, <1>2, SameMoving

LEMMA StartNodeMoving ==
  ASSUME NEW g, Sound(g, MaxParallelism), Moving(g), NEW n \in ReadyNodes(g, MaxParallelism)
  PROVE  Moving(StartNode(g, n))
<1>1. n \in Node /\ Candidate(g, n) /\ GraphOK(g)
  BY Parallel, ReadyNodeFits DEF Sound
<1>2. g.attempt[n] < MaxAttempts[n] /\ g.status[n] \in {"PENDING", "INVALIDATED", "READY"}
  BY <1>1 DEF Candidate
<1>3. PICK m : m = StartNode(g, n)
  OBVIOUS
<1>4. m.status = [g.status EXCEPT ![n] = "RUNNING"] /\ m.attempt = [g.attempt EXCEPT ![n] = @ + 1]
  BY <1>1, <1>2, <1>3, StartNodeFields
<1>5. \A k \in Node : /\ k # n => m.status[k] = g.status[k] /\ m.attempt[k] = g.attempt[k]
                      /\ k = n => m.status[k] = "RUNNING"
  BY <1>1, <1>4 DEF GraphOK
<1>6. Unskipped(m)
  BY <1>5 DEF Unskipped, Moving
<1>7. \A k \in Node : m.status[k] \in Done <=> g.status[k] \in Done
  BY <1>2, <1>5 DEF Done
<1>8. \A k \in Node : Due(m, k) <=> Due(g, k)
  BY <1>7, DepsUpstream DEF Due
<1>9. Stopped(g) => Stopped(m)
  BY <1>2, <1>5 DEF Stopped
<1>10. \A k \in Node : g.status[k] \in Live => m.status[k] \in Live
  BY <1>5 DEF Live
<1>11. Led(m)
  BY <1>8, <1>9, <1>10 DEF Led, Leads, Moving
<1> QED BY <1>3, <1>6, <1>11 DEF Moving

LEMMA RetryNodeMoving ==
  ASSUME NEW g, Sound(g, MaxParallelism), Moving(g), NEW n \in Node,
         g.status[n] = "FAILED", g.attempt[n] < MaxAttempts[n]
  PROVE  Moving(RetryNode(g, n))
<1>1. PICK m : m = RetryNode(g, n)
  OBVIOUS
<1>2. m.status = [g.status EXCEPT ![n] = "READY"] /\ m.attempt = g.attempt /\ GraphOK(g)
  BY <1>1, RetryNodeFields DEF Sound
<1>3. \A k \in Node : /\ k # n => m.status[k] = g.status[k]
                      /\ k = n => m.status[k] = "READY"
  BY <1>2 DEF GraphOK
<1>4. Unskipped(m)
  BY <1>3 DEF Unskipped, Moving
<1>5. \A k \in Node : m.status[k] \in Done <=> g.status[k] \in Done
  BY <1>3 DEF Done
<1>6. \A k \in Node : Due(m, k) <=> Due(g, k)
  BY <1>5, DepsUpstream DEF Due
<1>7. Stopped(g) => Stopped(m)
  BY <1>2, <1>3 DEF Stopped
<1>8. \A k \in Node : g.status[k] \in Live <=> m.status[k] \in Live
  BY <1>3 DEF Live
<1>9. Led(m)
  BY <1>6, <1>7, <1>8 DEF Led, Leads, Moving
<1> QED BY <1>1, <1>4, <1>9 DEF Moving

LEMMA CancelGraphMoving ==
  ASSUME NEW g, Sound(g, MaxParallelism), Moving(g)
  PROVE  Moving(CancelGraph(g))
<1>1. PICK m : m = CancelGraph(g)
  OBVIOUS
<1>2. /\ GraphOK(m) /\ GraphOK(g) /\ m.attempt = g.attempt
      /\ \A n \in Node : m.status[n] = IF g.status[n] \in Waiting \cup {"RUNNING"}
                                         THEN "CANCELLED" ELSE g.status[n]
  BY <1>1, CancelGraphFields DEF Sound
<1>3. Unskipped(m)
  BY <1>2 DEF Unskipped, Moving
<1>4. CASE \E n \in Node : g.status[n] \in Waiting \cup {"RUNNING"}
  BY <1>1, <1>2, <1>3, <1>4 DEF Moving, Led, Stopped
<1>5. CASE ~ \E n \in Node : g.status[n] \in Waiting \cup {"RUNNING"}
  <2>1. m.status = g.status
    BY <1>2, <1>5 DEF GraphOK
  <2> QED BY <1>1, <1>2, <2>1, SameMoving
<1> QED BY <1>4, <1>5

LEMMA PlannedGraphMoving ==
  ASSUME Unconditional
  PROVE  Moving(MarkReady(FreshGraph, MaxParallelism))
<1>1. PICK g : g = FreshGraph
  OBVIOUS
<1>2. GraphOK(g) /\ EdgesHold(g) /\ \A n \in Node : g.status[n] = "PENDING"
  BY <1>1, FreshGraphSound DEF Sound, FreshGraph
<1>3. Unskipped(g) /\ Running(g) = {}
  BY <1>2 DEF Unskipped, Running
<1>4. Cardinality(Running(g)) < MaxParallelism
  BY <1>3, FS_EmptySet, EngineConstants
<1> QED BY <1>1, <1>2, <1>3, <1>4, Parallel, MarkReadyMoving
-----------------------------------------------------------------------------
(* Every step keeps both graphs moving.                                     *)

NInv ==
  /\ snap # NoGraph => Moving(snap)
  /\ ckpt # NoGraph => Moving(ckpt)

LEMMA CommitMoves ==
  ASSUME NInv, NEW m, Moving(m), snap' = m, ckpt' \in {m, ckpt}
  PROVE  NInv'
BY DEF NInv

LEMMA StandMoves ==
  ASSUME NInv, {snap', ckpt'} \subseteq {snap, ckpt}
  PROVE  NInv'
BY DEF NInv

LEMMA PlanMoves ==
  ASSUME Unconditional, NInv, Plan \/ SavePlan \/ AppendIntent
  PROVE  NInv'
BY PlannedGraphMoving, StandMoves DEF Plan, SavePlan, AppendIntent, NInv

LEMMA StartMoves ==
  ASSUME IInv, NInv, NEW n \in Node, Start(n) \/ AppendRunning(n)
  PROVE  NInv'
<1>1. CASE Start(n)
  <2>1. /\ snap # NoGraph /\ Sound(snap, MaxParallelism) /\ Moving(snap)
        /\ n \in ReadyNodes(snap, MaxParallelism)
        /\ snap' = StartNode(snap, n) /\ ckpt' = ckpt
    BY <1>1 DEF Start, Startable, Planned, IInv, GraphsSound, NInv
  <2> QED BY <2>1, StartNodeMoving, CommitMoves
<1>2. CASE AppendRunning(n)
  BY <1>2, StandMoves DEF AppendRunning
<1> QED BY <1>1, <1>2

LEMMA ResultMoves ==
  ASSUME Unconditional, MaxParallelism <= DefaultParallelism, IInv, NInv,
         NEW n \in Node, RecordResult(n)
  PROVE  NInv'
<1>1. PICK amount \in Amount \cup {Unknown} :
        \/ RecordOverBudget(n, amount)
        \/ \E output \in Output, verdict \in Outcome :
             RecordGateResult(n, output, verdict, amount)
        \/ \E verdict \in Outcome : RecordRejected(n, verdict, amount)
        \/ \E output \in Output : RecordAccepted(n, output, amount)
  BY DEF RecordResult
<1>2. /\ snap # NoGraph /\ Sound(snap, MaxParallelism) /\ Moving(snap)
      /\ snap.status[n] = "RUNNING"
  BY <1>1 DEF RecordOverBudget, RecordGateResult, RecordRejected, RecordAccepted,
              ResultAccepted, Planned, IInv, GraphsSound, NInv
<1>3. CASE RecordOverBudget(n, amount) \/ \E verdict \in Outcome : RecordRejected(n, verdict, amount)
  <2>1. snap' = FailNode(snap, n) /\ ckpt' = FailNode(snap, n)
    BY <1>3 DEF RecordOverBudget, RecordRejected, CommitFailure, CommitGraph
  <2>2. Moving(FailNode(snap, n))
    BY <1>2, FailNodeMoving
  <2> QED BY <2>1, <2>2, CommitMoves
<1>4. ASSUME NEW output \in Output, NEW verdict \in Outcome,
             RecordGateResult(n, output, verdict, amount)
      PROVE  NInv'
  <2>1. PICK m : m = ResolveGate(snap, n, output, verdict)
    OBVIOUS
  <2>2. snap' = m /\ ckpt' = m
    BY <1>4, <2>1 DEF RecordGateResult, CommitGraph
  <2>3. verdict \in GateResult
    BY EngineConstants
  <2>4. Moving(m)
    BY <1>2, <2>1, <2>3, ResolveGateMoving
  <2> QED BY <2>2, <2>4, CommitMoves
<1>5. ASSUME NEW output \in Output, RecordAccepted(n, output, amount)
      PROVE  NInv'
  <2>1. PICK m : m = AcceptNode(snap, n, output, "NONE")
    OBVIOUS
  <2>2. snap' = m /\ ckpt' = m
    BY <1>5, <2>1 DEF RecordAccepted, CommitGraph
  <2>3. "NONE" \in Verdict
    BY DEF Verdict
  <2>4. Moving(m)
    BY <1>2, <2>1, <2>3, AcceptNodeMoving
  <2> QED BY <2>2, <2>4, CommitMoves
<1> QED BY <1>1, <1>3, <1>4, <1>5

LEMMA SendBackMoves ==
  ASSUME IInv, NInv, NEW n \in Node,
         SendBackApplied(n) \/ SendBackConverged(n) \/ SendBackRefused(n)
  PROVE  NInv'
<1>1. snap # NoGraph /\ Sound(snap, MaxParallelism) /\ Moving(snap)
  BY DEF SendBackApplied, SendBackConverged, SendBackRefused, SendBackDone,
         IInv, PcOK, GraphsSound, Idle, NInv
<1>2. CASE SendBackApplied(n)
  <2>1. SendBackRetryable(snap, n) /\ snap' = ApplySendBack(snap, n) /\ ckpt' = ApplySendBack(snap, n)
    BY <1>2 DEF SendBackApplied, CommitGraph
  <2>2. Moving(ApplySendBack(snap, n))
    BY <1>1, <2>1, SendBackMoving
  <2> QED BY <2>1, <2>2, CommitMoves
<1>3. CASE SendBackConverged(n)
  <2>1. PICK m : m = [snap EXCEPT !.gstatus = "FAILED"]
    OBVIOUS
  <2>2. snap' = m /\ ckpt' = m
    BY <1>3, <2>1 DEF SendBackConverged, CommitGraph
  <2>3. Moving(m)
    BY <1>1, <2>1, GivenUpMoving
  <2> QED BY <2>2, <2>3, CommitMoves
<1>4. CASE SendBackRefused(n)
  BY <1>4, StandMoves DEF SendBackRefused
<1> QED BY <1>2, <1>3, <1>4

LEMMA ApprovalMoves ==
  ASSUME Unconditional, MaxParallelism <= DefaultParallelism, IInv, NInv, NEW n \in Node,
         \/ BeginApproval(n)
         \/ \E op \in Op, output \in Output, amount \in Amount \cup {Unknown} :
              CommitApproval(n, op, output, amount)
  PROVE  NInv'
<1>1. CASE BeginApproval(n)
  BY <1>1, StandMoves DEF BeginApproval
<1>2. ASSUME NEW op \in Op, NEW output \in Output, NEW amount \in Amount \cup {Unknown},
             CommitApproval(n, op, output, amount)
      PROVE  NInv'
  <2>1. PICK g : g = StartNode(snap, n)
    OBVIOUS
  <2>2. snap' = ckpt' /\ snap' \in {FailNode(g, n), AcceptNode(g, n, output, "NONE")}
    BY <1>2, <2>1 DEF CommitApproval, CommitGraph
  <2>3. /\ n \in ReadyNodes(snap, MaxParallelism)
        /\ Sound(snap, MaxParallelism) /\ Moving(snap)
    BY <1>2 DEF CommitApproval, IInv, PcOK, GraphsSound, Idle, NInv
  <2>4. Sound(g, MaxParallelism) /\ Moving(g) /\ g.status[n] = "RUNNING"
    BY <2>1, <2>3, StartedNode, StartNodeMoving
  <2>5. "NONE" \in Verdict
    BY DEF Verdict
  <2>6. Moving(FailNode(g, n)) /\ Moving(AcceptNode(g, n, output, "NONE"))
    BY <2>4, <2>5, FailNodeMoving, AcceptNodeMoving
  <2> QED BY <2>2, <2>6, CommitMoves
<1> QED BY <1>1, <1>2

LEMMA FailureMoves ==
  ASSUME IInv, NInv, NEW n \in Node, NEW reason \in HostReason,
         \/ RecordFailure(n, reason)
         \/ \E amount \in Amount \cup {Unknown} : RecordMeasuredFailure(n, reason, amount)
  PROVE  NInv'
<1>1. /\ Sound(snap, MaxParallelism) /\ Moving(snap) /\ snap.status[n] # "CANCELLED"
      /\ snap' = FailNode(snap, n) /\ ckpt' = FailNode(snap, n)
  BY DEF RecordFailure, RecordMeasuredFailure, CommitFailure, CommitGraph, Planned,
         IInv, GraphsSound, NInv, Failable, Done
<1> QED BY <1>1, FailNodeMoving, CommitMoves

LEMMA RetryMoves ==
  ASSUME IInv, NInv, NEW n \in Node, Retry(n)
  PROVE  NInv'
<1>1. /\ Sound(snap, MaxParallelism) /\ Moving(snap)
      /\ snap.status[n] = "FAILED" /\ snap.attempt[n] < MaxAttempts[n]
      /\ snap' = RetryNode(snap, n) /\ ckpt' = ckpt
  BY DEF Retry, Retryable, Planned, IInv, GraphsSound, NInv
<1> QED BY <1>1, RetryNodeMoving, CommitMoves

LEMMA CancelMoves ==
  ASSUME IInv, NInv, Cancel
  PROVE  NInv'
<1>1. /\ Sound(snap, MaxParallelism) /\ Moving(snap)
      /\ snap' = CancelGraph(snap) /\ ckpt' = CancelGraph(snap)
  BY DEF Cancel, CommitGraph, Planned, IInv, GraphsSound, NInv
<1> QED BY <1>1, CancelGraphMoving, CommitMoves

LEMMA ReceiptMoves ==
  ASSUME NInv, NEW n \in Node, NEW op \in Op, Prepare(n, op) \/ CommitReceipt(n, op)
  PROVE  NInv'
BY StandMoves DEF Prepare, CommitReceipt

LEMMA ResumeMoves ==
  ASSUME IInv, NInv, Resume \/ ResumeConverged
  PROVE  NInv'
<1>1. Sound(ckpt, MaxParallelism) /\ Moving(ckpt)
  BY DEF Resume, ResumeConverged, Resumable, IInv, GraphsSound, NInv
<1>2. CASE Resume
  <2>1. /\ StuckSources(ckpt) = {}
        /\ snap' = RecoverSendBacks(ckpt) /\ ckpt' = RecoverSendBacks(ckpt)
    BY <1>2 DEF Resume, CommitGraph
  <2> QED BY <1>1, <2>1, RecoverSendBacksMoving, CommitMoves
<1>3. CASE ResumeConverged
  <2>1. PICK m : m = [ckpt EXCEPT !.gstatus = "FAILED"]
    OBVIOUS
  <2>2. snap' = m /\ ckpt' = m
    BY <1>3, <2>1 DEF ResumeConverged, CommitGraph
  <2>3. Moving(m)
    BY <1>1, <2>1, GivenUpMoving
  <2> QED BY <2>2, <2>3, CommitMoves
<1> QED BY <1>2, <1>3

(* Through every handler of the engine a due node is READY, or a due node   *)
(* that could be started leads it: the inductive half of NothingWedges.     *)
THEOREM GraphsKeepMoving ==
  ASSUME Unconditional, MaxParallelism <= DefaultParallelism
  PROVE  Spec => []NInv
<1>1. Init => NInv
  BY DEF Init, NInv
<1>2. IInv /\ NInv /\ [Next]_vars => NInv'
  <2> SUFFICES ASSUME IInv, NInv, [Next]_vars PROVE NInv'
    OBVIOUS
  <2>1. ASSUME NEW n \in Node, NodeStep(n) PROVE NInv'
    BY <2>1, StartMoves, ResultMoves, SendBackMoves, ApprovalMoves, FailureMoves,
       RetryMoves, ReceiptMoves DEF NodeStep
  <2>2. CASE \E key \in granted : HostEffect(key)
    BY <2>2, StandMoves DEF HostEffect, durable
  <2>3. CASE Crash
    BY <2>3, StandMoves DEF Crash, durable
  <2>4. CASE UNCHANGED vars
    BY <2>4, StandMoves DEF vars, durable
  <2>5. CASE CheckpointReceipt
    BY <2>5, StandMoves DEF CheckpointReceipt
  <2> QED BY <2>1, <2>2, <2>3, <2>4, <2>5, PlanMoves, CancelMoves, ResumeMoves DEF Next
<1> QED BY <1>1, <1>2, Invariance, PTL DEF Spec

(* A graph that can still be completed can move, unless an external node    *)
(* that is not READY is offered: when no branch is conditional, no limit on *)
(* failed gates stops a retry, and the slots are not more than accept_node  *)
(* refreshes for.  The first due node in the schedule is offered; were it   *)
(* not READY, another one would lead it.                                    *)
THEOREM NothingWedges ==
  ASSUME Unconditional, MaxParallelism <= DefaultParallelism,
         \A n \in Node : MaxFailedGates[n] = NoLimit
  PROVE  Spec => []NoWedge
<1>1. IInv /\ NInv => NoWedge
  <2> SUFFICES ASSUME IInv, NInv, Planned, Completable, ~LockedOut, ~CanMove PROVE FALSE
    BY DEF NoWedge
  <2>1. PICK g : g = snap
    OBVIOUS
  <2>2. Sound(g, MaxParallelism) /\ Moving(g)
    BY <2>1 DEF Planned, IInv, GraphsSound, NInv
  <2>3. GraphOK(g) /\ EdgesHold(g) /\ Unskipped(g)
    BY <2>2 DEF Sound, Moving
  <2>4. ~Stopped(g) /\ g.status[GlobalGate] \notin Success
    BY <2>1 DEF Completable, Stopped, Success, Done
  <2>5. \A n \in Node : g.status[n] # "RUNNING" /\ g.status[n] # "FAILED"
    <3> SUFFICES ASSUME NEW n \in Node PROVE g.status[n] # "RUNNING" /\ g.status[n] # "FAILED"
      OBVIOUS
    <3>1. g.status[n] # "RUNNING"
      BY <2>1 DEF CanMove
    <3>2. ASSUME g.status[n] = "FAILED" PROVE FALSE
      <4>1. g.attempt[n] < MaxAttempts[n]
        BY <2>4, <3>2 DEF Stopped, Success, Done
      <4>2. Retryable(n)
        BY <2>1, <3>2, <4>1 DEF Retryable
      <4> QED BY <4>2 DEF CanMove
    <3> QED BY <3>1, <3>2
  <2>6. Running(g) = {} /\ Cardinality(Running(g)) < MaxParallelism
    BY <2>5, FS_EmptySet, EngineConstants DEF Running
  <2>7. \A n \in Node : Due(g, n) => Candidate(g, n)
    <3> SUFFICES ASSUME NEW n \in Node, Due(g, n) PROVE Candidate(g, n)
      OBVIOUS
    <3>1. g.status[n] \in {"PENDING", "INVALIDATED", "READY"}
      <4>1. g.status[n] \in NodeStatus \ {"SKIPPED", "BLOCKED"}
        BY <2>3 DEF GraphOK, Unskipped
      <4>2. g.status[n] # "CANCELLED"
        BY <2>4 DEF Stopped
      <4> QED BY <2>5, <4>1, <4>2 DEF NodeStatus, Due, Done
    <3>2. g.attempt[n] < MaxAttempts[n]
      BY <2>4, <3>1 DEF Stopped, Success, Done
    <3>3. InputsReady(g, n)
      BY <2>3, InputsAreDeps DEF Due
    <3> QED BY <2>6, <3>1, <3>2, <3>3 DEF Candidate
  <2>8. PICK D : D = {n \in Node : Due(g, n)}
    OBVIOUS
  <2>9. D # {}
    <3>1. PICK U : U = {n \in Node : g.status[n] \notin Done}
      OBVIOUS
    <3>2. U \in SUBSET Node /\ U # {}
      BY <2>4, <3>1, Compiled DEF GlobalGateIsSink, Success
    <3>3. PICK n \in U : \A m \in U : ~Before(m, n)
      BY <3>2, FirstNode
    <3>4. Due(g, n)
      BY <3>1, <3>3, DepsUpstream DEF Due
    <3> QED BY <2>8, <3>2, <3>4
  <2>10. PICK w \in D : \A n \in D : ~Before(n, w)
    <3>1. D \in SUBSET Node
      BY <2>8
    <3> QED BY <2>9, <3>1, FirstNode
  <2>11. w \in Node /\ Due(g, w) /\ Candidate(g, w)
    BY <2>7, <2>8
  <2>12. w \in ReadyNodes(g, MaxParallelism)
    <3> SUFFICES ASSUME w \notin ReadyNodes(g, MaxParallelism) PROVE FALSE
      OBVIOUS
    <3>1. PICK m \in ReadyNodes(g, MaxParallelism) : Before(m, w)
      BY <2>6, <2>11, Parallel, PassedOver
    <3>2. m \in Node /\ Candidate(g, m)
      BY Parallel, ReadyNodeFits
    <3>3. Due(g, m)
      BY <2>3, <3>2, InputsAreDeps DEF Candidate, Due, Done
    <3> QED BY <2>8, <2>10, <3>1, <3>2, <3>3
  <2>13. g.status[w] # "READY" /\ ~External(w)
    BY <2>1, <2>11, <2>12 DEF CanMove, LockedOut
  <2>14. PICK r \in Node : Leads(g, r, w)
    BY <2>2, <2>4, <2>5, <2>11, <2>13 DEF Moving, Led, Live
  <2> QED BY <2>8, <2>10, <2>13, <2>14 DEF Leads
<1> QED BY <1>1, Invariance, GraphsKeepMoving, PTL

(* Without external nodes nothing wedges it at all.                         *)
THEOREM NothingWedgesInside ==
  ASSUME Unconditional, MaxParallelism <= DefaultParallelism,
         \A n \in Node : MaxFailedGates[n] = NoLimit,
         \A n \in Node : ~External(n)
  PROVE  Spec => [](Planned /\ Completable => CanMove)
<1>1. IInv /\ NoWedge => (Planned /\ Completable => CanMove)
  BY Parallel, ReadyNodeFits DEF NoWedge, LockedOut
<1> QED BY <1>1, Invariance, NothingWedges, PTL
-----------------------------------------------------------------------------
(* The exported history of GraphTelemetry. First what its fold tells of     *)
(* the rows, one by one; then that every step but the verdict of a gate     *)
(* leaves nothing new to tell; then the invariant: what the history tells   *)
(* is what was judged. Last the attribution of a send_back to its gate.     *)

(* A solution of the fold's recursion over a sequence of rows, part by      *)
(* part.                                                                    *)
FoldPart(rows, it, s) ==
  IF s = {} THEN ToldNothing ELSE Tell(it[s \ {Max(s)}], rows[Max(s)])

Folds(rows, S, it) == it = [s \in SUBSET S |-> FoldPart(rows, it, s)]

LEMMA MaxChosen ==
  ASSUME NEW S \in SUBSET Nat, IsFiniteSet(S), S # {}
  PROVE  Max(S) \in S /\ \A k \in S : k <= Max(S)
<1>1. \E m \in S : \A k \in S : k <= m
  BY LargestNatural
<1>2. \A m, k \in S : k <= m <=> m >= k
  OBVIOUS
<1>3. Max(S) = CHOOSE m \in S : \A k \in S : m >= k
  BY DEF Max
<1> QED BY <1>1, <1>2, <1>3

LEMMA ToldIsChosen ==
  ASSUME NEW rows
  PROVE  Told(rows) = (CHOOSE it : Folds(rows, DOMAIN rows, it))[DOMAIN rows]
<1> DEFINE Body(it) == [s \in SUBSET (DOMAIN rows) |->
                          IF s = {} THEN ToldNothing
                          ELSE Tell(it[s \ {Max(s)}], rows[Max(s)])]
<1>1. Told(rows) = (CHOOSE it : it = Body(it))[DOMAIN rows]
  BY DEF Told, FoldLeft, MapThenFoldSet
<1>2. ASSUME NEW it PROVE Folds(rows, DOMAIN rows, it) <=> it = Body(it)
  BY DEF Folds, FoldPart
<1>3. (CHOOSE it : it = Body(it)) = (CHOOSE it : Folds(rows, DOMAIN rows, it))
  <2> HIDE DEF Body
  <2> QED BY <1>2
<1> QED BY <1>1, <1>3

(* The recursion over the positions of a finite set has a solution.         *)
LEMMA FoldsExist ==
  ASSUME NEW rows, NEW S \in SUBSET Nat, IsFiniteSet(S)
  PROVE  \E it : Folds(rows, S, it)
<1> DEFINE UpTo(it, k) == /\ it = [s \in SUBSET S |-> it[s]]
                          /\ \A s \in SUBSET S : Cardinality(s) < k => it[s] = FoldPart(rows, it, s)
           Bad == {k \in Nat : \A it : ~UpTo(it, k)}
<1>0. \A s \in SUBSET S : IsFiniteSet(s) /\ Cardinality(s) \in Nat
  BY FS_Subset, FS_CardinalityType
<1>1. Bad = {}
  <2> SUFFICES ASSUME Bad # {} PROVE FALSE
    OBVIOUS
  <2>1. PICK k \in Bad : \A j \in Bad : k <= j
    <3>1. Bad \in SUBSET Nat
      OBVIOUS
    <3> HIDE DEF Bad
    <3> QED BY <3>1, LeastNatural
  <2>2. k \in Nat /\ \A it : ~UpTo(it, k)
    OBVIOUS
  <2>3. k # 0
    <3>1. UpTo([s \in SUBSET S |-> 0], 0)
      BY <1>0
    <3> HIDE DEF UpTo
    <3> QED BY <2>2, <3>1
  <2>4. k - 1 \in Nat /\ k - 1 \notin Bad
    <3> HIDE DEF Bad
    <3> QED BY <2>1, <2>2, <2>3
  <2>5. PICK it : UpTo(it, k - 1)
    <3> HIDE DEF UpTo
    <3> QED BY <2>4
  <2> DEFINE h == [s \in SUBSET S |-> IF Cardinality(s) < k - 1 THEN it[s] ELSE FoldPart(rows, it, s)]
  <2>6. h = [s \in SUBSET S |-> h[s]]
    OBVIOUS
  <2>7. ASSUME NEW s \in SUBSET S, Cardinality(s) < k PROVE h[s] = FoldPart(rows, h, s)
    <3>1. h[s] = FoldPart(rows, it, s)
      BY <2>5
    <3>2. CASE s = {}
      BY <3>1, <3>2 DEF FoldPart
    <3>3. CASE s # {}
      <4>1. PICK x : x = Max(s)
        OBVIOUS
      <4>2. x \in s
        BY <1>0, <3>3, <4>1, MaxChosen
      <4>3. s \ {x} \in SUBSET S /\ Cardinality(s \ {x}) = Cardinality(s) - 1
        BY <1>0, <4>2, FS_RemoveElement
      <4>4. Cardinality(s \ {x}) < k - 1
        BY <1>0, <2>2, <2>7, <4>3
      <4>5. h[s \ {x}] = it[s \ {x}]
        BY <4>3, <4>4
      <4> HIDE DEF h
      <4> QED BY <3>1, <4>1, <4>5 DEF FoldPart
    <3> QED BY <3>2, <3>3
  <2>8. UpTo(h, k)
    <3> HIDE DEF h
    <3> QED BY <2>6, <2>7
  <2> HIDE DEF UpTo, h
  <2> QED BY <2>2, <2>8
<1>2. Cardinality(S) + 1 \in Nat
  BY <1>0
<1>3. PICK it : UpTo(it, Cardinality(S) + 1)
  <2> HIDE DEF UpTo
  <2> QED BY <1>1, <1>2
<1>4. \A s \in SUBSET S : Cardinality(s) < Cardinality(S) + 1
  <2>1. \A s \in SUBSET S : Cardinality(s) <= Cardinality(S)
    BY FS_Subset
  <2> QED BY <1>0, <2>1
<1>5. \A s \in SUBSET S : it[s] = FoldPart(rows, it, s)
  BY <1>3, <1>4
<1>6. it = [s \in SUBSET S |-> FoldPart(rows, it, s)]
  BY <1>3, <1>5
<1> QED BY <1>6 DEF Folds

(* Two solutions agree on a set that both cover.                            *)
LEMMA FoldsAgree ==
  ASSUME NEW p, NEW q, NEW S \in SUBSET Nat, NEW T \in SUBSET S, IsFiniteSet(S),
         \A k \in T : p[k] = q[k], NEW i, NEW j, Folds(p, S, i), Folds(q, T, j)
  PROVE  i[T] = j[T]
<1> DEFINE Sizes == {Cardinality(s) : s \in {t \in SUBSET T : i[t] # j[t]}}
<1> SUFFICES ASSUME i[T] # j[T] PROVE FALSE
  OBVIOUS
<1>1. \A s \in SUBSET T : IsFiniteSet(s) /\ Cardinality(s) \in Nat
  BY FS_Subset, FS_CardinalityType
<1>2. Sizes \in SUBSET Nat /\ Sizes # {}
  BY <1>1
<1>3. PICK m \in Sizes : \A k \in Sizes : m <= k
  <2> HIDE DEF Sizes
  <2> QED BY <1>2, LeastNatural
<1>4. PICK s \in SUBSET T : m = Cardinality(s) /\ i[s] # j[s]
  OBVIOUS
<1>5. i[s] = FoldPart(p, i, s) /\ j[s] = FoldPart(q, j, s)
  BY DEF Folds
<1>6. s # {}
  BY <1>4, <1>5 DEF FoldPart
<1>7. PICK x : x = Max(s)
  OBVIOUS
<1>8. x \in s
  BY <1>1, <1>6, <1>7, MaxChosen
<1>9. s \ {x} \in SUBSET T /\ Cardinality(s \ {x}) = Cardinality(s) - 1
  BY <1>1, <1>8, FS_RemoveElement
<1>10. i[s \ {x}] = j[s \ {x}]
  BY <1>1, <1>3, <1>4, <1>9
<1>11. p[x] = q[x]
  BY <1>8
<1> QED BY <1>4, <1>5, <1>6, <1>7, <1>10, <1>11 DEF FoldPart

LEMMA ToldSolved ==
  ASSUME NEW S, NEW rows \in Seq(S)
  PROVE  /\ \E it : Folds(rows, DOMAIN rows, it) /\ Told(rows) = it[DOMAIN rows]
         /\ DOMAIN rows \in SUBSET Nat /\ IsFiniteSet(DOMAIN rows)
<1>1. DOMAIN rows = 1 .. Len(rows) /\ Len(rows) \in Nat
  OBVIOUS
<1>2. IsFiniteSet(DOMAIN rows) /\ DOMAIN rows \in SUBSET Nat
  BY <1>1, FS_Interval
<1>3. \E it : Folds(rows, DOMAIN rows, it)
  BY <1>2, FoldsExist
<1> QED BY <1>2, <1>3, ToldIsChosen

(* Of no rows nothing is told.                                              *)
LEMMA ToldFirst == Told(<< >>) = ToldNothing
<1>1. PICK it : Folds(<< >>, DOMAIN << >>, it) /\ Told(<< >>) = it[DOMAIN << >>]
  <2>1. << >> \in Seq(Node)
    OBVIOUS
  <2> QED BY <2>1, ToldSolved
<1>2. DOMAIN << >> = {}
  OBVIOUS
<1>3. it[{}] = FoldPart(<< >>, it, {})
  BY <1>1, <1>2 DEF Folds
<1> QED BY <1>1, <1>2, <1>3 DEF FoldPart

(* A row more is told after those before it.                                *)
LEMMA ToldAppend ==
  ASSUME NEW S, NEW rows \in Seq(S), NEW row \in S
  PROVE  Told(Append(rows, row)) = Tell(Told(rows), row)
<1>1. PICK more : more = Append(rows, row)
  OBVIOUS
<1>2. PICK n : n = Len(rows) + 1
  OBVIOUS
<1>3. /\ more \in Seq(S) /\ n \in Nat \ {0} /\ more[n] = row
      /\ DOMAIN rows = 1 .. n - 1 /\ DOMAIN more = 1 .. n
      /\ \A k \in 1 .. n - 1 : more[k] = rows[k]
  BY <1>1, <1>2
<1>4. PICK D, E : D = DOMAIN more /\ E = DOMAIN rows
  OBVIOUS
<1>5. PICK i : Folds(more, D, i) /\ Told(more) = i[D]
  BY <1>3, <1>4, ToldSolved
<1>6. PICK j : Folds(rows, E, j) /\ Told(rows) = j[E]
  BY <1>4, ToldSolved
<1>7. D \in SUBSET Nat /\ IsFiniteSet(D)
  BY <1>3, <1>4, ToldSolved
<1>8. i[E] = j[E]
  <2>1. E \in SUBSET D /\ \A k \in E : more[k] = rows[k]
    BY <1>3, <1>4
  <2> QED BY <1>5, <1>6, <1>7, <2>1, FoldsAgree
<1>9. Max(D) = n
  <2>1. n \in D /\ \A k \in D : k <= n
    BY <1>3, <1>4
  <2>2. Max(D) \in D /\ \A k \in D : k <= Max(D)
    BY <1>7, <2>1, MaxChosen
  <2>3. Max(D) \in Nat /\ n <= Max(D) /\ Max(D) <= n
    BY <1>7, <2>1, <2>2
  <2> QED BY <1>3, <2>3
<1>10. D # {} /\ D \ {n} = E
  BY <1>3, <1>4
<1>11. i[D] = FoldPart(more, i, D)
  BY <1>5 DEF Folds
<1>12. FoldPart(more, i, D) = Tell(i[E], row)
  BY <1>3, <1>9, <1>10 DEF FoldPart
<1> QED BY <1>1, <1>5, <1>6, <1>8, <1>11, <1>12

(* What a step that accepts no gate leaves to tell of a graph: nothing that *)
(* was not told of the one it came from.                                    *)
Tried(g) == \A n \in Node : g.status[n] \in Done \cup {"RUNNING"} => g.attempt[n] >= 1

(* Nothing of m is left to tell that was not told of g.                     *)
Quiet(g, m) ==
  /\ GraphOK(m) /\ Tried(m)
  /\ \A n \in Resolved(m) : n \in Resolved(g) /\ Signature(m, n) = Signature(g, n)

LEMMA QuietTransitive ==
  ASSUME NEW g, NEW h, NEW m, Quiet(g, h), Quiet(h, m)
  PROVE  Quiet(g, m)
BY DEF Quiet

LEMMA FailedQuiet ==
  ASSUME NEW g, Tried(g), NEW m, GraphOK(m), NEW S \in SUBSET Node, Failed(g, m, S)
  PROVE  Quiet(g, m)
<1>1. ASSUME NEW n \in Node, m.status[n] \in Done \cup {"RUNNING"}
      PROVE  /\ g.status[n] \in Done \cup {"RUNNING"}
             /\ m.status[n] \in Done => g.status[n] \in Done
             /\ m.verdict[n] = g.verdict[n] /\ m.attempt[n] = g.attempt[n]
  BY <1>1 DEF Failed, Done, Success
<1> QED BY <1>1 DEF Quiet, Tried, Resolved, Signature

LEMMA FailNodeQuiet ==
  ASSUME NEW g, GraphOK(g), Tried(g), NEW n \in Node
  PROVE  Quiet(g, FailNode(g, n))
<1>1. {n} \in SUBSET Node
  OBVIOUS
<1> QED BY <1>1, FailAllFields, FailedQuiet DEF FailNode

LEMMA SendBackQuiet ==
  ASSUME NEW g, GraphOK(g), Tried(g), NEW S \in SUBSET Node
  PROVE  Quiet(g, [FailAll(g, S) EXCEPT !.gstatus = "RUNNING"])
BY ApplySendBackFields, FailedQuiet

LEMMA SameQuiet ==
  ASSUME NEW g, GraphOK(g), Tried(g)
  PROVE  Quiet(g, g)
BY DEF Quiet

LEMMA RecoverQuiet ==
  ASSUME NEW g, GraphOK(g), Tried(g)
  PROVE  Quiet(g, RecoverSendBacks(g))
<1>1. TargetsOf(PendingSources(g)) \in SUBSET Node
  BY TargetsAreNodes DEF TargetsOf
<1> QED BY <1>1, SendBackQuiet, SameQuiet DEF RecoverSendBacks

LEMMA GivenUpQuiet ==
  ASSUME NEW g, GraphOK(g), Tried(g)
  PROVE  Quiet(g, [g EXCEPT !.gstatus = "FAILED"])
<1>1. PICK m : m = [g EXCEPT !.gstatus = "FAILED"]
  OBVIOUS
<1>2. GraphOK(m) /\ m.status = g.status /\ m.attempt = g.attempt /\ m.verdict = g.verdict
  BY <1>1, GstatusUpdate DEF GraphStatus
<1>3. Quiet(g, m)
  BY <1>2 DEF Quiet, Tried, Resolved, Signature
<1> QED BY <1>1, <1>3

LEMMA AcceptedQuiet ==
  ASSUME NEW g, GraphOK(g), Tried(g), NEW m, GraphOK(m), NEW n \in Node, Accepted(g, m, n),
         g.status[n] = "RUNNING", NodeType[n] # "GATE"
  PROVE  Quiet(g, m)
<1>1. ASSUME NEW k \in Node, m.status[k] \in Done \cup {"RUNNING"}
      PROVE  /\ g.status[k] \in Done \cup {"RUNNING"}
             /\ m.attempt[k] = g.attempt[k]
             /\ k = n \/ (m.status[k] = g.status[k] /\ m.verdict[k] = g.verdict[k])
  BY <1>1 DEF Accepted, Done, Waiting
<1> QED BY <1>1 DEF Quiet, Tried, Resolved, Signature

LEMMA AcceptNodeQuiet ==
  ASSUME NEW g, GraphOK(g), Tried(g), NEW n \in Node, g.status[n] = "RUNNING",
         NodeType[n] # "GATE", NEW output \in Output
  PROVE  Quiet(g, AcceptNode(g, n, output, "NONE"))
<1>1. "NONE" \in Verdict
  BY DEF Verdict
<1> QED BY <1>1, AcceptNodeFields, AcceptedQuiet

LEMMA StartNodeQuiet ==
  ASSUME NEW g, GraphOK(g), Tried(g), NEW n \in ReadyNodes(g, MaxParallelism)
  PROVE  Quiet(g, StartNode(g, n))
<1>1. n \in Node /\ g.attempt[n] < MaxAttempts[n]
  BY Parallel, ReadyNodeFits DEF Candidate
<1>2. PICK m : m = StartNode(g, n)
  OBVIOUS
<1>3. /\ GraphOK(m) /\ m.verdict = g.verdict
      /\ m.status = [g.status EXCEPT ![n] = "RUNNING"]
      /\ m.attempt = [g.attempt EXCEPT ![n] = @ + 1]
  BY <1>1, <1>2, StartNodeFields
<1>4. ASSUME NEW k \in Node, m.status[k] \in Done \cup {"RUNNING"}
      PROVE  /\ m.attempt[k] >= 1
             /\ m.status[k] \in Done => g.status[k] = m.status[k] /\ m.attempt[k] = g.attempt[k]
  BY <1>1, <1>3, <1>4 DEF Tried, GraphOK, Done
<1>5. Quiet(g, m)
  BY <1>3, <1>4 DEF Quiet, Tried, Resolved, Signature
<1> QED BY <1>2, <1>5

(* A retry, a cancellation and a plan take verdicts away and give none.     *)
LEMMA RetryNodeQuiet ==
  ASSUME NEW g, GraphOK(g), Tried(g), NEW n \in Node
  PROVE  Quiet(g, RetryNode(g, n))
<1>1. PICK m : m = RetryNode(g, n)
  OBVIOUS
<1>2. /\ GraphOK(m) /\ m.verdict = g.verdict /\ m.attempt = g.attempt
      /\ m.status = [g.status EXCEPT ![n] = "READY"]
  BY <1>1, RetryNodeFields
<1>3. \A k \in Node : m.status[k] \in Done \cup {"RUNNING"} => g.status[k] = m.status[k]
  BY <1>2 DEF GraphOK, Done
<1>4. Quiet(g, m)
  BY <1>2, <1>3 DEF Quiet, Tried, Resolved, Signature
<1> QED BY <1>1, <1>4

LEMMA CancelGraphQuiet ==
  ASSUME NEW g, GraphOK(g), Tried(g)
  PROVE  Quiet(g, CancelGraph(g))
<1>1. PICK m : m = CancelGraph(g)
  OBVIOUS
<1>2. /\ GraphOK(m) /\ m.verdict = g.verdict /\ m.attempt = g.attempt
      /\ \A n \in Node : m.status[n] = IF g.status[n] \in Waiting \cup {"RUNNING"}
                                         THEN "CANCELLED" ELSE g.status[n]
  BY <1>1, CancelGraphFields
<1>3. \A k \in Node : m.status[k] \in Done \cup {"RUNNING"} => g.status[k] = m.status[k]
  BY <1>2 DEF Done
<1>4. Quiet(g, m)
  BY <1>2, <1>3 DEF Quiet, Tried, Resolved, Signature
<1> QED BY <1>1, <1>4

LEMMA PlannedGraphQuiet ==
  ASSUME NEW m, m = MarkReady(FreshGraph, MaxParallelism)
  PROVE  GraphOK(m) /\ Tried(m) /\ Resolved(m) = {}
<1>1. PICK g : g = FreshGraph
  OBVIOUS
<1>2. GraphOK(g) /\ \A n \in Node : g.status[n] = "PENDING"
  BY <1>1, FreshGraphOK DEF FreshGraph
<1>3. GraphOK(m) /\ Settled(g, m)
  BY <1>1, <1>2, MarkReadySettled
<1>4. \A n \in Node : m.status[n] \notin Done \cup {"RUNNING"}
  BY <1>2, <1>3 DEF Settled, Waiting, Done
<1> QED BY <1>3, <1>4 DEF Tried, Resolved

(* The places of a sequence that hold a member of V.                        *)
Places(s, V) == {i \in DOMAIN s : s[i] \in V}

LEMMA CountAppend ==
  ASSUME NEW S, NEW s \in Seq(S), NEW x \in S, NEW V
  PROVE  /\ Cardinality(Places(s, V)) \in Nat /\ Cardinality(Places(Append(s, x), V)) \in Nat
         /\ x \in V => Cardinality(Places(Append(s, x), V)) = Cardinality(Places(s, V)) + 1
         /\ x \notin V => Cardinality(Places(Append(s, x), V)) = Cardinality(Places(s, V))
<1>0. PICK t, C, D : t = Append(s, x) /\ C = Places(s, V) /\ D = Places(t, V)
  OBVIOUS
<1>1. PICK n : n = Len(s)
  OBVIOUS
<1>2. n \in Nat /\ DOMAIN s = 1 .. n /\ DOMAIN t = 1 .. n + 1 /\ t[n + 1] = x
        /\ \A i \in 1 .. n : t[i] = s[i]
  BY <1>0, <1>1
<1>3. IsFiniteSet(C) /\ Cardinality(C) \in Nat /\ n + 1 \notin C
  <2>1. IsFiniteSet(1 .. n) /\ C \subseteq 1 .. n
    BY <1>0, <1>2, FS_Interval DEF Places
  <2>2. IsFiniteSet(C) /\ Cardinality(C) \in Nat
    BY <2>1, FS_Subset, FS_CardinalityType
  <2> QED BY <1>2, <2>1, <2>2
<1>4. D = IF x \in V THEN C \cup {n + 1} ELSE C
  BY <1>0, <1>2 DEF Places
<1>5. Cardinality(C \cup {n + 1}) = Cardinality(C) + 1
  BY <1>3, FS_AddElement
<1>6. PICK c, d : c = Cardinality(C) /\ d = Cardinality(D)
  OBVIOUS
<1>7. c \in Nat /\ (x \in V => d = c + 1) /\ (x \notin V => d = c)
  <2>1. x \in V => D = C \cup {n + 1}
    BY <1>4
  <2>2. x \notin V => D = C
    BY <1>4
  <2> QED BY <1>3, <1>5, <1>6, <2>1, <2>2, Zenon
<1>8. d \in Nat
  BY <1>7
<1> QED BY <1>0, <1>6, <1>7, <1>8

(* What the events of the history are. *)
Verdicts == [node : Node, attempt : Nat, gate : GateResult]
GateTold ==
  [type : {"gate"}, node : Node, status : NodeStatus, gate : GateResult,
   attempt : Nat, affected : Nat]
SendBackTold ==
  [type : {"send_back"}, node : Node \cup {NoNode}, status : NodeStatus, gate : {"NONE"},
   attempt : Nat, affected : Nat]
Event == GateTold \cup SendBackTold
VerdictOf(e) == [node |-> e.node, attempt |-> e.attempt, gate |-> e.gate]

LEMMA AffectedNodes ==
  ASSUME NEW before, NEW ir
  PROVE  /\ Affected(before, ir) \subseteq Node /\ IsFiniteSet(Affected(before, ir))
         /\ Cardinality(Affected(before, ir)) \in Nat
<1>1. Affected(before, ir) \subseteq Node
  BY DEF Affected
<1> QED BY <1>1, NodesFinite, FS_Subset, FS_CardinalityType

LEMMA SendBackEventTyped ==
  ASSUME NEW told, told.gate = << >> \/ \E e \in GateTold : told.gate = << e >>,
         NEW ir, GraphOK(ir)
  PROVE  SendBackEvent(told, ir) \in SendBackTold
<1>1. SendBackStatus(ir) \in NodeStatus
  BY DEF SendBackStatus, GraphOK, GraphStatus, NodeStatus
<1>2. Cardinality(Affected(told.before, ir)) \in Nat
  BY AffectedNodes
<1>3. CASE told.gate = << >>
  BY <1>1, <1>2, <1>3 DEF SendBackEvent, SendBackTold
<1>4. ASSUME NEW e \in GateTold, told.gate = << e >>
      PROVE  SendBackEvent(told, ir) \in SendBackTold
  <2>1. told.gate # << >> /\ Last(told.gate) = e
    BY <1>4 DEF Last
  <2>2. e.node \in Node /\ e.attempt \in Nat
    BY DEF GateTold
  <2> QED BY <1>1, <1>2, <2>1, <2>2 DEF SendBackEvent, SendBackTold
<1> QED BY <1>3, <1>4

LEMMA TellSendBack ==
  ASSUME NEW told, NEW ir, NEW row, row = [boundary |-> "send_back", ir |-> ir]
  PROVE  Tell(told, row) = [events |-> Append(told.events, SendBackEvent(told, ir)),
                            seen |-> told.seen, gate |-> << >>, before |-> NoGraph]
BY DEF Tell

(* One node put in order is that node alone.                                *)
LEMMA OneInOrder ==
  ASSUME NEW n \in Node
  PROVE  InIdOrder({n}) = << n >>
<1>1. Cardinality({n}) = 1
  BY FS_Singleton
<1>2. \A x \in {n} : {y \in {n} : Rank[y] < Rank[x]} = {}
  BY Compiled DEF ContractsTyped
<1>3. Cardinality({}) = 0
  BY FS_EmptySet
<1>4. (CHOOSE x \in {n} : Cardinality({y \in {n} : Rank[y] < Rank[x]}) = 0) = n
  BY <1>2, <1>3
<1>5. InIdOrder({n}) = [i \in 1 .. 1 |->
        CHOOSE x \in {n} : Cardinality({y \in {n} : Rank[y] < Rank[x]}) = i - 1]
  BY <1>1 DEF InIdOrder, InOrder
<1>6. \A i \in 1 .. 1 : i - 1 = 0
  OBVIOUS
<1>7. InIdOrder({n}) = [i \in 1 .. 1 |-> n]
  BY <1>4, <1>5, <1>6
<1>8. [i \in 1 .. 1 |-> n] = << n >>
  OBVIOUS
<1> QED BY <1>7, <1>8

(* A verdict that stands alone is told by one event.                        *)
LEMMA TellGate ==
  ASSUME NEW told, NEW S, told.events \in Seq(S), NEW ir, NEW row,
         row = [boundary |-> "gate_resolution", ir |-> ir],
         NEW n \in Node, NewGates(told.seen, ir) = {n}, NEW e, e = GateEvent(ir, n)
  PROVE  Tell(told, row) = [events |-> Append(told.events, e),
                            seen |-> told.seen \cup {Signature(ir, n)},
                            gate |-> << e >>, before |-> ir]
<1>1. PICK gates : gates = InIdOrder(NewGates(told.seen, ir))
  OBVIOUS
<1>2. gates = << n >> /\ DOMAIN gates = 1 .. 1 /\ gates[1] = n
  BY <1>1, OneInOrder
<1>3. PICK events : events = [i \in DOMAIN gates |-> GateEvent(ir, gates[i])]
  OBVIOUS
<1>4. gates # << >> /\ ToSet(gates) = {n} /\ events = << e >> /\ Last(events) = e
  <2>1. gates # << >> /\ ToSet(gates) = {n}
    BY <1>2 DEF ToSet
  <2>2. events = [i \in 1 .. 1 |-> e]
    BY <1>2, <1>3
  <2>3. events = << e >>
    BY <2>2
  <2> QED BY <2>1, <2>3 DEF Last
<1>5. told.events \o << e >> = Append(told.events, e)
  <2>1. told.events \in Seq(S \cup {e}) /\ e \in S \cup {e}
    BY SeqMonotonic
  <2> QED BY <2>1, AppendIsConcat
<1>6. {Signature(ir, m) : m \in ToSet(gates)} = {Signature(ir, n)}
  BY <1>4
<1>7. Tell(told, row) = IF gates = << >> THEN told
                        ELSE [events |-> told.events \o events,
                              seen |-> told.seen \cup {Signature(ir, m) : m \in ToSet(gates)},
                              gate |-> << Last(events) >>, before |-> ir]
  BY <1>1, <1>3 DEF Tell
<1> QED BY <1>4, <1>5, <1>6, <1>7

GatesIn(gate) == {e \in Event : e.type = "gate" /\ e.gate = gate}

(* The counts of the verdicts add up to the verdicts judged.                *)
Summed(E, J) ==
  /\ \A gate \in GateResult : GatesTold(E, gate) \in Nat
  /\ GatesTold(E, "PASS") + GatesTold(E, "FAIL") + GatesTold(E, "INCONCLUSIVE") = Cardinality(J)

(* The events E are told of the verdicts J: each once, and no other.        *)
Recalls(E, J) ==
  /\ E \in Seq(Event) /\ J \subseteq Verdicts /\ IsFiniteSet(J)
  /\ \A r \in J : \E i : TellsOf(E, r) = {i}
  /\ \A i \in DOMAIN E : E[i].type = "gate" => VerdictOf(E[i]) \in J
  /\ Summed(E, J)

(* What an append leaves of a sequence, and what it adds.                   *)
LEMMA Appended ==
  ASSUME NEW S, NEW s \in Seq(S), NEW x \in S
  PROVE  /\ Append(s, x) \in Seq(S)
         /\ DOMAIN s \subseteq Nat
         /\ \A i \in DOMAIN s : i <= Len(s) /\ i # Len(s) + 1
         /\ DOMAIN Append(s, x) = DOMAIN s \cup {Len(s) + 1}
         /\ \A i \in DOMAIN s : Append(s, x)[i] = s[i] /\ s[i] \in S
         /\ Append(s, x)[Len(s) + 1] = x
OBVIOUS

LEMMA TellsOfAppend ==
  ASSUME NEW E \in Seq(Event), NEW e \in Event, NEW r \in Verdicts
  PROVE  TellsOf(Append(E, e), r) =
           IF e.type = "gate" /\ VerdictOf(e) = r THEN TellsOf(E, r) \cup {Len(E) + 1}
           ELSE TellsOf(E, r)
<1>1. PICK F, k : F = Append(E, e) /\ k = Len(E) + 1
  OBVIOUS
<1>2. /\ DOMAIN F = DOMAIN E \cup {k} /\ k \notin DOMAIN E /\ F[k] = e
      /\ \A i \in DOMAIN E : F[i] = E[i]
  BY <1>1, Appended
<1>3. TellsGate(e, r.node) /\ e.attempt = r.attempt /\ e.gate = r.gate
        <=> e.type = "gate" /\ VerdictOf(e) = r
  BY DEF TellsGate, VerdictOf, Verdicts
<1>4. TellsOf(F, r) = IF e.type = "gate" /\ VerdictOf(e) = r THEN TellsOf(E, r) \cup {k}
                      ELSE TellsOf(E, r)
  BY <1>2, <1>3 DEF TellsOf
<1> QED BY <1>1, <1>4

LEMMA GatesToldAppend ==
  ASSUME NEW E \in Seq(Event), NEW e \in Event, NEW gate
  PROVE  /\ GatesTold(E, gate) \in Nat /\ GatesTold(Append(E, e), gate) \in Nat
         /\ e.type = "gate" /\ e.gate = gate => GatesTold(Append(E, e), gate) = GatesTold(E, gate) + 1
         /\ ~(e.type = "gate" /\ e.gate = gate) => GatesTold(Append(E, e), gate) = GatesTold(E, gate)
<1>1. PICK F, V : F = Append(E, e) /\ V = GatesIn(gate)
  OBVIOUS
<1>2. F \in Seq(Event)
  BY <1>1
<1>3. ASSUME NEW s \in Seq(Event)
      PROVE  GatesTold(s, gate) = Cardinality(Places(s, V))
  <2>1. \A i \in DOMAIN s : s[i] \in Event
    OBVIOUS
  <2>2. {i \in DOMAIN s : s[i].type = "gate" /\ s[i].gate = gate} = Places(s, V)
    BY <1>1, <2>1 DEF GatesIn, Places
  <2> QED BY <2>2 DEF GatesTold
<1>4. e \in V <=> e.type = "gate" /\ e.gate = gate
  BY <1>1 DEF GatesIn
<1>5. /\ Cardinality(Places(E, V)) \in Nat /\ Cardinality(Places(F, V)) \in Nat
      /\ e \in V => Cardinality(Places(F, V)) = Cardinality(Places(E, V)) + 1
      /\ e \notin V => Cardinality(Places(F, V)) = Cardinality(Places(E, V))
  BY <1>1, CountAppend
<1>6. GatesTold(E, gate) = Cardinality(Places(E, V)) /\ GatesTold(F, gate) = Cardinality(Places(F, V))
  BY <1>2, <1>3
<1> QED BY <1>1, <1>4, <1>5, <1>6

(* A verdict is told. *)
LEMMA VerdictRecalled ==
  ASSUME NEW E, NEW J, Recalls(E, J), NEW e \in GateTold, NEW v, v = VerdictOf(e), v \notin J
  PROVE  Recalls(Append(E, e), J \cup {v})
<1>1. /\ E \in Seq(Event) /\ J \subseteq Verdicts /\ IsFiniteSet(J)
      /\ \A r \in J : \E i : TellsOf(E, r) = {i}
      /\ \A i \in DOMAIN E : E[i].type = "gate" => VerdictOf(E[i]) \in J
      /\ Summed(E, J)
  BY DEF Recalls
<1>2. e \in Event /\ e.type = "gate" /\ e.gate \in GateResult /\ v \in Verdicts /\ v.gate = e.gate
  BY DEF Event, GateTold, VerdictOf, Verdicts
<1>3. PICK F, K : F = Append(E, e) /\ K = J \cup {v}
  OBVIOUS
<1>4. F \in Seq(Event) /\ K \subseteq Verdicts /\ IsFiniteSet(K) /\ Cardinality(K) = Cardinality(J) + 1
  BY <1>1, <1>2, <1>3, FS_AddElement
<1>5. ASSUME NEW r \in K PROVE \E i : TellsOf(F, r) = {i}
  <2>1. r \in Verdicts
    BY <1>4
  <2>2. CASE r \in J
    <3>1. TellsOf(F, r) = TellsOf(E, r)
      BY <1>1, <1>2, <1>3, <2>1, <2>2, TellsOfAppend
    <3> QED BY <1>1, <2>2, <3>1
  <2>3. CASE r = v
    <3>1. TellsOf(F, r) = TellsOf(E, r) \cup {Len(E) + 1}
      BY <1>1, <1>2, <1>3, <2>1, <2>3, TellsOfAppend
    <3>2. TellsOf(E, r) = {}
      <4> SUFFICES ASSUME NEW i \in TellsOf(E, r) PROVE FALSE
        OBVIOUS
      <4>1. i \in DOMAIN E /\ E[i].type = "gate" /\ VerdictOf(E[i]) = r
        BY <2>1 DEF TellsOf, TellsGate, VerdictOf, Verdicts
      <4> QED BY <1>1, <2>3, <4>1
    <3>3. TellsOf(F, r) = {Len(E) + 1}
      BY <3>1, <3>2
    <3> QED BY <3>3
  <2> QED BY <1>3, <2>2, <2>3
<1>6. ASSUME NEW i \in DOMAIN F, F[i].type = "gate" PROVE VerdictOf(F[i]) \in K
  BY <1>1, <1>2, <1>3, <1>6, Appended
<1>7. Summed(F, K)
  <2>1. \A gate \in GateResult : /\ GatesTold(E, gate) \in Nat /\ GatesTold(F, gate) \in Nat
                                 /\ e.gate = gate => GatesTold(F, gate) = GatesTold(E, gate) + 1
                                 /\ e.gate # gate => GatesTold(F, gate) = GatesTold(E, gate)
    BY <1>1, <1>2, <1>3, GatesToldAppend
  <2>2. e.gate \in {"PASS", "FAIL", "INCONCLUSIVE"}
    BY <1>2 DEF GateResult
  <2>3. Cardinality(J) \in Nat
    BY <1>1, FS_CardinalityType
  <2>4. GatesTold(E, "PASS") + GatesTold(E, "FAIL") + GatesTold(E, "INCONCLUSIVE") = Cardinality(J)
    BY <1>1 DEF Summed
  <2>5. PICK a, b, c, x, y, z :
          /\ a = GatesTold(E, "PASS") /\ b = GatesTold(E, "FAIL") /\ c = GatesTold(E, "INCONCLUSIVE")
          /\ x = GatesTold(F, "PASS") /\ y = GatesTold(F, "FAIL") /\ z = GatesTold(F, "INCONCLUSIVE")
    OBVIOUS
  <2>6. /\ a \in Nat /\ b \in Nat /\ c \in Nat
        /\ x = (IF e.gate = "PASS" THEN a + 1 ELSE a)
        /\ y = (IF e.gate = "FAIL" THEN b + 1 ELSE b)
        /\ z = (IF e.gate = "INCONCLUSIVE" THEN c + 1 ELSE c)
    BY <2>1, <2>5 DEF GateResult
  <2>7. x + y + z = a + b + c + 1
    BY <2>2, <2>6
  <2>8. GatesTold(F, "PASS") + GatesTold(F, "FAIL") + GatesTold(F, "INCONCLUSIVE") = Cardinality(K)
    BY <1>4, <2>4, <2>5, <2>7
  <2> QED BY <2>1, <2>8 DEF Summed
<1>8. Recalls(F, K)
  BY <1>4, <1>5, <1>6, <1>7 DEF Recalls
<1> QED BY <1>3, <1>8

(* A send_back tells no verdict.                                            *)
LEMMA SendBackRecalled ==
  ASSUME NEW E, NEW J, Recalls(E, J), NEW e \in SendBackTold
  PROVE  Recalls(Append(E, e), J)
<1>1. /\ E \in Seq(Event) /\ J \subseteq Verdicts /\ IsFiniteSet(J)
      /\ \A r \in J : \E i : TellsOf(E, r) = {i}
      /\ \A i \in DOMAIN E : E[i].type = "gate" => VerdictOf(E[i]) \in J
      /\ Summed(E, J)
  BY DEF Recalls
<1>2. e \in Event /\ e.type = "send_back"
  BY DEF Event, SendBackTold
<1>3. PICK F : F = Append(E, e)
  OBVIOUS
<1>4. F \in Seq(Event)
  BY <1>1, <1>2, <1>3
<1>5. \A r \in J : TellsOf(F, r) = TellsOf(E, r)
  BY <1>1, <1>2, <1>3, TellsOfAppend
<1>6. ASSUME NEW i \in DOMAIN F, F[i].type = "gate" PROVE VerdictOf(F[i]) \in J
  BY <1>1, <1>2, <1>3, <1>6, Appended
<1>7. Summed(F, J)
  <2>1. \A gate \in GateResult : GatesTold(E, gate) \in Nat /\ GatesTold(F, gate) = GatesTold(E, gate)
    BY <1>1, <1>2, <1>3, GatesToldAppend
  <2> QED BY <1>1, <2>1 DEF Summed, GateResult
<1>8. Recalls(F, J)
  BY <1>1, <1>4, <1>5, <1>6, <1>7 DEF Recalls
<1> QED BY <1>3, <1>8

(* What is told last of another gate stays so. *)
LEMMA OtherLast ==
  ASSUME NEW E \in Seq(Event), NEW e \in Event, NEW n, ~TellsGate(e, n), NEW g, ToldLast(E, g, n)
  PROVE  ToldLast(Append(E, e), g, n)
<1>1. PICK F, k : F = Append(E, e) /\ k = Len(E) + 1
  OBVIOUS
<1>2. /\ DOMAIN F = DOMAIN E \cup {k} /\ F[k] = e /\ \A i \in DOMAIN E : F[i] = E[i]
  BY <1>1, Appended
<1>3. ToldLast(F, g, n)
  BY <1>2 DEF ToldLast
<1> QED BY <1>1, <1>3

(* What is told at the end of a gate is told last of it.                    *)
LEMMA GateLast ==
  ASSUME NEW E \in Seq(Event), NEW ir, NEW n, NEW e, e = GateEvent(ir, n), e \in Event
  PROVE  ToldLast(Append(E, e), ir, n)
<1>1. PICK F, k : F = Append(E, e) /\ k = Len(E) + 1
  OBVIOUS
<1>2. /\ DOMAIN F = DOMAIN E \cup {k} /\ F[k] = e /\ k <= k
      /\ \A i \in DOMAIN E : i <= k
  BY <1>1, Appended
<1>3. TellsGate(e, n) /\ e.attempt = ir.attempt[n] /\ e.gate = ir.verdict[n]
  BY DEF GateEvent, TellsGate
<1>4. ToldLast(F, ir, n)
  BY <1>2, <1>3 DEF ToldLast
<1> QED BY <1>1, <1>4

(* The events of the history lie in the export after off others. *)
Lies(E, X, off) ==
  /\ off \in Nat /\ DOMAIN E \subseteq Nat
  /\ \A i \in DOMAIN E : off + i \in DOMAIN X /\ X[off + i] = E[i]
  /\ \A j \in DOMAIN X : X[j].type \in {"gate", "send_back"} => \E i \in DOMAIN E : j = off + i

(* Neither before nor after the history is there a gate or a send_back.     *)
LEMMA Between ==
  ASSUME NEW S, NEW p \in Seq(S), NEW q \in Seq(S), NEW E \in Seq(S), NEW c \in S,
         \A i \in DOMAIN p : p[i].type \notin {"gate", "send_back"},
         \A i \in DOMAIN q : q[i].type \notin {"gate", "send_back"},
         c.type \notin {"gate", "send_back"}
  PROVE  Lies(E, p \o q \o E \o << c >>, Len(p) + Len(q))
<1>1. PICK l, m, k : l = Len(p) /\ m = Len(q) /\ k = Len(E)
  OBVIOUS
<1>2. PICK pq : pq = p \o q
  OBVIOUS
<1>3. PICK pqe : pqe = pq \o E
  OBVIOUS
<1>4. PICK X : X = pqe \o << c >>
  OBVIOUS
<1>5. /\ l \in Nat /\ m \in Nat /\ k \in Nat
      /\ DOMAIN p = 1 .. l /\ DOMAIN q = 1 .. m /\ DOMAIN E = 1 .. k
  BY <1>1
<1>6. /\ pq \in Seq(S) /\ Len(pq) = l + m
      /\ \A i \in 1 .. l + m : pq[i] = IF i <= l THEN p[i] ELSE q[i - l]
  BY <1>1, <1>2, ConcatProperties
<1>7. /\ pqe \in Seq(S) /\ Len(pqe) = l + m + k
      /\ \A i \in 1 .. l + m + k : pqe[i] = IF i <= l + m THEN pq[i] ELSE E[i - (l + m)]
  BY <1>1, <1>3, <1>6, ConcatProperties
<1>8. X = Append(pqe, c)
  BY <1>4, <1>7, AppendIsConcat
<1>9. /\ DOMAIN X = 1 .. l + m + k + 1 /\ X[l + m + k + 1] = c
      /\ \A i \in 1 .. l + m + k : X[i] = pqe[i]
  BY <1>5, <1>7, <1>8
<1>10. ASSUME NEW i \in DOMAIN E PROVE l + m + i \in DOMAIN X /\ X[l + m + i] = E[i]
  <2>1. PICK j : j = l + m + i
    OBVIOUS
  <2>2. /\ j \in 1 .. l + m + k /\ ~(j <= l + m) /\ j - (l + m) = i
        /\ j \in 1 .. l + m + k + 1
    BY <1>5, <2>1
  <2>3. X[j] = pqe[j] /\ j \in DOMAIN X
    BY <1>9, <2>2
  <2>4. pqe[j] = E[j - (l + m)]
    BY <1>7, <2>2
  <2> QED BY <2>1, <2>2, <2>3, <2>4
<1>11. ASSUME NEW j \in DOMAIN X, X[j].type \in {"gate", "send_back"}
       PROVE  \E i \in DOMAIN E : j = l + m + i
  <2>1. CASE j \in 1 .. l
    <3>1. j \in 1 .. l + m + k /\ j \in 1 .. l + m /\ j <= l /\ j <= l + m
      BY <1>5, <2>1
    <3>2. X[j] = pqe[j] /\ pqe[j] = pq[j] /\ pq[j] = p[j]
      BY <1>6, <1>7, <1>9, <3>1
    <3> QED BY <1>5, <1>11, <2>1, <3>2
  <2>2. CASE j \in l + 1 .. l + m
    <3>1. /\ j \in 1 .. l + m + k /\ j \in 1 .. l + m /\ ~(j <= l) /\ j <= l + m
          /\ j - l \in 1 .. m
      BY <1>5, <2>2
    <3>2. X[j] = pqe[j] /\ pqe[j] = pq[j] /\ pq[j] = q[j - l]
      BY <1>6, <1>7, <1>9, <3>1
    <3> QED BY <1>5, <1>11, <3>1, <3>2
  <2>3. CASE j \in l + m + 1 .. l + m + k
    <3>1. j - (l + m) \in 1 .. k /\ j = l + m + (j - (l + m))
      BY <1>5, <2>3
    <3> QED BY <1>5, <3>1
  <2>4. CASE j = l + m + k + 1
    BY <1>9, <1>11, <2>4
  <2>5. j \in 1 .. l + m + k + 1
    BY <1>9
  <2>6. \/ j \in 1 .. l \/ j \in l + 1 .. l + m
        \/ j \in l + m + 1 .. l + m + k \/ j = l + m + k + 1
    <3>1. j \in Nat /\ 1 <= j /\ j <= l + m + k + 1 /\ l \in Nat /\ m \in Nat /\ k \in Nat
      BY <1>5, <2>5
    <3> QED BY <3>1
  <2> QED BY <2>1, <2>2, <2>3, <2>4, <2>6
<1>12. Lies(E, X, l + m)
  BY <1>5, <1>10, <1>11 DEF Lies
<1> QED BY <1>1, <1>2, <1>3, <1>4, <1>12

LEMMA Exported ==
  ASSUME NEW E \in Seq(Event), NEW g
  PROVE  \E off : Lies(E, GraphEvents(g, E), off)
<1>1. PICK p, q, c : p = DependencyEvents(g) /\ q = NodeEvents(g) /\ c = CheckpointEvent(g)
  OBVIOUS
<1>2. Cardinality(Edge) \in Nat /\ Cardinality(Node) \in Nat
  BY EdgesFinite, NodesFinite, FS_CardinalityType
<1>3. PICK a, b : a = Cardinality(Edge) /\ b = Cardinality(Node)
  OBVIOUS
<1>4. a \in Nat /\ b \in Nat
  BY <1>2, <1>3
<1>5. /\ p = [i \in 1 .. a |-> p[i]] /\ q = [i \in 1 .. b |-> q[i]]
      /\ \A i \in 1 .. a : p[i].type = "dependency"
      /\ \A i \in 1 .. b : q[i].type = "node_transition"
      /\ c.type = "checkpoint"
  BY <1>1, <1>3 DEF DependencyEvents, NodeEvents, CheckpointEvent, EventRow
<1>6. PICK S : S = Event \cup {p[i] : i \in 1 .. a} \cup {q[i] : i \in 1 .. b} \cup {c}
  OBVIOUS
<1>7. p \in [1 .. a -> S] /\ q \in [1 .. b -> S] /\ c \in S
  BY <1>5, <1>6
<1>8. p \in Seq(S) /\ q \in Seq(S)
  BY <1>4, <1>7
<1>9. E \in Seq(S)
  BY <1>6, SeqMonotonic
<1>10. DOMAIN p = 1 .. a /\ DOMAIN q = 1 .. b
  BY <1>7
<1>11. /\ \A i \in DOMAIN p : p[i].type \notin {"gate", "send_back"}
       /\ \A i \in DOMAIN q : q[i].type \notin {"gate", "send_back"}
       /\ c.type \notin {"gate", "send_back"}
  BY <1>5, <1>10
<1>12. Lies(E, p \o q \o E \o << c >>, Len(p) + Len(q))
  BY <1>7, <1>8, <1>9, <1>11, Between
<1> QED BY <1>1, <1>12 DEF GraphEvents

(* What the history tells once and last, the export does.                   *)
LEMMA ExportedOnce ==
  ASSUME NEW E, NEW X, NEW off, Lies(E, X, off), NEW r, NEW i, TellsOf(E, r) = {i}
  PROVE  Cardinality(TellsOf(X, r)) = 1
<1>1. i \in DOMAIN E /\ off + i \in TellsOf(X, r)
  BY DEF TellsOf, Lies
<1>2. \A j \in TellsOf(X, r) : j = off + i
  <2> SUFFICES ASSUME NEW j \in TellsOf(X, r) PROVE j = off + i
    OBVIOUS
  <2>1. j \in DOMAIN X /\ X[j].type = "gate"
    BY DEF TellsOf, TellsGate
  <2>2. PICK k \in DOMAIN E : j = off + k
    BY <2>1 DEF Lies
  <2>3. k \in TellsOf(E, r)
    BY <2>2 DEF TellsOf, Lies
  <2> QED BY <2>2, <2>3
<1>3. TellsOf(X, r) = {off + i}
  BY <1>1, <1>2
<1> QED BY <1>3, FS_Singleton

LEMMA ExportedLast ==
  ASSUME NEW E, NEW X, NEW off, Lies(E, X, off), NEW g, NEW n, ToldLast(E, g, n)
  PROVE  ToldLast(X, g, n)
<1>1. PICK i \in DOMAIN E :
        /\ TellsGate(E[i], n)
        /\ E[i].attempt = g.attempt[n] /\ E[i].gate = g.verdict[n]
        /\ \A j \in DOMAIN E : TellsGate(E[j], n) => j <= i
  BY DEF ToldLast
<1>2. /\ off \in Nat /\ DOMAIN E \subseteq Nat /\ i \in Nat
      /\ off + i \in DOMAIN X /\ X[off + i] = E[i]
  BY DEF Lies
<1>3. ASSUME NEW j \in DOMAIN X, TellsGate(X[j], n) PROVE j <= off + i
  <2>1. PICK k \in DOMAIN E : j = off + k
    BY <1>3 DEF Lies, TellsGate
  <2>2. k \in Nat /\ X[j] = E[k]
    BY <2>1 DEF Lies
  <2>3. k <= i
    BY <1>1, <1>3, <2>2
  <2> QED BY <1>2, <2>1, <2>2, <2>3
<1> QED BY <1>1, <1>2, <1>3 DEF ToldLast

(* The rest of an operation finds what its first transaction did.           *)
Continues ==
  \A n \in Node : /\ pc = << "approve", n >> => NodeType[n] = "HUMAN_APPROVAL"
                  /\ pc = << "send_back", n >> => PendingSendBack(snap, n)

LEMMA ResolveGateVerdict ==
  ASSUME NEW g, GraphOK(g), NEW n \in Node, NodeType[n] = "GATE",
         NEW output \in Output, NEW verdict \in GateResult
  PROVE  ResolveGate(g, n, output, verdict).verdict[n] = verdict
<1>1. PICK a : a = [g EXCEPT !.status[n] = "ACCEPTED", !.out[n] = output,
                     !.verdict[n] = IF NodeType[n] = "GATE" THEN verdict ELSE @]
  OBVIOUS
<1>2. PICK m : m = MarkReady(a, DefaultParallelism)
  OBVIOUS
<1>3. verdict \in Verdict
  BY DEF Verdict
<1>4. GraphOK(a) /\ a.status[n] = "ACCEPTED" /\ a.verdict[n] = verdict
  BY <1>1, <1>3 DEF GraphOK, NodeStatus
<1>5. GraphOK(m) /\ Settled(a, m)
  BY <1>2, <1>4, MarkReadySettled
<1>6. m.verdict[n] = verdict
  BY <1>4, <1>5 DEF Settled, Waiting
<1>7. PICK b : b = [m EXCEPT !.gstatus = IF GloballyAccepted(m) THEN "ACCEPTED" ELSE @]
  OBVIOUS
<1>8. PICK r : r = [b EXCEPT !.gstatus = IF verdict = "PASS" THEN @
                                        ELSE IF n = GlobalGate THEN "FAILED" ELSE "RUNNING"]
  OBVIOUS
<1>9. b = AcceptNode(g, n, output, verdict) /\ r = ResolveGate(g, n, output, verdict)
  BY <1>1, <1>2, <1>7, <1>8 DEF AcceptNode, ResolveGate
<1>10. b.verdict = m.verdict /\ r.verdict = b.verdict
  BY <1>5, <1>7, <1>8 DEF GraphOK
<1> QED BY <1>6, <1>9, <1>10

(* What a gate's transaction leaves: its graph, twice. *)
LEMMA GateStep ==
  ASSUME IInv, NEW n \in Node, NEW output \in Output, NEW verdict \in Outcome,
         NEW amount, RecordGateResult(n, output, verdict, amount)
  PROVE  /\ snap # NoGraph /\ snap \in Graphs /\ GraphOK(snap)
         /\ snap.status[n] = "RUNNING" /\ NodeType[n] = "GATE" /\ verdict \in GateResult
         /\ GraphOK(snap') /\ Accepted(snap, snap', n) /\ snap'.verdict[n] = verdict
         /\ ckpt' = snap' /\ snap' # NoGraph
         /\ usage' = usage \cup {UsageRow(n, snap.attempt[n], amount)}
<1>1. /\ snap # NoGraph /\ snap.status[n] = "RUNNING" /\ NodeType[n] = "GATE"
      /\ snap' = ResolveGate(snap, n, output, verdict) /\ ckpt' = snap'
      /\ usage' = usage \cup {UsageRow(n, snap.attempt[n], amount)}
  BY DEF RecordGateResult, ResultAccepted, Planned, CommitGraph
<1>2. snap \in Graphs /\ GraphOK(snap)
  BY <1>1, SoundIsGraph DEF Graphs, IInv, GraphsSound
<1>3. verdict \in GateResult
  BY EngineConstants
<1>4. GraphOK(snap') /\ Accepted(snap, snap', n) /\ snap'.verdict[n] = verdict
  BY <1>1, <1>2, <1>3, ResolveGateFields, ResolveGateVerdict
<1>5. snap' # NoGraph
  BY <1>4 DEF GraphOK, NoGraph, GraphStatus
<1> QED BY <1>1, <1>2, <1>3, <1>4, <1>5

LEMMA ContinuesKept ==
  ASSUME IInv, Continues, [Next]_vars
  PROVE  Continues'
<1>1. ASSUME pc' = Idle PROVE Continues'
  BY <1>1 DEF Continues, Idle
<1>2. ASSUME pc' = pc, snap' = snap PROVE Continues'
  BY <1>2 DEF Continues, PendingSendBack
<1>3. ASSUME pc' = pc, pc = Idle PROVE Continues'
  BY <1>1, <1>3
<1>4. ASSUME NEW n \in Node, RecordResult(n) PROVE Continues'
  <2>1. PICK amount \in Amount \cup {Unknown} :
        \/ RecordOverBudget(n, amount)
        \/ \E output \in Output, verdict \in Outcome :
             RecordGateResult(n, output, verdict, amount)
        \/ \E verdict \in Outcome : RecordRejected(n, verdict, amount)
        \/ \E output \in Output : RecordAccepted(n, output, amount)
    BY <1>4 DEF RecordResult
  <2>2. ASSUME NEW output \in Output, NEW verdict \in Outcome,
               RecordGateResult(n, output, verdict, amount), pc' # Idle
        PROVE  Continues'
    <3>1. pc' = << "send_back", n >> /\ verdict # "PASS" /\ SendBackTargets(n) # {}
      BY <2>2 DEF RecordGateResult
    <3>2. /\ NodeType[n] = "GATE" /\ verdict \in GateResult
          /\ snap'.status[n] = "ACCEPTED" /\ snap'.verdict[n] = verdict
      BY <2>2, GateStep DEF Accepted
    <3>3. PendingSendBack(snap', n)
      BY <3>1, <3>2 DEF PendingSendBack, Done, GateResult
    <3> QED BY <3>1, <3>3 DEF Continues
  <2> QED BY <1>1, <1>3, <2>1, <2>2
          DEF RecordOverBudget, RecordRejected, RecordAccepted, ResultAccepted, Planned
<1>5. ASSUME NEW n \in Node, BeginApproval(n) PROVE Continues'
  BY <1>5 DEF BeginApproval, Continues
<1>6. ASSUME NEW n \in Node, Start(n) PROVE Continues'
  BY <1>6 DEF Start, Continues
<1>7. ASSUME NEW n \in Node, NodeStep(n) PROVE Continues'
  <2>1. CASE \/ AppendRunning(n) \/ SendBackApplied(n) \/ SendBackConverged(n) \/ SendBackRefused(n)
             \/ \E op \in Op, output \in Output, amount \in Amount \cup {Unknown} :
                  CommitApproval(n, op, output, amount)
    BY <1>1, <2>1 DEF AppendRunning, SendBackApplied, SendBackConverged, SendBackRefused,
       SendBackDone, CommitApproval
  <2>2. CASE \/ \E reason \in HostReason : RecordFailure(n, reason)
             \/ \E reason \in HostReason, amount \in Amount \cup {Unknown} :
                  RecordMeasuredFailure(n, reason, amount)
             \/ Retry(n)
    BY <1>3, <2>2 DEF RecordFailure, RecordMeasuredFailure, Retry, Planned
  <2>3. ASSUME NEW op \in Op, Prepare(n, op) PROVE Continues'
    BY <1>2, <2>3 DEF Prepare
  <2>4. ASSUME NEW op \in Op, CommitReceipt(n, op) PROVE Continues'
    BY <2>4 DEF CommitReceipt, Continues
  <2> QED BY <1>4, <1>5, <1>6, <1>7, <2>1, <2>2, <2>3, <2>4 DEF NodeStep
<1>8. CASE (\E key \in granted : HostEffect(key)) \/ Crash \/ UNCHANGED vars \/ CheckpointReceipt
  BY <1>1, <1>2, <1>8 DEF HostEffect, Crash, CheckpointReceipt, durable, vars
<1>9. CASE Plan \/ SavePlan \/ AppendIntent \/ Cancel \/ Resume \/ ResumeConverged
  BY <1>1, <1>3, <1>9 DEF Plan, SavePlan, AppendIntent, Cancel, Planned, Resume, ResumeConverged,
     Resumable, Continues
<1> QED BY <1>7, <1>8, <1>9 DEF Next

AllTried == \A g \in Graphs : Tried(g)

(* m is well-formed and tells nothing the present graphs do not.            *)
Echoes(m) == GraphOK(m) /\ Tried(m) /\ (Resolved(m) = {} \/ \E g \in Graphs : Quiet(g, m))

Echoed == \A m \in Graphs' : Echoes(m)

LEMMA GraphsAreSound ==
  ASSUME IInv, NEW g \in Graphs
  PROVE  GraphOK(g) /\ g # NoGraph /\ Sound(g, MaxParallelism)
BY SoundIsGraph DEF IInv, GraphsSound, Graphs

(* A step that commits m, and leaves the rest, tells nothing new.           *)
LEMMA CommitEchoes ==
  ASSUME IInv, AllTried, NEW m, Echoes(m), {snap', ckpt'} \subseteq {snap, ckpt, m, NoGraph}
  PROVE  Echoed
<1>1. ASSUME NEW g \in Graphs PROVE Echoes(g)
  BY GraphsAreSound, SameQuiet DEF AllTried, Echoes
<1>2. ASSUME NEW h \in Graphs' PROVE Echoes(h)
  <2>1. h = m \/ h \in Graphs
    BY DEF Graphs
  <2> QED BY <1>1, <2>1
<1> QED BY <1>2 DEF Echoed

LEMMA StandEchoes ==
  ASSUME IInv, AllTried, {snap', ckpt'} \subseteq {snap, ckpt, NoGraph}
  PROVE  Echoed
<1>1. ASSUME NEW h \in Graphs' PROVE Echoes(h)
  <2>1. h \in Graphs
    BY DEF Graphs
  <2> QED BY <2>1, GraphsAreSound, SameQuiet DEF AllTried, Echoes
<1> QED BY <1>1 DEF Echoed

LEMMA QuietEchoes ==
  ASSUME NEW g \in Graphs, NEW m, Quiet(g, m)
  PROVE  Echoes(m)
BY DEF Echoes, Quiet

LEMMA SnapTried ==
  ASSUME IInv, AllTried, snap # NoGraph
  PROVE  snap \in Graphs /\ GraphOK(snap) /\ Tried(snap)
<1>1. snap \in Graphs
  BY DEF Graphs
<1> QED BY <1>1, GraphsAreSound DEF AllTried

LEMMA PlanEchoes ==
  ASSUME IInv, AllTried, Plan \/ SavePlan \/ AppendIntent
  PROVE  Echoed
<1>1. CASE Plan
  <2>1. PICK m : m = MarkReady(FreshGraph, MaxParallelism)
    OBVIOUS
  <2>2. Echoes(m)
    BY <2>1, PlannedGraphQuiet DEF Echoes
  <2>3. ckpt' = m /\ snap' = snap
    BY <1>1, <2>1 DEF Plan
  <2> QED BY <2>2, <2>3, CommitEchoes
<1>2. CASE SavePlan \/ AppendIntent
  BY <1>2, StandEchoes DEF SavePlan, AppendIntent
<1> QED BY <1>1, <1>2

LEMMA StartEchoes ==
  ASSUME IInv, AllTried, NEW n \in Node, Start(n) \/ AppendRunning(n)
  PROVE  Echoed
<1>1. CASE Start(n)
  <2>1. /\ snap # NoGraph /\ n \in ReadyNodes(snap, MaxParallelism)
        /\ snap' = StartNode(snap, n) /\ ckpt' = ckpt
    BY <1>1 DEF Start, Startable, Planned
  <2>2. snap \in Graphs /\ Quiet(snap, StartNode(snap, n))
    BY <2>1, SnapTried, StartNodeQuiet
  <2> QED BY <2>1, <2>2, QuietEchoes, CommitEchoes
<1>2. CASE AppendRunning(n)
  BY <1>2, StandEchoes DEF AppendRunning
<1> QED BY <1>1, <1>2

LEMMA ResultEchoes ==
  ASSUME IInv, AllTried, NEW n \in Node, RecordResult(n), ~GateResolved(n)
  PROVE  Echoed
<1>1. PICK amount \in Amount \cup {Unknown} :
        \/ RecordOverBudget(n, amount)
        \/ \E verdict \in Outcome : RecordRejected(n, verdict, amount)
        \/ \E output \in Output : RecordAccepted(n, output, amount)
  BY DEF RecordResult, GateResolved
<1>2. /\ snap # NoGraph /\ snap.status[n] = "RUNNING"
  BY <1>1 DEF RecordOverBudget, RecordRejected, RecordAccepted, ResultAccepted, Planned
<1>3. snap \in Graphs /\ GraphOK(snap) /\ Tried(snap)
  BY <1>2, SnapTried
<1>4. CASE RecordOverBudget(n, amount) \/ \E verdict \in Outcome : RecordRejected(n, verdict, amount)
  <2>1. snap' = FailNode(snap, n) /\ ckpt' = FailNode(snap, n)
    BY <1>4 DEF RecordOverBudget, RecordRejected, CommitFailure, CommitGraph
  <2>2. Quiet(snap, FailNode(snap, n))
    BY <1>3, FailNodeQuiet
  <2> QED BY <1>3, <2>1, <2>2, QuietEchoes, CommitEchoes
<1>5. ASSUME NEW output \in Output, RecordAccepted(n, output, amount)
      PROVE  Echoed
  <2>1. PICK m : m = AcceptNode(snap, n, output, "NONE")
    OBVIOUS
  <2>2. NodeType[n] # "GATE" /\ snap' = m /\ ckpt' = m
    BY <1>5, <2>1 DEF RecordAccepted, CommitGraph
  <2>3. Quiet(snap, m)
    BY <1>2, <1>3, <2>1, <2>2, AcceptNodeQuiet
  <2> QED BY <1>3, <2>2, <2>3, QuietEchoes, CommitEchoes
<1> QED BY <1>1, <1>4, <1>5

LEMMA SendBackEchoes ==
  ASSUME IInv, AllTried, NEW n \in Node,
         SendBackApplied(n) \/ SendBackConverged(n) \/ SendBackRefused(n)
  PROVE  Echoed
<1>1. snap \in Graphs /\ GraphOK(snap) /\ Tried(snap)
  BY SnapTried DEF SendBackApplied, SendBackConverged, SendBackRefused, SendBackDone,
         IInv, PcOK, Idle
<1>2. CASE SendBackApplied(n)
  <2>1. PICK m : m = [FailAll(snap, SendBackTargets(n)) EXCEPT !.gstatus = "RUNNING"]
    OBVIOUS
  <2>2. snap' = m /\ ckpt' = m
    BY <1>2, <2>1 DEF SendBackApplied, CommitGraph, ApplySendBack
  <2>3. Quiet(snap, m)
    BY <1>1, <2>1, TargetsAreNodes, SendBackQuiet
  <2> QED BY <1>1, <2>2, <2>3, QuietEchoes, CommitEchoes
<1>3. CASE SendBackConverged(n)
  <2>1. PICK m : m = [snap EXCEPT !.gstatus = "FAILED"]
    OBVIOUS
  <2>2. snap' = m /\ ckpt' = m
    BY <1>3, <2>1 DEF SendBackConverged, CommitGraph
  <2>3. Quiet(snap, m)
    BY <1>1, <2>1, GivenUpQuiet
  <2> QED BY <1>1, <2>2, <2>3, QuietEchoes, CommitEchoes
<1>4. CASE SendBackRefused(n)
  BY <1>4, StandEchoes DEF SendBackRefused
<1> QED BY <1>2, <1>3, <1>4

LEMMA ApprovalEchoes ==
  ASSUME IInv, AllTried, Continues, NEW n \in Node,
         \/ BeginApproval(n)
         \/ \E op \in Op, output \in Output, amount \in Amount \cup {Unknown} :
              CommitApproval(n, op, output, amount)
  PROVE  Echoed
<1>1. CASE BeginApproval(n)
  BY <1>1, StandEchoes DEF BeginApproval
<1>2. ASSUME NEW op \in Op, NEW output \in Output, NEW amount \in Amount \cup {Unknown},
             CommitApproval(n, op, output, amount)
      PROVE  Echoed
  <2>1. PICK g : g = StartNode(snap, n)
    OBVIOUS
  <2>2. snap' = ckpt' /\ snap' \in {FailNode(g, n), AcceptNode(g, n, output, "NONE")}
    BY <1>2, <2>1 DEF CommitApproval, CommitGraph
  <2>3. /\ n \in ReadyNodes(snap, MaxParallelism) /\ snap # NoGraph
        /\ op \in ApproveOps[n]
    BY <1>2 DEF CommitApproval, IInv, PcOK, Idle
  <2>4. snap \in Graphs /\ GraphOK(snap) /\ Tried(snap) /\ Sound(snap, MaxParallelism)
    BY <2>3, SnapTried, GraphsAreSound
  <2>5. Quiet(snap, g) /\ g.status[n] = "RUNNING"
    BY <2>1, <2>3, <2>4, StartNodeQuiet, StartedNode
  <2>6. GraphOK(g) /\ Tried(g)
    BY <2>5 DEF Quiet
  <2>7. NodeType[n] # "GATE"
    BY <1>2 DEF CommitApproval, Continues
  <2>8. Quiet(g, FailNode(g, n)) /\ Quiet(g, AcceptNode(g, n, output, "NONE"))
    BY <2>5, <2>6, <2>7, FailNodeQuiet, AcceptNodeQuiet
  <2>9. Quiet(snap, snap')
    BY <2>2, <2>5, <2>8, QuietTransitive
  <2> QED BY <2>2, <2>4, <2>9, QuietEchoes, CommitEchoes
<1> QED BY <1>1, <1>2

LEMMA FailureEchoes ==
  ASSUME IInv, AllTried, NEW n \in Node, NEW reason \in HostReason,
         \/ RecordFailure(n, reason)
         \/ \E amount \in Amount \cup {Unknown} : RecordMeasuredFailure(n, reason, amount)
  PROVE  Echoed
<1>1. snap # NoGraph /\ snap' = FailNode(snap, n) /\ ckpt' = FailNode(snap, n)
  BY DEF RecordFailure, RecordMeasuredFailure, CommitFailure, CommitGraph, Planned
<1>2. snap \in Graphs /\ Quiet(snap, FailNode(snap, n))
  BY <1>1, SnapTried, FailNodeQuiet
<1> QED BY <1>1, <1>2, QuietEchoes, CommitEchoes

LEMMA RetryEchoes ==
  ASSUME IInv, AllTried, NEW n \in Node, Retry(n)
  PROVE  Echoed
<1>1. snap # NoGraph /\ snap' = RetryNode(snap, n) /\ ckpt' = ckpt
  BY DEF Retry, Planned
<1>2. snap \in Graphs /\ Quiet(snap, RetryNode(snap, n))
  BY <1>1, SnapTried, RetryNodeQuiet
<1> QED BY <1>1, <1>2, QuietEchoes, CommitEchoes

LEMMA CancelEchoes ==
  ASSUME IInv, AllTried, Cancel
  PROVE  Echoed
<1>1. snap # NoGraph /\ snap' = CancelGraph(snap) /\ ckpt' = CancelGraph(snap)
  BY DEF Cancel, CommitGraph, Planned
<1>2. snap \in Graphs /\ Quiet(snap, CancelGraph(snap))
  BY <1>1, SnapTried, CancelGraphQuiet
<1> QED BY <1>1, <1>2, QuietEchoes, CommitEchoes

LEMMA ResumeEchoes ==
  ASSUME IInv, AllTried, Resume \/ ResumeConverged
  PROVE  Echoed
<1>1. ckpt \in Graphs /\ GraphOK(ckpt) /\ Tried(ckpt)
  <2>1. ckpt \in Graphs
    BY DEF Resume, ResumeConverged, Resumable, Graphs
  <2> QED BY <2>1, GraphsAreSound DEF AllTried
<1>2. CASE Resume
  <2>1. snap' = RecoverSendBacks(ckpt) /\ ckpt' = RecoverSendBacks(ckpt)
    BY <1>2 DEF Resume, CommitGraph
  <2>2. Quiet(ckpt, RecoverSendBacks(ckpt))
    BY <1>1, RecoverQuiet
  <2> QED BY <1>1, <2>1, <2>2, QuietEchoes, CommitEchoes
<1>3. CASE ResumeConverged
  <2>1. PICK m : m = [ckpt EXCEPT !.gstatus = "FAILED"]
    OBVIOUS
  <2>2. snap' = m /\ ckpt' = m
    BY <1>3, <2>1 DEF ResumeConverged, CommitGraph
  <2>3. Quiet(ckpt, m)
    BY <1>1, <2>1, GivenUpQuiet
  <2> QED BY <1>1, <2>2, <2>3, QuietEchoes, CommitEchoes
<1> QED BY <1>2, <1>3

(* Every step but the verdict of a gate leaves nothing new to tell.         *)
LEMMA NextEchoes ==
  ASSUME IInv, AllTried, Continues, [Next]_vars, \A n \in Node : ~GateResolved(n)
  PROVE  Echoed
<1>1. ASSUME NEW n \in Node, NodeStep(n) PROVE Echoed
  <2>1. CASE \E op \in Op : Prepare(n, op) \/ CommitReceipt(n, op)
    BY <2>1, StandEchoes DEF Prepare, CommitReceipt
  <2> QED BY <1>1, <2>1, StartEchoes, ResultEchoes, SendBackEchoes, ApprovalEchoes,
             FailureEchoes, RetryEchoes DEF NodeStep
<1>2. CASE (\E key \in granted : HostEffect(key)) \/ Crash \/ UNCHANGED vars \/ CheckpointReceipt
  BY <1>2, StandEchoes DEF HostEffect, Crash, CheckpointReceipt, durable, vars
<1> QED BY <1>1, <1>2, PlanEchoes, CancelEchoes, ResumeEchoes DEF Next

(* The history's own memory is that of the verdicts judged.                 *)
Remembers(told, J) ==
  /\ Recalls(told.events, J)
  /\ told.seen = {<< r.node, r.attempt, r.gate >> : r \in J}
  /\ told.gate = << >> \/ \E e \in GateTold : told.gate = << e >>

SendBacksIn(E) == Cardinality({i \in DOMAIN E : E[i].type = "send_back"})
SendBackRows(rows) == Cardinality({i \in DOMAIN rows : rows[i].boundary = "send_back"})

(* The present verdict of each gate of g is told last of it.                *)
LastTold(E, g) == \A n \in Resolved(g) : ToldLast(E, g, n)

(* A verdict was judged with the usage of its attempt, which is never used  *)
(* twice.                                                                   *)
Measured == \A r \in judged : \E u \in usage : u.node = r.node /\ u.attempt = r.attempt

History == Told(checkpoints)

(* The invariant of the history: what it tells is what was judged, a        *)
(* send_back for each of their rows, and the present verdicts last.         *)
TInv ==
  /\ \E S : checkpoints \in Seq(S)
  /\ Remembers(History, judged)
  /\ SendBacksIn(History.events) = SendBackRows(checkpoints)
  /\ AllTried /\ Measured /\ Continues
  /\ \A g \in Graphs : LastTold(History.events, g)

JudgedNow(n) == [node |-> n, attempt |-> snap.attempt[n], gate |-> snap'.verdict[n]]

(* A gate is judged alone, and its verdict is one that was not told. *)
LEMMA GateTells ==
  ASSUME IInv, RInv, TInv, NEW n \in Node, GateResolved(n), NEW v, v = JudgedNow(n),
         NEW e, e = GateEvent(ckpt', n)
  PROVE  /\ {k \in Node : GateResolved(k)} = {n}
         /\ NewGates(History.seen, ckpt') = {n} /\ Signature(ckpt', n) = << v.node, v.attempt, v.gate >>
         /\ e \in GateTold /\ VerdictOf(e) = v /\ v \notin judged
         /\ \E u \in usage' : u.node = v.node /\ u.attempt = v.attempt
         /\ \A k \in Resolved(snap') \ {n} : k \in Resolved(snap) /\ Signature(snap', k) = Signature(snap, k)
         /\ ckpt' = snap' /\ snap' # NoGraph /\ GraphOK(snap') /\ Tried(snap')
         /\ snap # NoGraph
<1>1. PICK output \in Output, verdict \in Outcome, amount \in Amount \cup {Unknown} :
        RecordGateResult(n, output, verdict, amount)
  BY DEF GateResolved
<1>2. /\ snap # NoGraph /\ snap \in Graphs /\ GraphOK(snap)
      /\ snap.status[n] = "RUNNING" /\ NodeType[n] = "GATE" /\ verdict \in GateResult
      /\ GraphOK(snap') /\ Accepted(snap, snap', n) /\ snap'.verdict[n] = verdict
      /\ ckpt' = snap' /\ snap' # NoGraph
      /\ usage' = usage \cup {UsageRow(n, snap.attempt[n], amount)}
  BY <1>1, GateStep
<1>3. Tried(snap) /\ LastTold(History.events, snap)
  BY <1>2 DEF TInv, AllTried
<1>4. ASSUME NEW u \in usage, u.node = n, u.attempt = snap.attempt[n] PROVE FALSE
  <2>1. Recorded(snap, n, snap.attempt[n])
    BY <1>2, <1>4 DEF RInv, NoResultCollision
  <2> QED BY <1>2, <2>1 DEF Recorded
<1>5. ASSUME NEW r \in judged, r.node = n, r.attempt = snap.attempt[n] PROVE FALSE
  BY <1>4, <1>5 DEF TInv, Measured
<1>6. ASSUME NEW k \in Node, GateResolved(k) PROVE k = n
  <2>1. PICK o \in Output, w \in Outcome, a \in Amount \cup {Unknown} : RecordGateResult(k, o, w, a)
    BY <1>6 DEF GateResolved
  <2>2. usage' = usage \cup {UsageRow(k, snap.attempt[k], a)}
    BY <2>1, GateStep
  <2>3. PICK x, y : x = UsageRow(n, snap.attempt[n], amount) /\ y = UsageRow(k, snap.attempt[k], a)
    OBVIOUS
  <2>4. x.node = n /\ x.attempt = snap.attempt[n] /\ y.node = k
    BY <2>3 DEF UsageRow
  <2>5. x \notin usage
    BY <1>4, <2>4
  <2>6. x = y
    BY <1>2, <2>2, <2>3, <2>5
  <2> QED BY <2>4, <2>6
<1>7. snap'.attempt = snap.attempt /\ snap'.status[n] = "ACCEPTED" /\ snap.attempt[n] >= 1
        /\ snap.attempt[n] \in Nat
  BY <1>2, <1>3 DEF Accepted, Tried, GraphOK
<1>8. ASSUME NEW k \in Resolved(snap') \ {n}
      PROVE  k \in Resolved(snap) /\ Signature(snap', k) = Signature(snap, k)
  <2>1. k \in Node /\ snap'.status[k] \in Done
    BY DEF Resolved
  <2>2. snap.status[k] \notin Waiting
    BY <1>2, <2>1 DEF Accepted, Waiting, Done
  <2>3. snap'.status[k] = snap.status[k] /\ snap'.verdict[k] = snap.verdict[k]
    BY <1>2, <2>1, <2>2 DEF Accepted
  <2> QED BY <1>7, <2>3 DEF Resolved, Signature
<1>9. n \in Resolved(snap')
  BY <1>2, <1>7 DEF Resolved, Done
<1>10. v.node = n /\ v.attempt = snap.attempt[n] /\ v.gate = verdict
  BY <1>2 DEF JudgedNow
<1>11. Signature(snap', n) = << v.node, v.attempt, v.gate >>
  BY <1>2, <1>7, <1>10 DEF Signature
<1>12. History.seen = {<< r.node, r.attempt, r.gate >> : r \in judged} /\ Recalls(History.events, judged)
  BY DEF TInv, Remembers
<1>13. Signature(snap', n) \notin History.seen
  BY <1>5, <1>10, <1>11, <1>12
<1>14. ASSUME NEW k \in Resolved(snap') \ {n} PROVE Signature(snap', k) \in History.seen
  <2>1. PICK E : E = History.events
    OBVIOUS
  <2>2. ToldLast(E, snap, k)
    BY <1>3, <1>8, <2>1 DEF LastTold
  <2>3. PICK i \in DOMAIN E : /\ E[i].type = "gate" /\ E[i].node = k
                              /\ E[i].attempt = snap.attempt[k] /\ E[i].gate = snap.verdict[k]
    BY <2>2 DEF ToldLast, TellsGate
  <2>4. PICK r \in judged : r = VerdictOf(E[i])
    BY <1>12, <2>1, <2>3 DEF Recalls
  <2>5. << r.node, r.attempt, r.gate >> = Signature(snap, k)
    BY <2>3, <2>4 DEF VerdictOf, Signature
  <2> QED BY <1>8, <1>12, <2>5
<1>15. NewGates(History.seen, snap') = {n}
  BY <1>9, <1>13, <1>14 DEF NewGates
<1>16. /\ e = [type |-> "gate", node |-> n, status |-> snap'.status[n], gate |-> verdict,
               attempt |-> snap.attempt[n], affected |-> 1]
  BY <1>2, <1>7 DEF GateEvent
<1>17. e \in GateTold /\ VerdictOf(e) = v
  BY <1>2, <1>7, <1>10, <1>16 DEF GateTold, VerdictOf, NodeStatus, JudgedNow
<1>18. v \notin judged
  BY <1>5, <1>10
<1>19. \E u \in usage' : u.node = v.node /\ u.attempt = v.attempt
  <2>1. PICK u : u = UsageRow(n, snap.attempt[n], amount)
    OBVIOUS
  <2>2. u.node = n /\ u.attempt = snap.attempt[n]
    BY <2>1 DEF UsageRow
  <2> QED BY <1>2, <1>10, <2>1, <2>2
<1>20. Tried(snap')
  <2> SUFFICES ASSUME NEW k \in Node, snap'.status[k] \in Done \cup {"RUNNING"}
               PROVE  snap'.attempt[k] >= 1
    BY DEF Tried
  <2>1. CASE k = n
    BY <1>7, <2>1
  <2>2. CASE k # n
    <3>1. snap.status[k] \notin Waiting
      BY <1>2, <2>2 DEF Accepted, Waiting, Done
    <3>2. snap.status[k] = snap'.status[k]
      BY <1>2, <2>2, <3>1 DEF Accepted
    <3> QED BY <1>3, <1>7, <3>2 DEF Tried
  <2> QED BY <2>1, <2>2
<1> QED BY <1>2, <1>6, <1>8, <1>11, <1>15, <1>17, <1>18, <1>19, <1>20

(* No step takes usage back.                                                *)
LEMMA UsageStays == [Next]_vars => usage \subseteq usage'
<1>1. ASSUME NEW n \in Node, NodeStep(n) PROVE usage \subseteq usage'
  <2>1. CASE \E op \in Op, output \in Output, amount \in Amount \cup {Unknown} :
               CommitApproval(n, op, output, amount)
    BY <2>1 DEF CommitApproval
  <2>2. CASE RecordResult(n)
    BY <2>2 DEF RecordResult, RecordOverBudget, RecordGateResult, RecordRejected,
       RecordAccepted, ResultAccepted
  <2> QED BY <1>1, <2>1, <2>2 DEF NodeStep, Start, AppendRunning, SendBackApplied, SendBackConverged,
          SendBackRefused, SendBackDone, BeginApproval, RecordFailure, RecordMeasuredFailure,
          Retry, Prepare, CommitReceipt
<1> QED BY <1>1 DEF Next, Plan, SavePlan, AppendIntent, Cancel, HostEffect, CheckpointReceipt,
        Crash, Resume, ResumeConverged, vars, durable

(* A graph that echoes one whose verdicts are told has its own told.        *)
LEMMA EchoesLast ==
  ASSUME TInv, NEW m, Echoes(m), NEW E, E = History.events
  PROVE  LastTold(E, m)
<1>1. CASE Resolved(m) = {}
  BY <1>1 DEF LastTold
<1>2. ASSUME NEW g \in Graphs, Quiet(g, m) PROVE LastTold(E, m)
  <2>1. LastTold(E, g)
    BY DEF TInv
  <2> SUFFICES ASSUME NEW n \in Resolved(m) PROVE ToldLast(E, m, n)
    BY DEF LastTold
  <2>2. n \in Resolved(g) /\ m.attempt[n] = g.attempt[n] /\ m.verdict[n] = g.verdict[n]
    BY <1>2 DEF Quiet, Signature
  <2>3. ToldLast(E, g, n)
    BY <2>1, <2>2 DEF LastTold
  <2> QED BY <2>2, <2>3 DEF ToldLast
<1> QED BY <1>1, <1>2 DEF Echoes

(* Nothing is written of the history. *)
LEMMA SilentStep ==
  ASSUME IInv, TInv, [Next]_vars, Echoed, checkpoints' = checkpoints, judged' = judged
  PROVE  TInv'
<1>1. History' = History
  BY DEF History
<1>2. \A g \in Graphs' : Tried(g) /\ LastTold(History.events, g)
  BY EchoesLast DEF Echoed, Echoes
<1>3. Measured'
  BY UsageStays DEF TInv, Measured
<1>4. Continues'
  BY ContinuesKept DEF TInv
<1>5. AllTried'
  BY <1>2 DEF AllTried
<1>6. (\A g \in Graphs : LastTold(History.events, g))'
  BY <1>1, <1>2
<1>7. /\ \E S : checkpoints \in Seq(S)
      /\ Remembers(History, judged)
      /\ SendBacksIn(History.events) = SendBackRows(checkpoints)
  BY DEF TInv
<1> QED BY <1>1, <1>3, <1>4, <1>5, <1>6, <1>7 DEF TInv

(* A row and an event are counted by their kinds.                           *)
LEMMA RowsCounted ==
  ASSUME NEW S, NEW rows \in Seq(S), NEW row
  PROVE  /\ SendBackRows(rows) \in Nat
         /\ row.boundary = "send_back" => SendBackRows(Append(rows, row)) = SendBackRows(rows) + 1
         /\ row.boundary # "send_back" => SendBackRows(Append(rows, row)) = SendBackRows(rows)
<1>1. PICK T, V : T = S \cup {row} /\ V = {r \in T : r.boundary = "send_back"}
  OBVIOUS
<1>2. rows \in Seq(T) /\ row \in T
  BY <1>1, SeqMonotonic
<1>3. Append(rows, row) \in Seq(T)
  BY <1>2
<1>4. ASSUME NEW s \in Seq(T) PROVE SendBackRows(s) = Cardinality(Places(s, V))
  <2>1. \A i \in DOMAIN s : s[i] \in T
    OBVIOUS
  <2>2. {i \in DOMAIN s : s[i].boundary = "send_back"} = Places(s, V)
    BY <1>1, <2>1 DEF Places
  <2> QED BY <2>2 DEF SendBackRows
<1>5. /\ Cardinality(Places(rows, V)) \in Nat
      /\ row \in V => Cardinality(Places(Append(rows, row), V)) = Cardinality(Places(rows, V)) + 1
      /\ row \notin V => Cardinality(Places(Append(rows, row), V)) = Cardinality(Places(rows, V))
  BY <1>2, CountAppend
<1>6. row \in V <=> row.boundary = "send_back"
  BY <1>1
<1> QED BY <1>2, <1>3, <1>4, <1>5, <1>6

LEMMA EventsCounted ==
  ASSUME NEW E \in Seq(Event), NEW e \in Event
  PROVE  /\ SendBacksIn(E) \in Nat
         /\ e.type = "send_back" => SendBacksIn(Append(E, e)) = SendBacksIn(E) + 1
         /\ e.type # "send_back" => SendBacksIn(Append(E, e)) = SendBacksIn(E)
<1>1. PICK V : V = {x \in Event : x.type = "send_back"}
  OBVIOUS
<1>2. Append(E, e) \in Seq(Event)
  OBVIOUS
<1>3. ASSUME NEW s \in Seq(Event) PROVE SendBacksIn(s) = Cardinality(Places(s, V))
  <2>1. \A i \in DOMAIN s : s[i] \in Event
    OBVIOUS
  <2>2. {i \in DOMAIN s : s[i].type = "send_back"} = Places(s, V)
    BY <1>1, <2>1 DEF Places
  <2> QED BY <2>2 DEF SendBacksIn
<1>4. /\ Cardinality(Places(E, V)) \in Nat
      /\ e \in V => Cardinality(Places(Append(E, e), V)) = Cardinality(Places(E, V)) + 1
      /\ e \notin V => Cardinality(Places(Append(E, e), V)) = Cardinality(Places(E, V))
  BY CountAppend
<1>5. e \in V <=> e.type = "send_back"
  BY <1>1
<1> QED BY <1>2, <1>3, <1>4, <1>5

(* A row that is appended is told.                                          *)
LEMMA RowTold ==
  ASSUME TInv, NEW row, checkpoints' = Append(checkpoints, row)
  PROVE  History' = Tell(History, row) /\ \E S : checkpoints' \in Seq(S)
<1>1. PICK S : checkpoints \in Seq(S)
  BY DEF TInv
<1>2. PICK T : T = S \cup {row}
  OBVIOUS
<1>3. checkpoints \in Seq(T) /\ row \in T
  BY <1>1, <1>2, SeqMonotonic
<1>4. Told(checkpoints') = Tell(Told(checkpoints), row)
  BY <1>3, ToldAppend
<1>5. checkpoints' \in Seq(T)
  BY <1>3
<1> QED BY <1>4, <1>5 DEF History

(* What the history is after a gate's verdict, and after a send_back. *)
LEMMA GateHistory ==
  ASSUME IInv, RInv, TInv, NEW n \in Node, GateResolved(n), NEW row,
         row = [boundary |-> "gate_resolution", ir |-> ckpt'],
         checkpoints' = Append(checkpoints, row), NEW e, e = GateEvent(ckpt', n)
  PROVE  History' = [events |-> Append(History.events, e),
                     seen |-> History.seen \cup {Signature(ckpt', n)},
                     gate |-> << e >>, before |-> ckpt']
<1>1. History' = Tell(History, row)
  BY RowTold
<1>2. NewGates(History.seen, ckpt') = {n}
  BY GateTells
<1>3. History.events \in Seq(Event)
  BY DEF TInv, Remembers, Recalls
<1>4. PICK ir, told : ir = ckpt' /\ told = History
  OBVIOUS
<1>5. Tell(told, row) = [events |-> Append(told.events, e),
                         seen |-> told.seen \cup {Signature(ir, n)}, gate |-> << e >>, before |-> ir]
  BY <1>2, <1>3, <1>4, TellGate
<1> QED BY <1>1, <1>4, <1>5

(* A verdict keeps the invariant.                                           *)
LEMMA GateStepTold ==
  ASSUME IInv, RInv, TInv, [Next]_vars, NEW n \in Node, GateResolved(n), NEW row,
         row = [boundary |-> "gate_resolution", ir |-> ckpt'],
         checkpoints' = Append(checkpoints, row), judged' = judged \cup {JudgedNow(n)}
  PROVE  TInv'
<1>1. PICK e, v : e = GateEvent(ckpt', n) /\ v = JudgedNow(n)
  OBVIOUS
<1>2. PICK E : E = History.events
  OBVIOUS
<1>3. /\ Signature(ckpt', n) = << v.node, v.attempt, v.gate >>
      /\ e \in GateTold /\ VerdictOf(e) = v /\ v \notin judged
      /\ \E u \in usage' : u.node = v.node /\ u.attempt = v.attempt
      /\ \A k \in Resolved(snap') \ {n} : k \in Resolved(snap) /\ Signature(snap', k) = Signature(snap, k)
      /\ ckpt' = snap' /\ snap' # NoGraph /\ GraphOK(snap') /\ Tried(snap')
      /\ snap # NoGraph
  BY <1>1, GateTells
<1>4. History' = [events |-> Append(E, e), seen |-> History.seen \cup {Signature(ckpt', n)},
                  gate |-> << e >>, before |-> ckpt']
  BY <1>1, <1>2, GateHistory
<1>5. /\ Recalls(E, judged) /\ History.seen = {<< r.node, r.attempt, r.gate >> : r \in judged}
      /\ SendBacksIn(E) = SendBackRows(checkpoints) /\ Measured
      /\ LastTold(E, snap)
  <2>1. snap \in Graphs
    BY <1>3 DEF Graphs
  <2> QED BY <1>2, <2>1 DEF TInv, Remembers
<1>6. judged' = judged \cup {v}
  BY <1>1
<1>7. Remembers(History', judged')
  <2>1. Recalls(Append(E, e), judged \cup {v})
    BY <1>3, <1>5, VerdictRecalled
  <2>2. History.seen \cup {Signature(ckpt', n)} = {<< r.node, r.attempt, r.gate >> : r \in judged \cup {v}}
    BY <1>3, <1>5
  <2> QED BY <1>3, <1>4, <1>6, <2>1, <2>2 DEF Remembers
<1>8. E \in Seq(Event) /\ e \in Event /\ e.type = "gate" /\ e.node = n
  BY <1>1, <1>3, <1>5 DEF Recalls, Event, GateTold, GateEvent
<1>9. SendBacksIn(Append(E, e)) = SendBackRows(checkpoints')
  <2>1. PICK S : checkpoints \in Seq(S)
    BY DEF TInv
  <2>2. SendBackRows(checkpoints') = SendBackRows(checkpoints)
    BY <2>1, RowsCounted
  <2>3. SendBacksIn(Append(E, e)) = SendBacksIn(E)
    BY <1>8, EventsCounted
  <2> QED BY <1>5, <2>2, <2>3
<1>10. LastTold(Append(E, e), snap')
  <2> SUFFICES ASSUME NEW k \in Resolved(snap') PROVE ToldLast(Append(E, e), snap', k)
    BY DEF LastTold
  <2>1. CASE k = n
    <3>1. PICK ir : ir = snap'
      OBVIOUS
    <3> QED BY <1>1, <1>3, <1>8, <2>1, <3>1, GateLast
  <2>2. CASE k # n
    <3>1. k \in Resolved(snap) /\ snap'.attempt[k] = snap.attempt[k] /\ snap'.verdict[k] = snap.verdict[k]
      BY <1>3, <2>2 DEF Signature
    <3>2. ToldLast(E, snap, k)
      BY <1>5, <3>1 DEF LastTold
    <3>3. ToldLast(E, snap', k)
      BY <3>1, <3>2 DEF ToldLast
    <3>4. ~TellsGate(e, k)
      BY <1>8, <2>2 DEF TellsGate
    <3>5. PICK ir : ir = snap'
      OBVIOUS
    <3> QED BY <1>8, <3>3, <3>4, <3>5, OtherLast
  <2> QED BY <2>1, <2>2
<1>11. Graphs' = {snap'}
  BY <1>3 DEF Graphs
<1>12. AllTried' /\ (\A g \in Graphs : LastTold(History.events, g))'
  BY <1>3, <1>4, <1>10, <1>11 DEF AllTried
<1>13. Measured'
  BY <1>3, <1>5, <1>6, UsageStays DEF Measured
<1>14. Continues'
  BY ContinuesKept DEF TInv
<1>15. (\E S : checkpoints \in Seq(S))'
  BY RowTold
<1>16. (SendBacksIn(History.events) = SendBackRows(checkpoints))'
  BY <1>4, <1>9
<1> QED BY <1>7, <1>12, <1>13, <1>14, <1>15, <1>16 DEF TInv

LEMMA SendBackHistory ==
  ASSUME TInv, NEW row, row = [boundary |-> "send_back", ir |-> ckpt'],
         checkpoints' = Append(checkpoints, row)
  PROVE  History' = [events |-> Append(History.events, SendBackEvent(History, ckpt')),
                     seen |-> History.seen, gate |-> << >>, before |-> NoGraph]
<1>1. History' = Tell(History, row)
  BY RowTold
<1>2. PICK ir, told : ir = ckpt' /\ told = History
  OBVIOUS
<1>3. Tell(told, row) = [events |-> Append(told.events, SendBackEvent(told, ir)),
                         seen |-> told.seen, gate |-> << >>, before |-> NoGraph]
  BY <1>2, TellSendBack
<1> QED BY <1>1, <1>2, <1>3

(* A send_back keeps it, which may take back what was told.                 *)
LEMMA SendBackStepTold ==
  ASSUME IInv, TInv, [Next]_vars, Echoed, GraphOK(ckpt'), NEW row,
         row = [boundary |-> "send_back", ir |-> ckpt'],
         checkpoints' = Append(checkpoints, row), judged' = judged
  PROVE  TInv'
<1>1. PICK e, E : e = SendBackEvent(History, ckpt') /\ E = History.events
  OBVIOUS
<1>2. History' = [events |-> Append(E, e), seen |-> History.seen, gate |-> << >>, before |-> NoGraph]
  BY <1>1, SendBackHistory
<1>3. /\ Recalls(E, judged) /\ History.seen = {<< r.node, r.attempt, r.gate >> : r \in judged}
      /\ History.gate = << >> \/ \E f \in GateTold : History.gate = << f >>
      /\ SendBacksIn(E) = SendBackRows(checkpoints)
  BY <1>1 DEF TInv, Remembers
<1>4. e \in SendBackTold
  <2>1. PICK ir, told : ir = ckpt' /\ told = History
    OBVIOUS
  <2> QED BY <1>1, <1>3, <2>1, SendBackEventTyped
<1>5. E \in Seq(Event) /\ e \in Event /\ e.type = "send_back"
  BY <1>3, <1>4 DEF Recalls, Event, SendBackTold
<1>6. Remembers(History', judged')
  BY <1>2, <1>3, <1>4, SendBackRecalled DEF Remembers
<1>7. SendBacksIn(Append(E, e)) = SendBackRows(checkpoints')
  <2>1. PICK S : checkpoints \in Seq(S)
    BY DEF TInv
  <2>2. SendBackRows(checkpoints') = SendBackRows(checkpoints) + 1
    BY <2>1, RowsCounted
  <2>3. SendBacksIn(Append(E, e)) = SendBacksIn(E) + 1
    BY <1>5, EventsCounted
  <2> QED BY <1>3, <2>2, <2>3
<1>8. \A g \in Graphs' : Tried(g) /\ LastTold(E, g)
  BY <1>1, EchoesLast DEF Echoed, Echoes
<1>9. ASSUME NEW g, LastTold(E, g) PROVE LastTold(Append(E, e), g)
  <2>1. \A k : ~TellsGate(e, k)
    BY <1>5 DEF TellsGate
  <2> QED BY <1>5, <1>9, <2>1, OtherLast DEF LastTold
<1>10. AllTried' /\ (\A g \in Graphs : LastTold(History.events, g))'
  BY <1>2, <1>8, <1>9 DEF AllTried
<1>11. Measured'
  BY UsageStays DEF TInv, Measured
<1>12. Continues'
  BY ContinuesKept DEF TInv
<1>13. (\E S : checkpoints \in Seq(S))'
  BY RowTold
<1>14. (SendBacksIn(History.events) = SendBackRows(checkpoints))'
  BY <1>2, <1>7
<1> QED BY <1>6, <1>10, <1>11, <1>12, <1>13, <1>14 DEF TInv

(* A checkpoint is appended or nothing is.                                  *)
LEMMA OneRow ==
  ASSUME TInv, NEW row
  PROVE  checkpoints \o << row >> = Append(checkpoints, row) /\ checkpoints \o << >> = checkpoints
<1>1. PICK S : checkpoints \in Seq(S)
  BY DEF TInv
<1>2. checkpoints \in Seq(S \cup {row}) /\ row \in S \cup {row}
  BY <1>1, SeqMonotonic
<1> QED BY <1>1, <1>2, AppendIsConcat, ConcatEmptySeq

(* What the history gets of a step. *)
GateJudged(n) ==
  /\ GateResolved(n)
  /\ checkpoints' = Append(checkpoints, [boundary |-> "gate_resolution", ir |-> ckpt'])
  /\ judged' = judged \cup {JudgedNow(n)}

SentBackTold ==
  /\ SentBack /\ \A n \in Node : ~GateResolved(n)
  /\ checkpoints' = Append(checkpoints, [boundary |-> "send_back", ir |-> ckpt'])
  /\ judged' = judged

Silent ==
  /\ UNCHANGED vars \/ \A n \in Node : ~GateResolved(n)
  /\ checkpoints' = checkpoints /\ judged' = judged

(* The three ways a step goes into the history.                             *)
LEMMA StepsTold ==
  ASSUME IInv, RInv, TInv, [TelemetryNext]_<< vars, telemetryVars >>
  PROVE  [Next]_vars /\ ((\E n \in Node : GateJudged(n)) \/ SentBackTold \/ Silent)
<1>1. CASE UNCHANGED << vars, telemetryVars >>
  BY <1>1 DEF Silent, telemetryVars
<1>2. CASE TelemetryNext
  <2>1. PICK R : R = {n \in Node : GateResolved(n)}
    OBVIOUS
  <2>2. /\ Next
        /\ checkpoints' = checkpoints \o (IF R # {} THEN BoundaryRow("gate_resolution")
                                          ELSE IF SentBack THEN BoundaryRow("send_back")
                                          ELSE << >>)
        /\ judged' = judged \cup {JudgedNow(n) : n \in R}
    BY <1>2, <2>1 DEF TelemetryNext, JudgedNow
  <2>3. ASSUME NEW n \in R PROVE GateJudged(n)
    <3>1. R = {n} /\ GateResolved(n) /\ n \in Node
      BY <2>1, GateTells
    <3>2. R # {} /\ {JudgedNow(k) : k \in R} = {JudgedNow(n)}
      BY <3>1
    <3>3. checkpoints' = checkpoints \o << [boundary |-> "gate_resolution", ir |-> ckpt'] >>
      BY <2>2, <3>2 DEF BoundaryRow
    <3> QED BY <2>2, <3>1, <3>2, <3>3, OneRow DEF GateJudged
  <2>4. CASE R = {} /\ SentBack
    <3>1. checkpoints' = checkpoints \o << [boundary |-> "send_back", ir |-> ckpt'] >>
      BY <2>2, <2>4 DEF BoundaryRow
    <3> QED BY <2>1, <2>2, <2>4, <3>1, OneRow DEF SentBackTold
  <2>5. CASE R = {} /\ ~SentBack
    BY <2>1, <2>2, <2>5, OneRow DEF Silent
  <2> QED BY <2>1, <2>2, <2>3, <2>4, <2>5
<1> QED BY <1>1, <1>2

(* A send_back leaves one graph, in the store and in the process.           *)
LEMMA SentBackCommits ==
  ASSUME IInv, SentBack
  PROVE  GraphOK(ckpt') /\ ckpt' = snap' /\ ckpt' # NoGraph
<1>1. ASSUME NEW n \in Node, SendBackApplied(n) PROVE GraphOK(ckpt') /\ ckpt' = snap'
  <2>1. GraphOK(snap) /\ ckpt' = ApplySendBack(snap, n) /\ snap' = ckpt'
    BY <1>1, SoundIsGraph DEF SendBackApplied, SendBackDone, CommitGraph, IInv, GraphsSound, PcOK, Idle
  <2>2. GraphOK(ApplySendBack(snap, n))
    BY <2>1, TargetsAreNodes, ApplySendBackFields DEF ApplySendBack
  <2> QED BY <2>1, <2>2
<1>2. ASSUME Resume PROVE GraphOK(ckpt') /\ ckpt' = snap'
  <2>1. GraphOK(ckpt) /\ ckpt' = RecoverSendBacks(ckpt) /\ snap' = ckpt'
    BY <1>2, SoundIsGraph DEF Resume, Resumable, CommitGraph, IInv, GraphsSound
  <2>2. GraphOK(RecoverSendBacks(ckpt))
    BY <2>1, RecoverSendBacksKept DEF Kept
  <2> QED BY <2>1, <2>2
<1>3. GraphOK(ckpt') /\ ckpt' = snap'
  BY <1>1, <1>2 DEF SentBack
<1> QED BY <1>3 DEF GraphOK, NoGraph, GraphStatus

LEMMA StillTold ==
  ASSUME TInv, UNCHANGED vars, checkpoints' = checkpoints, judged' = judged
  PROVE  TInv'
<1>1. Graphs' = Graphs /\ usage' = usage /\ pc' = pc /\ snap' = snap /\ History' = History
  BY DEF Graphs, vars, durable, History
<1> QED BY <1>1 DEF TInv, Measured, AllTried, Continues, PendingSendBack

LEMMA TInitially == TelemetryInit => TInv
<1> SUFFICES ASSUME TelemetryInit PROVE TInv
  OBVIOUS
<1>1. Init /\ checkpoints = << >> /\ judged = {}
  BY DEF TelemetryInit
<1>2. History = ToldNothing
  BY <1>1, ToldFirst DEF History
<1>3. /\ History.events = << >> /\ History.seen = {} /\ History.gate = << >>
  BY <1>2 DEF ToldNothing
<1>4. Recalls(<< >>, {})
  <2>1. \A gate : GatesTold(<< >>, gate) = Cardinality({})
    <3>1. \A gate : {i \in DOMAIN << >> : << >>[i].type = "gate" /\ << >>[i].gate = gate} = {}
      OBVIOUS
    <3> QED BY <3>1 DEF GatesTold
  <2>2. IsFiniteSet({}) /\ Cardinality({}) = 0
    BY FS_EmptySet
  <2>3. Summed(<< >>, {})
    BY <2>1, <2>2 DEF Summed
  <2>4. << >> \in Seq(Event)
    OBVIOUS
  <2> QED BY <2>2, <2>3, <2>4 DEF Recalls
<1>5. Remembers(History, judged)
  BY <1>1, <1>3, <1>4 DEF Remembers
<1>6. SendBacksIn(History.events) = SendBackRows(checkpoints)
  <2>1. {i \in DOMAIN << >> : << >>[i].type = "send_back"} = {}
    OBVIOUS
  <2>2. {i \in DOMAIN << >> : << >>[i].boundary = "send_back"} = {}
    OBVIOUS
  <2> QED BY <1>1, <1>3, <2>1, <2>2 DEF SendBacksIn, SendBackRows
<1>7. Graphs = {} /\ pc = Idle
  BY <1>1 DEF Init, Graphs
<1>8. AllTried /\ Continues /\ \A g \in Graphs : LastTold(History.events, g)
  BY <1>7 DEF AllTried, Continues, Idle
<1>9. Measured
  BY <1>1 DEF Measured
<1>10. \E S : checkpoints \in Seq(S)
  <2>1. << >> \in Seq(Node)
    OBVIOUS
  <2> QED BY <1>1, <2>1
<1> QED BY <1>5, <1>6, <1>8, <1>9, <1>10 DEF TInv

(* The history only watches: the engine steps as without it.                *)
LEMMA TelemetryIsEngine == TelemetrySpec => Spec
<1>1. TelemetryInit => Init
  BY DEF TelemetryInit
<1>2. [TelemetryNext]_<< vars, telemetryVars >> => [Next]_vars
  BY DEF TelemetryNext
<1> QED BY <1>1, <1>2, PTL DEF TelemetrySpec, Spec

(* Every state keeps the invariant of the history.                          *)
THEOREM HistoryIsKept == TelemetrySpec => []TInv
<1>1. IInv /\ RInv /\ TInv /\ [TelemetryNext]_<< vars, telemetryVars >> => TInv'
  <2> SUFFICES ASSUME IInv, RInv, TInv, [TelemetryNext]_<< vars, telemetryVars >> PROVE TInv'
    OBVIOUS
  <2>1. [Next]_vars /\ ((\E n \in Node : GateJudged(n)) \/ SentBackTold \/ Silent)
    BY StepsTold
  <2>2. ASSUME NEW n \in Node, GateJudged(n) PROVE TInv'
    BY <2>1, <2>2, GateStepTold DEF GateJudged
  <2>3. CASE SentBackTold
    <3>1. Echoed
      BY <2>1, <2>3, NextEchoes DEF TInv, SentBackTold
    <3> QED BY <2>1, <2>3, <3>1, SentBackCommits, SendBackStepTold DEF SentBackTold
  <2>4. CASE Silent
    <3>1. CASE UNCHANGED vars
      BY <2>4, <3>1, StillTold DEF Silent
    <3>2. CASE \A n \in Node : ~GateResolved(n)
      <4>1. Echoed
        BY <2>1, <3>2, NextEchoes DEF TInv
      <4> QED BY <2>1, <2>4, <4>1, SilentStep DEF Silent
    <3> QED BY <2>4, <3>1, <3>2 DEF Silent
  <2> QED BY <2>1, <2>2, <2>3, <2>4
<1> QED BY <1>1, TInitially, TelemetryIsEngine, Invariance, Recovery, PTL DEF TelemetrySpec

(* The projection of a history that keeps it does not raise.                *)
LEMMA HistoryProjects ==
  ASSUME TInv
  PROVE  HistoryExports
<1>1. PICK E : E = TransitionEvents(checkpoints)
  OBVIOUS
<1>2. E = History.events
  BY <1>1 DEF TransitionEvents, History
<1>3. E \in Seq(Event) /\ SendBacksIn(E) = SendBackRows(checkpoints)
  BY <1>2 DEF TInv, Remembers, Recalls
<1>4. ASSUME NEW i \in DOMAIN E PROVE Projectable(E[i])
  <2>1. E[i] \in Event
    BY <1>3
  <2> QED BY <2>1 DEF Projectable, Event, GateTold, SendBackTold
<1>5. RunRow(snap, E).send_backs = SendBacksIn(E)
  BY DEF RunRow, SendBacksIn
<1> QED BY <1>1, <1>3, <1>4, <1>5 DEF HistoryExports, SendBackRows

(* An accepted graph ends on a verdict that stands.                         *)
LEMMA AcceptedResolved ==
  ASSUME IInv, TInv, snap # NoGraph, snap.gstatus = "ACCEPTED"
  PROVE  snap.verdict[GlobalGate] = "PASS" /\ GlobalGate \in Resolved(snap)
<1>1. snap \in Graphs
  BY DEF Graphs
<1>2. GloballyAccepted(snap) /\ Tried(snap)
  BY <1>1, GraphsAreSound DEF Sound, AcceptedSound, TInv, AllTried
<1>3. GlobalGate \in Node /\ NodeType[GlobalGate] = "GATE"
  BY Compiled DEF GlobalGateIsSink
<1> QED BY <1>2, <1>3 DEF GloballyAccepted, Resolved, Done, GateResult, Tried

(* It tells every verdict once, and the present ones last.                  *)
LEMMA VerdictsAreTold ==
  ASSUME IInv, TInv, snap # NoGraph
  PROVE  VerdictsTold
<1>1. PICK E, X, R : E = TransitionEvents(checkpoints) /\ X = Export(E).events /\ R = Export(E).run
  OBVIOUS
<1>2. X = GraphEvents(snap, E) /\ R = RunRow(snap, E)
  BY <1>1 DEF Export
<1>3. E = History.events
  BY <1>1 DEF TransitionEvents, History
<1>4. Recalls(E, judged)
  BY <1>3 DEF TInv, Remembers
<1>5. E \in Seq(Event)
  BY <1>4 DEF Recalls
<1>6. PICK off : Lies(E, X, off)
  <2>1. PICK g : g = snap
    OBVIOUS
  <2> QED BY <1>2, <1>5, <2>1, Exported
<1>7. ASSUME NEW r \in judged PROVE Cardinality(TellsOf(X, r)) = 1
  <2>1. PICK i : TellsOf(E, r) = {i}
    BY <1>4 DEF Recalls
  <2> QED BY <1>6, <2>1, ExportedOnce
<1>8. R.gate_pass + R.gate_fail + R.gate_inconclusive = Cardinality(judged)
  <2>1. /\ R.gate_pass = GatesTold(E, "PASS") /\ R.gate_fail = GatesTold(E, "FAIL")
        /\ R.gate_inconclusive = GatesTold(E, "INCONCLUSIVE")
    BY <1>2 DEF RunRow
  <2> QED BY <1>4, <2>1 DEF Recalls, Summed
<1>9. ASSUME NEW n \in Resolved(snap) PROVE ToldLast(X, snap, n)
  <2>1. PICK g : g = snap /\ g \in Graphs
    BY DEF Graphs
  <2>2. ToldLast(E, g, n)
    BY <1>3, <1>9, <2>1 DEF TInv, LastTold
  <2>3. ToldLast(X, g, n)
    BY <1>6, <2>2, ExportedLast
  <2> QED BY <2>1, <2>3
<1>10. snap.gstatus = "ACCEPTED" =>
         snap.verdict[GlobalGate] = "PASS" /\ ToldLast(X, snap, GlobalGate)
  BY <1>9, AcceptedResolved
<1> QED BY <1>1, <1>7, <1>8, <1>9, <1>10 DEF VerdictsTold

(* In every state the history can be exported, with a send_back for each    *)
(* of their checkpoints, and it tells every verdict that was accepted of a  *)
(* gate once, in its events and its counts, and the present one of a gate   *)
(* last: through send_backs that take verdicts away, crashes and resumes.   *)
THEOREM VerdictsAreExported ==
  TelemetrySpec => [](snap # NoGraph => HistoryExports /\ VerdictsTold)
<1>1. IInv /\ TInv => (snap # NoGraph => HistoryExports /\ VerdictsTold)
  BY HistoryProjects, VerdictsAreTold
<1> QED BY <1>1, HistoryIsKept, TelemetryIsEngine, Invariance, PTL

(* What the attribution of a send_back needs: one gate sends back, so no    *)
(* other makes the history forget it, and no join, so the send_back fails   *)
(* all that lies between its targets and the gate.                          *)
OneLoop == \A b, c \in SendBack : b.from = c.from
Mergeless == \A n \in Node : NodeType[n] # "MERGE"

(* The gate of a send_back that is owed is known, from a graph in which     *)
(* its targets had not failed.                                              *)
Foretold(told, n) ==
  /\ told.gate # << >> /\ told.before # NoGraph
  /\ told.before.status[n] \in Done
  /\ \A t \in SendBackTargets(n) : told.before.status[t] # "FAILED"

(* A send_back is told with a gate, and with more nodes than its targets.   *)
Attributed(e) ==
  /\ e.node # NoNode
  /\ \E n \in Node : SendBackTargets(n) # {} /\ e.affected > Cardinality(SendBackTargets(n))

(* The gate n owes a send_back, in the store or in the process.             *)
Owed(n) == \E g \in Graphs : PendingSendBack(g, n)

(* Every send_back that is owed is foretold, and every one told             *)
(* attributed.                                                              *)
LInv ==
  /\ \A n \in Node : Owed(n) => Foretold(History, n)
  /\ \A i \in DOMAIN History.events :
       History.events[i].type = "send_back" => Attributed(History.events[i])

(* Without a join all that a finished node depends on has finished.         *)
LEMMA DoneUpstream ==
  ASSUME Mergeless, NEW g, EdgesHold(g), NEW n \in Node, g.status[n] \in Done,
         NEW t \in Node, n \in Downstream[t]
  PROVE  g.status[t] \in Done
<1> DEFINE T == {m \in Node : g.status[m] \notin Done}
<1> SUFFICES ASSUME g.status[t] \notin Done PROVE FALSE
  OBVIOUS
<1>1. ASSUME NEW m \in Node, g.status[m] \notin Done, NEW c \in Children[m] PROVE c \in T
  <2>1. PICK d \in Edge : d.from = m /\ d.to = c
    BY DEF Children
  <2>2. c \in Node
    BY <2>1, Compiled DEF EdgesTyped
  <2>3. g.status[c] \in Done => PredecessorReady(g, m, c)
    BY <2>1 DEF EdgesHold
  <2> QED BY <1>1, <2>2, <2>3 DEF PredecessorReady, Mergeless
<1>2. Children[t] \subseteq T
  BY <1>1
<1>3. ClosedUnderChildren(T)
  BY <1>1 DEF ClosedUnderChildren
<1>4. n \in T
  <2>1. T \in SUBSET Node
    OBVIOUS
  <2> HIDE DEF T
  <2> QED BY <1>2, <1>3, <2>1, DownstreamLeast
<1> QED BY <1>4

(* A send_back goes to a node upstream of its gate.                         *)
LEMMA TargetsUpstream ==
  ASSUME NEW n, NEW t \in SendBackTargets(n)
  PROVE  t \in Node /\ n \in Node /\ n \in Downstream[t] /\ t # n
<1>1. PICK b \in SendBack : b.from = n /\ b.to = t
  BY DEF SendBackTargets
<1>2. t \in Node /\ n \in Node /\ n \in Downstream[t]
  BY <1>1, Compiled DEF SendBackBounded
<1>3. t \notin Downstream[t]
  BY <1>2, Compiled DEF Acyclic
<1> QED BY <1>2, <1>3

LEMMA PendingResolved ==
  ASSUME NEW g, Tried(g), NEW n \in Node, PendingSendBack(g, n)
  PROVE  n \in Resolved(g)
BY DEF PendingSendBack, Tried, Resolved, GateResult, Done

LEMMA PendingQuiet ==
  ASSUME NEW g, NEW m, Quiet(g, m), NEW n \in Node, PendingSendBack(m, n)
  PROVE  PendingSendBack(g, n)
<1>1. n \in Resolved(g) /\ m.verdict[n] = g.verdict[n]
  BY PendingResolved DEF Quiet, Signature
<1> QED BY <1>1 DEF PendingSendBack, Resolved

(* What a graph owes is owed by the graphs it echoes.                       *)
LEMMA PendingEchoes ==
  ASSUME NEW m, Echoes(m), NEW n \in Node, PendingSendBack(m, n)
  PROVE  Owed(n)
<1>1. n \in Resolved(m)
  BY PendingResolved DEF Echoes
<1> QED BY <1>1, PendingQuiet DEF Echoes, Owed

(* A send_back leaves none owed, and takes back the gate it is owed by.     *)
LEMMA FailedTakesBack ==
  ASSUME NEW g, NEW m, NEW S \in SUBSET Node, Failed(g, m, S), NEW n \in Node,
         SendBackTargets(n) # {}, SendBackTargets(n) \subseteq S
  PROVE  /\ \A t \in SendBackTargets(n) : m.status[t] = "FAILED"
         /\ m.status[n] \notin Done
<1>1. PICK t \in SendBackTargets(n) : n \in Downstream[t]
  BY TargetsUpstream
<1>2. n \in DownstreamOf(S)
  BY <1>1 DEF DownstreamOf
<1> QED BY <1>2 DEF Failed, Success

(* So does the transaction of send_back.                                    *)
LEMMA AppliedTakesBack ==
  ASSUME OneLoop, IInv, TInv, NEW n \in Node, SendBackApplied(n)
  PROVE  /\ Owed(n) /\ SendBackTargets(n) # {}
         /\ \A t \in SendBackTargets(n) : ckpt'.status[t] = "FAILED"
         /\ ckpt'.status[n] \notin Done
         /\ \A k \in Node : ~PendingSendBack(ckpt', k)
<1>1. /\ snap # NoGraph /\ PendingSendBack(snap, n) /\ ckpt' = ApplySendBack(snap, n)
  BY DEF SendBackApplied, SendBackDone, CommitGraph, IInv, PcOK, TInv, Continues, Idle
<1>2. snap \in Graphs /\ GraphOK(snap) /\ Tried(snap)
  BY <1>1, SnapTried DEF TInv
<1>3. Owed(n) /\ SendBackTargets(n) # {}
  BY <1>1, <1>2 DEF Owed, PendingSendBack
<1>4. SendBackTargets(n) \in SUBSET Node
  BY TargetsAreNodes
<1>5. PICK m : m = [FailAll(snap, SendBackTargets(n)) EXCEPT !.gstatus = "RUNNING"]
  OBVIOUS
<1>6. ckpt' = m /\ Failed(snap, m, SendBackTargets(n)) /\ Quiet(snap, m)
  BY <1>1, <1>2, <1>4, <1>5, ApplySendBackFields, SendBackQuiet DEF ApplySendBack
<1>7. (\A t \in SendBackTargets(n) : m.status[t] = "FAILED") /\ m.status[n] \notin Done
  BY <1>3, <1>4, <1>6, FailedTakesBack
<1>8. ASSUME NEW k \in Node, PendingSendBack(m, k) PROVE FALSE
  <2>1. PICK b, c \in SendBack : b.from = n /\ c.from = k
    BY <1>3, <1>8 DEF PendingSendBack, SendBackTargets
  <2>2. k = n
    BY <2>1 DEF OneLoop
  <2> QED BY <1>7, <1>8, <2>2 DEF PendingSendBack
<1> QED BY <1>3, <1>6, <1>7, <1>8

(* And the recovery of resume.                                              *)
LEMMA ResumeTakesBack ==
  ASSUME IInv, TInv, Resume, PendingSources(ckpt) # {}
  PROVE  /\ \E n \in Node :
              /\ Owed(n) /\ SendBackTargets(n) # {}
              /\ \A t \in SendBackTargets(n) : ckpt'.status[t] = "FAILED"
              /\ ckpt'.status[n] \notin Done
         /\ \A k \in Node : ~PendingSendBack(ckpt', k)
<1>1. ckpt \in Graphs /\ ckpt' = RecoverSendBacks(ckpt)
  BY DEF Resume, Resumable, CommitGraph, Graphs
<1>2. GraphOK(ckpt)
  BY <1>1, GraphsAreSound
<1>3. PICK n \in PendingSources(ckpt) : TRUE
  OBVIOUS
<1>4. n \in Node
  BY <1>3 DEF PendingSources
<1>5. PendingSendBack(ckpt, n)
  BY <1>3, <1>4, PendingSourcesUnfold
<1>6. Owed(n) /\ SendBackTargets(n) # {}
  BY <1>1, <1>5 DEF Owed, PendingSendBack
<1>7. PICK S : S = TargetsOf(PendingSources(ckpt))
  OBVIOUS
<1>8. S \in SUBSET Node /\ SendBackTargets(n) \subseteq S
  BY <1>3, <1>7, TargetsAreNodes DEF TargetsOf
<1>9. PICK m : m = [FailAll(ckpt, S) EXCEPT !.gstatus = "RUNNING"]
  OBVIOUS
<1>10. ckpt' = m /\ Failed(ckpt, m, S)
  BY <1>1, <1>2, <1>7, <1>8, <1>9, ApplySendBackFields DEF RecoverSendBacks
<1>11. (\A t \in SendBackTargets(n) : m.status[t] = "FAILED") /\ m.status[n] \notin Done
  BY <1>4, <1>6, <1>8, <1>10, FailedTakesBack
<1>12. \A k \in Node : ~PendingSendBack(ckpt', k)
  BY <1>1, <1>2, NoneIsOwed
<1> QED BY <1>4, <1>6, <1>10, <1>11, <1>12

LEMMA SentBackTakesBack ==
  ASSUME OneLoop, IInv, TInv, SentBack
  PROVE  /\ \E n \in Node :
              /\ Owed(n) /\ SendBackTargets(n) # {}
              /\ \A t \in SendBackTargets(n) : ckpt'.status[t] = "FAILED"
              /\ ckpt'.status[n] \notin Done
         /\ \A k \in Node : ~PendingSendBack(ckpt', k)
BY AppliedTakesBack, ResumeTakesBack DEF SentBack

(* A send_back that was foretold is attributed.                             *)
LEMMA SendBackAttributed ==
  ASSUME NEW told, told.gate = << >> \/ \E f \in GateTold : told.gate = << f >>,
         NEW n \in Node, Foretold(told, n), SendBackTargets(n) # {}, NEW ir,
         \A t \in SendBackTargets(n) : ir.status[t] = "FAILED", ir.status[n] \notin Done
  PROVE  Attributed(SendBackEvent(told, ir))
<1>1. PICK f \in GateTold : told.gate = << f >>
  BY DEF Foretold
<1>2. told.gate # << >> /\ Last(told.gate) = f /\ f.node \in Node
  BY <1>1 DEF Last, GateTold, Foretold
<1>3. PICK T, A : T = SendBackTargets(n) /\ A = Affected(told.before, ir)
  OBVIOUS
<1>4. T \cup {n} \subseteq A
  <2>1. \A t \in T : t \in Node
    BY <1>3, TargetsUpstream
  <2> QED BY <1>3, <2>1 DEF Affected, Foretold
<1>5. n \notin T
  BY <1>3, TargetsUpstream
<1>6. IsFiniteSet(A)
  BY <1>3, AffectedNodes
<1>7. IsFiniteSet(T)
  BY <1>4, <1>6, FS_Subset
<1>8. Cardinality(T \cup {n}) = Cardinality(T) + 1 /\ Cardinality(T) \in Nat
  BY <1>5, <1>7, FS_AddElement, FS_CardinalityType
<1>9. Cardinality(T \cup {n}) <= Cardinality(A) /\ Cardinality(A) \in Nat
  BY <1>4, <1>6, FS_Subset, FS_CardinalityType
<1>10. Cardinality(A) > Cardinality(T)
  BY <1>8, <1>9
<1>11. PICK e : e = SendBackEvent(told, ir)
  OBVIOUS
<1>12. e.node = f.node /\ e.affected = Cardinality(A)
  BY <1>2, <1>3, <1>11 DEF SendBackEvent
<1>13. e.node # NoNode
  BY <1>2, <1>12, NoNodeDistinct
<1> QED BY <1>3, <1>10, <1>11, <1>12, <1>13 DEF Attributed

(* One event more.                                                          *)
LEMMA EventsAttributed ==
  ASSUME TInv, LInv, NEW e \in Event, e.type = "send_back" => Attributed(e),
         NEW E, E = History.events
  PROVE  \A i \in DOMAIN Append(E, e) :
           Append(E, e)[i].type = "send_back" => Attributed(Append(E, e)[i])
<1>1. E \in Seq(Event)
  BY DEF TInv, Remembers, Recalls
<1>2. \A i \in DOMAIN E : E[i].type = "send_back" => Attributed(E[i])
  BY DEF LInv
<1>3. PICK X : X = Append(E, e)
  OBVIOUS
<1>4. /\ DOMAIN X = DOMAIN E \cup {Len(E) + 1} /\ X[Len(E) + 1] = e
      /\ \A i \in DOMAIN E : X[i] = E[i]
  BY <1>1, <1>3, Appended
<1>5. \A i \in DOMAIN X : X[i].type = "send_back" => Attributed(X[i])
  BY <1>2, <1>4
<1> QED BY <1>3, <1>5

(* A send_back that is owed after a gate's verdict is foretold by it.       *)
LEMMA GateForetold ==
  ASSUME Mergeless, IInv, IInv', RInv, TInv, LInv, NEW n \in Node, GateJudged(n)
  PROVE  LInv'
<1>1. PICK row, e : /\ row = [boundary |-> "gate_resolution", ir |-> ckpt']
                    /\ e = GateEvent(ckpt', n)
  OBVIOUS
<1>2. GateResolved(n) /\ checkpoints' = Append(checkpoints, row)
  BY <1>1 DEF GateJudged
<1>3. /\ e \in GateTold /\ ckpt' = snap' /\ snap' # NoGraph
  <2>1. PICK v : v = JudgedNow(n)
    OBVIOUS
  <2> QED BY <1>1, <1>2, <2>1, GateTells
<1>4. History' = [events |-> Append(History.events, e),
                  seen |-> History.seen \cup {Signature(ckpt', n)},
                  gate |-> << e >>, before |-> ckpt']
  BY <1>1, <1>2, GateHistory
<1>5. PICK g : g = snap'
  OBVIOUS
<1>6. Graphs' = {g} /\ EdgesHold(g) /\ g # NoGraph
  BY <1>3, <1>5 DEF Graphs, IInv, GraphsSound, Sound
<1>7. ASSUME NEW told, told.gate = << e >>, told.before = g,
             NEW k \in Node, PendingSendBack(g, k)
      PROVE  Foretold(told, k)
  <2>1. g.status[k] \in Done
    BY <1>7 DEF PendingSendBack
  <2>2. \A t \in SendBackTargets(k) : g.status[t] # "FAILED"
    BY <1>6, <2>1, DoneUpstream, TargetsUpstream DEF Done
  <2> QED BY <1>6, <1>7, <2>1, <2>2 DEF Foretold
<1>8. ASSUME NEW k \in Node, Owed(k)' PROVE Foretold(History, k)'
  <2>1. PendingSendBack(g, k)
    BY <1>6, <1>8 DEF Owed
  <2>2. PICK told : told = History'
    OBVIOUS
  <2>3. Foretold(told, k)
    BY <1>3, <1>4, <1>5, <1>7, <2>1, <2>2
  <2> QED BY <2>2, <2>3 DEF Foretold
<1>9. e \in Event /\ e.type = "gate"
  BY <1>3 DEF Event, GateTold
<1>10. \A i \in DOMAIN History'.events :
         History'.events[i].type = "send_back" => Attributed(History'.events[i])
  BY <1>4, <1>9, EventsAttributed
<1> QED BY <1>8, <1>10 DEF LInv, Attributed

(* After a send_back nothing is owed.                                       *)
LEMMA SendBackForetold ==
  ASSUME OneLoop, IInv, RInv, TInv, LInv, SentBackTold
  PROVE  LInv'
<1>1. PICK row, ir, told : /\ row = [boundary |-> "send_back", ir |-> ckpt']
                           /\ ir = ckpt' /\ told = History
  OBVIOUS
<1>2. PICK e : e = SendBackEvent(told, ir)
  OBVIOUS
<1>3. SentBack /\ checkpoints' = Append(checkpoints, row)
  BY <1>1 DEF SentBackTold
<1>4. History' = [events |-> Append(History.events, e), seen |-> History.seen,
                  gate |-> << >>, before |-> NoGraph]
  BY <1>1, <1>2, <1>3, SendBackHistory
<1>5. PICK n \in Node : /\ Owed(n) /\ SendBackTargets(n) # {}
                        /\ \A t \in SendBackTargets(n) : ir.status[t] = "FAILED"
                        /\ ir.status[n] \notin Done
  BY <1>1, <1>3, SentBackTakesBack
<1>6. \A k \in Node : ~PendingSendBack(ir, k)
  BY <1>1, <1>3, SentBackTakesBack
<1>7. GraphOK(ir) /\ Graphs' = {ir}
  BY <1>1, <1>3, SentBackCommits DEF Graphs
<1>8. told.gate = << >> \/ \E f \in GateTold : told.gate = << f >>
  BY <1>1 DEF TInv, Remembers
<1>9. Attributed(e)
  <2>1. Foretold(told, n)
    BY <1>1, <1>5 DEF LInv
  <2> QED BY <1>2, <1>5, <1>8, <2>1, SendBackAttributed
<1>10. e \in Event
  BY <1>2, <1>7, <1>8, SendBackEventTyped DEF Event
<1>11. \A i \in DOMAIN History'.events :
         History'.events[i].type = "send_back" => Attributed(History'.events[i])
  BY <1>4, <1>9, <1>10, EventsAttributed
<1>12. \A k \in Node : ~Owed(k)'
  BY <1>6, <1>7 DEF Owed
<1> QED BY <1>11, <1>12 DEF LInv, Attributed

(* Any other step owes no more than the step before.                        *)
LEMMA SilentForetold ==
  ASSUME IInv, TInv, LInv, [Next]_vars, Silent
  PROVE  LInv'
<1>1. History' = History
  BY DEF Silent, History
<1>2. ASSUME NEW n \in Node, Owed(n)' PROVE Owed(n)
  <2>1. PICK m \in Graphs' : PendingSendBack(m, n)
    BY <1>2 DEF Owed
  <2>2. CASE UNCHANGED vars
    <3>1. Graphs' = Graphs
      BY <2>2 DEF Graphs, vars, durable
    <3> QED BY <2>1, <3>1 DEF Owed
  <2>3. CASE \A k \in Node : ~GateResolved(k)
    <3>1. Echoes(m)
      BY <2>1, <2>3, NextEchoes DEF TInv, Echoed
    <3> QED BY <2>1, <3>1, PendingEchoes
  <2> QED BY <2>2, <2>3 DEF Silent
<1>3. ASSUME NEW n \in Node, Owed(n)' PROVE Foretold(History, n)'
  BY <1>1, <1>2, <1>3 DEF LInv, Foretold
<1> QED BY <1>1, <1>3 DEF LInv, Attributed

LEMMA LInitially == TelemetryInit => LInv
<1> SUFFICES ASSUME TelemetryInit PROVE LInv
  OBVIOUS
<1>1. History = ToldNothing
  BY ToldFirst DEF History, TelemetryInit
<1>2. Graphs = {}
  BY DEF TelemetryInit, Init, Graphs
<1> QED BY <1>1, <1>2 DEF LInv, Owed, ToldNothing

(* What the history attributes the export does.                             *)
LEMMA SendBacksAreTold ==
  ASSUME TInv, LInv
  PROVE  SendBacksTold
<1>1. PICK E, X : E = TransitionEvents(checkpoints) /\ X = Export(E).events
  OBVIOUS
<1>2. X = GraphEvents(snap, E)
  BY <1>1 DEF Export
<1>3. E = History.events
  BY <1>1 DEF TransitionEvents, History
<1>4. E \in Seq(Event)
  BY <1>3 DEF TInv, Remembers, Recalls
<1>5. PICK off : Lies(E, X, off)
  <2>1. PICK g : g = snap
    OBVIOUS
  <2> QED BY <1>2, <1>4, <2>1, Exported
<1>6. ASSUME NEW j \in DOMAIN X, X[j].type = "send_back" PROVE Attributed(X[j])
  <2>1. PICK i \in DOMAIN E : j = off + i /\ X[j] = E[i]
    BY <1>5, <1>6 DEF Lies
  <2> QED BY <1>3, <1>6, <2>1 DEF LInv
<1> QED BY <1>1, <1>6 DEF SendBacksTold, Attributed

(* In a graph with one gate that sends back and without a MERGE, the        *)
(* exported history is the one that happened: every verdict of a gate       *)
(* once, the present ones last, and every send_back with the gate that      *)
(* asked for it and the nodes it took back, however it was interrupted and  *)
(* resumed.                                                                 *)
THEOREM HistoryIsTold ==
  ASSUME OneLoop, Mergeless
  PROVE  TelemetrySpec => []HistoryTold
<1>1. IInv /\ IInv' /\ RInv /\ TInv /\ LInv /\ [TelemetryNext]_<< vars, telemetryVars >> => LInv'
  BY StepsTold, GateForetold, SendBackForetold, SilentForetold
<1>2. TInv /\ LInv => SendBacksTold
  BY SendBacksAreTold
<1>3. (snap # NoGraph => HistoryExports /\ VerdictsTold) /\ SendBacksTold => HistoryTold
  BY DEF HistoryTold
<1> QED BY <1>1, <1>2, <1>3, LInitially, HistoryIsKept, VerdictsAreExported, TelemetryIsEngine,
           Invariance, Recovery, PTL DEF TelemetrySpec
=============================================================================
