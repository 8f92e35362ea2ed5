---------------------------- MODULE GraphTopology ----------------------------
(***************************************************************************)
(* The static part of one Graph IR revision: the nodes with their          *)
(* contracts, the typed dependency edges, the bounded send_back            *)
(* transitions, and the order the scheduler uses.  compile_graph refuses   *)
(* every graph that breaks one of the assumptions below, and a graph never *)
(* changes its static part within a revision (store._save_revision_in), so *)
(* they are constants here.                                                *)
(***************************************************************************)
EXTENDS Integers, FiniteSets, Sequences, SequencesExt

CONSTANTS
  Node,            \* node ids
  NodeType,        \* [Node -> NodeTypes]
  Edge,            \* dependency edges, records [from, to, type]
  SendBack,        \* send_back edges, records [from, to, max]
  GlobalGate,      \* the node whose gate_policy is global
  MaxAttempts,     \* retry_policy.max_attempts of each node
  WriteScopes,     \* ownership.write_scopes: sets of paths, a path a sequence
  Risk,            \* risk order of each node, 0 the most critical
  Rank,            \* lexical order of the node ids
  Op,              \* operation descriptors of the intent's external mutations
  ExternalOps,     \* descriptors whose kind a node may execute ("external:")
  ApproveOps       \* descriptors whose kind a node may approve ("approve:")

NodeTypes == {"AGENT", "TOOL", "DETERMINISTIC", "GATE", "MERGE",
              "HUMAN_APPROVAL", "MEMORY_RECALL", "BENCHMARK", "SECURITY",
              "CHECKPOINT", "QUALITY"}

(* depends_on, fan_out, sequence and merge edges behave alike: "plain".     *)
EdgeTypes == {"plain", "gate_pass", "gate_fail"}

-----------------------------------------------------------------------------
(* Derived relations.                                                       *)

(* What a node directly depends on.                                         *)
Deps == [n \in Node |-> {e.from : e \in {d \in Edge : d.to = n}}]

Children == [n \in Node |-> {e.to : e \in {d \in Edge : d.from = n}}]

ClosedUnderChildren(S) == \A m \in S : Children[m] \subseteq S

(* The nodes reachable from n by at least one edge: the least set that      *)
(* holds the children of n and their children.                              *)
Downstream ==
  [n \in Node |->
    {m \in Node : \A S \in SUBSET Node :
       Children[n] \subseteq S /\ ClosedUnderChildren(S) => m \in S}]

DownstreamOf(S) == UNION {Downstream[n] : n \in S}

Ordered(m, n) == m \in Downstream[n] \/ n \in Downstream[m]

(* The node lies on one path of the file system with the other's scope.     *)
PathOverlap(p, q) == IsPrefix(p, q) \/ IsPrefix(q, p)

WriteConflict(m, n) ==
  \E p \in WriteScopes[m], q \in WriteScopes[n] : PathOverlap(p, q)

External(n) == ExternalOps[n] # {}

(* Two nodes that may not run at the same time.                             *)
Conflict(m, n) == WriteConflict(m, n) \/ (External(m) /\ External(n))

(* Remaining critical path, and the scheduler's total order on candidates.  *)
CriticalPath[n \in Node] ==
  IF Children[n] = {} THEN 1
  ELSE 1 + (CHOOSE k \in {CriticalPath[c] : c \in Children[n]} :
              \A c \in Children[n] : CriticalPath[c] <= k)

Before(m, n) ==
  \/ CriticalPath[m] > CriticalPath[n]
  \/ /\ CriticalPath[m] = CriticalPath[n]
     /\ \/ Risk[m] < Risk[n]
        \/ Risk[m] = Risk[n] /\ Rank[m] < Rank[n]

SendBackTargets(n) == {e.to : e \in {b \in SendBack : b.from = n}}

-----------------------------------------------------------------------------
(* What compile_graph establishes before a graph is planned or resumed.     *)

ASSUME NodesFinite == IsFiniteSet(Node)

ASSUME EdgesFinite == IsFiniteSet(Edge)

ContractsTyped ==
  /\ NodeType \in [Node -> NodeTypes]
  /\ MaxAttempts \in [Node -> Nat \ {0}]
  /\ Risk \in [Node -> 0 .. 3]
  /\ Rank \in [Node -> Nat]
  /\ \A m, n \in Node : Rank[m] = Rank[n] => m = n
  /\ ExternalOps \in [Node -> SUBSET Op]
  /\ ApproveOps \in [Node -> SUBSET Op]
  /\ DOMAIN WriteScopes = Node
  /\ \A n \in Node : \A p \in WriteScopes[n] : p # << >>

EdgesTyped ==
  /\ \A e \in Edge :
       e.from \in Node /\ e.to \in Node /\ e.type \in EdgeTypes
  /\ \A e \in Edge : e.type = "gate_fail" => NodeType[e.from] = "GATE"

Acyclic == \A n \in Node : n \notin Downstream[n]

SendBackBounded ==
  \A b \in SendBack :
    /\ b.from \in Node /\ b.to \in Node
    /\ NodeType[b.from] = "GATE"
    /\ b.from \in Downstream[b.to]
    /\ b.max \in Nat \ {0}
    /\ b.max < MaxAttempts[b.to]
    /\ b.max < MaxAttempts[b.from]

GlobalGateIsSink ==
  /\ GlobalGate \in Node
  /\ NodeType[GlobalGate] = "GATE"
  /\ \A n \in Node \ {GlobalGate} : GlobalGate \in Downstream[n]
  /\ Children[GlobalGate] = {}

ParallelNodesDisjoint ==
  \A m, n \in Node : m # n /\ ~Ordered(m, n) => ~WriteConflict(m, n)

ExternalNodesApproved ==
  \A n \in Node : \A op \in ExternalOps[n] :
    /\ NodeType[n] \in {"TOOL", "AGENT"}
    /\ \E a \in Node : /\ NodeType[a] = "HUMAN_APPROVAL"
                       /\ op \in ApproveOps[a]
                       /\ [from |-> a, to |-> n, type |-> "gate_pass"] \in Edge

ASSUME Compiled ==
  /\ ContractsTyped /\ EdgesTyped /\ Acyclic /\ SendBackBounded
  /\ GlobalGateIsSink /\ ParallelNodesDisjoint /\ ExternalNodesApproved
=============================================================================
