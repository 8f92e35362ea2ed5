------------------------------ MODULE MCBranch ------------------------------
(* A gate that selects one of two branches, which a MERGE joins again.      *)
EXTENDS GraphEngine

MCNode == {"n_fail", "n_gate", "n_merge", "n_pass", "n_z"}
MCNodeType == [n_fail |-> "AGENT", n_gate |-> "GATE", n_merge |-> "MERGE",
               n_pass |-> "AGENT", n_z |-> "GATE"]
MCEdge == {[from |-> "n_gate", to |-> "n_pass", type |-> "gate_pass"],
           [from |-> "n_gate", to |-> "n_fail", type |-> "gate_fail"],
           [from |-> "n_pass", to |-> "n_merge", type |-> "plain"],
           [from |-> "n_fail", to |-> "n_merge", type |-> "plain"],
           [from |-> "n_merge", to |-> "n_z", type |-> "plain"]}
(* The other input of the MERGE does not hang on the gate.                  *)
MCOneBranch == {e \in MCEdge : e.type # "gate_fail"}
(* One retry of the gate, and one of the gate and of the pass branch.       *)
MCMaxAttempts == [n \in MCNode |-> IF n = "n_gate" THEN 2 ELSE 1]
MCMoreAttempts == [n \in MCNode |-> IF n \in {"n_gate", "n_pass"} THEN 2 ELSE 1]
MCWriteScopes == [n \in MCNode |-> {}]
MCRisk == [n \in MCNode |-> 3]
MCRank == [n_fail |-> 1, n_gate |-> 2, n_merge |-> 3, n_pass |-> 4, n_z |-> 5]
MCNoOps == [n \in MCNode |-> {}]
MCUnlimited == [n \in MCNode |-> NoLimit]
(* Another graph: its gate may be evaluated twice, before an optional branch, *)
(* beside work that does not depend on it.                                   *)
ReopenedNode == {"n_a", "n_g", "n_m", "n_p", "n_z"}
ReopenedNodeType == [n_a |-> "AGENT", n_g |-> "GATE", n_m |-> "MERGE",
                     n_p |-> "AGENT", n_z |-> "GATE"]
ReopenedEdge == {[from |-> "n_g", to |-> "n_p", type |-> "gate_pass"],
                 [from |-> "n_a", to |-> "n_m", type |-> "plain"],
                 [from |-> "n_p", to |-> "n_m", type |-> "plain"],
                 [from |-> "n_m", to |-> "n_z", type |-> "plain"]}
ReopenedMaxAttempts == [n \in ReopenedNode |-> IF n = "n_g" THEN 2 ELSE 1]
ReopenedNothing == [n \in ReopenedNode |-> {}]
ReopenedRisk == [n \in ReopenedNode |-> 3]
ReopenedRank == [n_a |-> 1, n_g |-> 2, n_m |-> 3, n_p |-> 4, n_z |-> 5]
ReopenedUnlimited == [n \in ReopenedNode |-> NoLimit]
=============================================================================
