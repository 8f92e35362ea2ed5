------------------------------ MODULE MCReturn ------------------------------
(* A gate selects a branch that a MERGE joins; a second gate can send the   *)
(* work back once, to the MERGE and to the branch, which may be skipped.    *)
EXTENDS GraphEngine

MCNode == {"n_g", "n_m", "n_p", "n_q", "n_z"}
MCNodeType == [n_g |-> "GATE", n_m |-> "MERGE", n_p |-> "AGENT",
               n_q |-> "GATE", n_z |-> "GATE"]
MCEdge == {[from |-> "n_g", to |-> "n_p", type |-> "gate_pass"],
           [from |-> "n_p", to |-> "n_m", type |-> "plain"],
           [from |-> "n_m", to |-> "n_q", type |-> "plain"],
           [from |-> "n_q", to |-> "n_z", type |-> "gate_pass"]}
MCSendBack == {[from |-> "n_q", to |-> n, max |-> 1] : n \in {"n_m", "n_p"}}
MCMaxAttempts == [n \in MCNode |-> IF n \in {"n_g", "n_z"} THEN 1 ELSE 2]
MCWriteScopes == [n \in MCNode |-> {<< "repo" >>}]
MCRisk == [n \in MCNode |-> 3]
MCRank == [n_g |-> 1, n_m |-> 2, n_p |-> 3, n_q |-> 4, n_z |-> 5]
MCNoOps == [n \in MCNode |-> {}]
MCNodeBudget == [n \in MCNode |-> IF n = "n_p" THEN 2 ELSE NoLimit]
MCUnlimited == [n \in MCNode |-> NoLimit]
(* Another graph: its gate has two send_back targets, one behind the other.  *)
NestedNode == {"n_a", "n_b", "n_q", "n_z"}
NestedNodeType == [n \in NestedNode |-> IF n \in {"n_a", "n_b"} THEN "AGENT" ELSE "GATE"]
NestedEdge == {[from |-> "n_a", to |-> "n_b", type |-> "plain"],
               [from |-> "n_b", to |-> "n_q", type |-> "plain"],
               [from |-> "n_q", to |-> "n_z", type |-> "gate_pass"]}
NestedSendBack == {[from |-> "n_q", to |-> n, max |-> 1] : n \in {"n_a", "n_b"}}
NestedMaxAttempts == [n \in NestedNode |-> IF n = "n_z" THEN 1 ELSE 2]
NestedNothing == [n \in NestedNode |-> {}]
NestedRisk == [n \in NestedNode |-> 3]
NestedRank == [n_a |-> 1, n_b |-> 2, n_q |-> 3, n_z |-> 4]
NestedUnlimited == [n \in NestedNode |-> NoLimit]
=============================================================================
