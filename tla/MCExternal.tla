----------------------------- MODULE MCExternal -----------------------------
(* A human approval, the tool node it authorises and the global gate.  The  *)
(* approval depends on a drafting node, so its input can change.            *)
EXTENDS GraphEngine

MCNode == {"n_approve", "n_draft", "n_tool", "n_z"}
MCNodeType == [n_approve |-> "HUMAN_APPROVAL", n_draft |-> "AGENT",
               n_tool |-> "TOOL", n_z |-> "GATE"]
MCEdge == {[from |-> "n_draft", to |-> "n_approve", type |-> "plain"],
           [from |-> "n_approve", to |-> "n_tool", type |-> "gate_pass"],
           [from |-> "n_tool", to |-> "n_z", type |-> "plain"]}
(* One retry of what the approval rests on.                                  *)
MCMaxAttempts == [n \in MCNode |-> IF n \in {"n_draft", "n_approve"} THEN 2 ELSE 1]
MCWriteScopes == [n \in MCNode |-> {}]
MCRisk == [n \in MCNode |-> 3]
MCRank == [n_approve |-> 1, n_draft |-> 2, n_tool |-> 3, n_z |-> 4]
MCExternalOps == [n \in MCNode |-> IF n = "n_tool" THEN Op ELSE {}]
MCApproveOps == [n \in MCNode |-> IF n = "n_approve" THEN Op ELSE {}]
MCUnlimited == [n \in MCNode |-> NoLimit]
=============================================================================
