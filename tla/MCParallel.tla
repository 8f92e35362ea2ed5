----------------------------- MODULE MCParallel -----------------------------
(* Two external tools under one approval, for two slots; the more urgent    *)
(* one also waits for an independent root.                                  *)
EXTENDS GraphEngine

MCNode == {"n_a", "n_b", "n_c", "n_ok", "n_z"}
MCNodeType == [n_a |-> "TOOL", n_b |-> "TOOL", n_c |-> "AGENT",
               n_ok |-> "HUMAN_APPROVAL", n_z |-> "GATE"]
MCEdge == {[from |-> "n_ok", to |-> "n_a", type |-> "gate_pass"],
           [from |-> "n_ok", to |-> "n_b", type |-> "gate_pass"]} \cup
          {[from |-> "n_c", to |-> "n_b", type |-> "plain"],
           [from |-> "n_a", to |-> "n_z", type |-> "plain"],
           [from |-> "n_b", to |-> "n_z", type |-> "plain"]}
MCMaxAttempts == [n \in MCNode |-> IF n = "n_a" THEN 2 ELSE 1]
MCWriteScopes == [n_a |-> {<< "src", "a" >>}, n_b |-> {<< "src", "b" >>},
                  n_c |-> {<< "docs" >>}, n_ok |-> {}, n_z |-> {<< "src" >>}]
MCRisk == [n_a |-> 2, n_b |-> 1, n_c |-> 3, n_ok |-> 3, n_z |-> 3]
MCRank == [n_a |-> 1, n_b |-> 2, n_c |-> 3, n_ok |-> 4, n_z |-> 5]
MCExternalOps == [n \in MCNode |-> IF n \in {"n_a", "n_b"} THEN {"push"} ELSE {}]
MCApproveOps == [n \in MCNode |-> IF n = "n_ok" THEN {"push"} ELSE {}]
MCUnlimited == [n \in MCNode |-> NoLimit]
=============================================================================
