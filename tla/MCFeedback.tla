------------------------------ MODULE MCFeedback ------------------------------
(* A chain and an independent node; one constraint takes back the head of   *)
(* the chain, the other only narrows what the independent node may do.      *)
EXTENDS GraphFeedback

MCNode == {"n_a", "n_b", "n_c", "n_z"}
MCNodeType == [n \in MCNode |-> IF n = "n_z" THEN "GATE" ELSE "AGENT"]
MCEdge == {[from |-> "n_a", to |-> "n_b", type |-> "plain"],
           [from |-> "n_b", to |-> "n_z", type |-> "plain"],
           [from |-> "n_c", to |-> "n_z", type |-> "plain"]}
MCMaxAttempts == [n \in MCNode |-> IF n = "n_z" THEN 1 ELSE 2]
MCWriteScopes == [n \in MCNode |-> IF n = "n_c" THEN {<< "docs" >>} ELSE {<< "repo" >>}]
MCRisk == [n \in MCNode |-> 3]
MCRank == [n_a |-> 1, n_b |-> 2, n_c |-> 3, n_z |-> 4]
MCNoOps == [n \in MCNode |-> {}]
MCUnlimited == [n \in MCNode |-> NoLimit]
MCConstraint == {[id |-> "vc_head", appliesTo |-> {}, invalidates |-> {"n_a"}],
                 [id |-> "vc_side", appliesTo |-> {"n_c"}, invalidates |-> {}]}
=============================================================================
