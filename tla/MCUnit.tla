--------------------------------- MODULE MCUnit --------------------------------
\* A chain against the order of the names, a join, two units side by side, and
\* every graph with a cycle; the first and last unit share an ownership, and
\* the second one has limits of its own.
EXTENDS UnitGraph

MCGraphs ==
  {g \in [Units -> SUBSET Units] : \A u \in Units : u \notin g[u] /\
     \/ \E w \in Units : w \in Behind(g, w)
     \/ g = <<{2}, {3}, {}>> \/ g = <<{}, {}, {1, 2}>> \/ g = <<{}, {1}, {}>>}
MCOwner == [u \in Units |-> IF u = 2 THEN "b" ELSE "a"]
MCUnitPolicy == [u \in Units |-> IF u = 2 THEN 1 ELSE 3]
MCStagePolicy == [u \in Units |-> [s \in Stages |-> IF s = "produce" THEN 1 ELSE 2]]
================================================================================
