------------------------------ MODULE UnitTopology ------------------------------
(***************************************************************************)
(* The dependency graphs of routecraft_execution_graph.py: deps[u] are the *)
(* units u depends on, from its dependencies and the explicit edges.  The  *)
(* algorithms are functions over the recursion's state.                    *)
(***************************************************************************)
EXTENDS Integers, FiniteSets, Sequences, FiniteSetsExt

CONSTANT Units   \* unit ids, in the order their names sort

ASSUME UnitsAssumption == Units \subseteq Nat /\ IsFiniteSet(Units)

\* _dependents_map
Dependents(deps, u) == {v \in Units : u \in deps[v]}

\* transitive_dependents: the least set that holds the dependents of u and of
\* its members.
Behind(deps, u) ==
  {v \in Units : \A S \in SUBSET Units :
     (Dependents(deps, u) \subseteq S /\ \A w \in S : Dependents(deps, w) \subseteq S) => v \in S}

\* What the search has finished, and whether it met its own path.
Search == [seen : SUBSET Units, cyclic : BOOLEAN]

\* Faulty variant of FindCycles: the search starts at units without
\* dependencies only, which no unit of a cycle may be behind.
FindCyclesFromRoots(deps) ==
  LET visit[active \in SUBSET Units] == [u \in Units |-> [acc \in Search |->
        IF u \in active THEN [acc EXCEPT !.cyclic = TRUE]
        ELSE IF u \in acc.seen THEN acc
        ELSE LET after == FoldSet(LAMBDA v, a : visit[active \cup {u}][v][a], acc, Dependents(deps, u))
             IN [after EXCEPT !.seen = @ \cup {u}]]]
  IN FoldSet(LAMBDA u, acc : visit[{}][u][acc], [seen |-> {}, cyclic |-> FALSE],
             {u \in Units : deps[u] = {}})

\* find_cycles (whether there is one): a depth-first search from every unit
\* that cuts at finished units and reports a unit on its own active path.
FindCycles(deps) ==
  LET visit[active \in SUBSET Units] == [u \in Units |-> [acc \in Search |->
        IF u \in active THEN [acc EXCEPT !.cyclic = TRUE]
        ELSE IF u \in acc.seen THEN acc
        ELSE LET after == FoldSet(LAMBDA v, a : visit[active \cup {u}][v][a], acc, Dependents(deps, u))
             IN [after EXCEPT !.seen = @ \cup {u}]]]
  IN FoldSet(LAMBDA u, acc : visit[{}][u][acc], [seen |-> {}, cyclic |-> FALSE], Units)

HasCycle(deps) == FindCycles(deps).cyclic

\* topological_order (Kahn): the least unit whose dependencies are all out
\* comes next; fewer units than there are means a cycle.
TopologicalOrder(deps) ==
  LET kahn[out \in SUBSET Units] ==
        LET ready == {u \in Units \ out : deps[u] \subseteq out}
        IN IF ready = {} THEN <<>> ELSE <<Min(ready)>> \o kahn[out \cup {Min(ready)}]
  IN kahn[{}]
================================================================================
