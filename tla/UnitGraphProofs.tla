---------------------------- MODULE UnitGraphProofs ----------------------------
(***************************************************************************)
(* The execution graph of 0.6 keeps its bounds, its failure record and its *)
(* acceptance sound for every set of units, every dependency graph and     *)
(* every limit.  First what the units behind a unit are, then what each    *)
(* call does to the parts of the invariant.                                *)
(***************************************************************************)
EXTENDS UnitGraph, SumTheorems, SequenceTheorems, TLAPS

Graph == [Units -> SUBSET Units]
Status == {"pending", "ready", "produced", "accepted", "failed", "reopened"}

\* What every call preserves besides the bounds: the typing of the graph, and
\* that an accepted unit holds a valid output.
DepsOK == deps \in Graph
AcceptedValid == \A u \in Units : status[u] = "accepted" => accepted[u] = "valid"
AcceptedAll == phase = "accepted" => \A u \in Units : status[u] = "accepted"
IInv == TypeOK /\ DepsOK /\ NothingDoneBehindOpen /\ FailedOutputsMatch
          /\ AcceptedValid /\ AcceptedAll /\ RoundIndependent

(***************************************************************************)
(* The units behind a unit are its dependents and theirs.                  *)
(***************************************************************************)
LEMMA BehindUnits ==
  ASSUME NEW g \in Graph, NEW u \in Units
  PROVE  Behind(g, u) \subseteq Units
BY DEF Behind

\* Behind(g, u) holds the dependents of u and of its own members.
LEMMA BehindClosed ==
  ASSUME NEW g \in Graph, NEW u \in Units
  PROVE  /\ Dependents(g, u) \subseteq Behind(g, u)
         /\ \A w \in Behind(g, u) : Dependents(g, w) \subseteq Behind(g, u)
BY DEF Behind, Dependents

LEMMA BehindTransitive ==
  ASSUME NEW g \in Graph, NEW u \in Units, NEW w \in Behind(g, u)
  PROVE  Behind(g, w) \subseteq Behind(g, u)
<1>1. w \in Units /\ Behind(g, u) \in SUBSET Units
  BY BehindUnits
<1>2. /\ Dependents(g, w) \subseteq Behind(g, u)
      /\ \A x \in Behind(g, u) : Dependents(g, x) \subseteq Behind(g, u)
  BY BehindClosed
<1> QED
  BY <1>1, <1>2 DEF Behind

\* A unit behind u depends on u, or on a unit behind u.
LEMMA BehindThroughDependency ==
  ASSUME NEW g \in Graph, NEW u \in Units, NEW v \in Behind(g, u)
  PROVE  u \in g[v] \/ \E d \in g[v] : d \in Behind(g, u)
<1>1. SUFFICES ASSUME u \notin g[v], \A d \in g[v] : d \notin Behind(g, u)
               PROVE  FALSE
  OBVIOUS
<1> DEFINE S == Behind(g, u) \ {v}
<1>2. v \in Units /\ S \in SUBSET Units
  BY BehindUnits
<1>3. Dependents(g, u) \subseteq S
  BY <1>1, BehindClosed DEF Dependents
<1>4. \A w \in S : Dependents(g, w) \subseteq S
  BY <1>1, BehindClosed DEF Dependents
<1>5. v \in S
  BY <1>2, <1>3, <1>4 DEF Behind
<1> QED
  BY <1>5

(***************************************************************************)
(* The attempt limits are integers, so that an attempt below a limit stays *)
(* within it.                                                              *)
(***************************************************************************)
LEMMA MinOfTwo ==
  ASSUME NEW a \in Nat, NEW b \in Nat
  PROVE  Min({a, b}) \in Nat
<1>1. \E x \in {a, b} : \A y \in {a, b} : x =< y
  OBVIOUS
<1> QED
  BY <1>1 DEF Min

LEMMA AttemptLimitNat == \A u \in Units : AttemptLimit(u) \in Nat
BY UnitAssumption, MinOfTwo DEF AttemptLimit

LEMMA CountWithin ==
  ASSUME NEW u \in Units, NEW s \in Stages, TypeOK,
         Count(u, s), ~(Total(u) >= AttemptLimit(u))
  PROVE  /\ attempts' \in [Units -> [Stages -> Nat]]
         /\ \A v \in Units : Total(v)' <= AttemptLimit(v)
<1>1. AttemptLimit(u) \in Nat
  BY AttemptLimitNat
<1>2. attempts \in [Units -> [Stages -> Nat]]
  BY DEF TypeOK
<1>3. attempts' = [attempts EXCEPT ![u][s] = @ + 1]
  BY DEF Count
<1>4. attempts' \in [Units -> [Stages -> Nat]]
  BY <1>2, <1>3
<1>5. ASSUME NEW v \in Units, v # u
      PROVE  Total(v)' <= AttemptLimit(v)
  BY <1>2, <1>3, <1>5 DEF TypeOK, Total
<1>6. Total(u)' <= AttemptLimit(u)
  <2>1. Total(u)' = Total(u) + 1
    BY <1>2, <1>3 DEF Total, Stages
  <2>2. Total(u) \in Nat
    BY <1>2 DEF Total, Stages
  <2> QED
    BY <2>1, <2>2, <1>1
<1> QED
  BY <1>4, <1>5, <1>6

(***************************************************************************)
(* A unit whose dependencies are accepted is behind no open unit.          *)
(***************************************************************************)
LEMMA ReadyIsAhead ==
  ASSUME NothingDoneBehindOpen, DepsOK, NEW u \in Units, NEW v \in Units,
         status[u] \in Open, DepsAccepted(v)
  PROVE  v \notin Behind(deps, u)
<1>1. SUFFICES ASSUME v \in Behind(deps, u)
               PROVE  FALSE
  OBVIOUS
<1>2. u \in deps[v] \/ \E d \in deps[v] : d \in Behind(deps, u)
  BY <1>1, BehindThroughDependency DEF DepsOK
<1> QED
  BY <1>2 DEF NothingDoneBehindOpen, DepsAccepted, Open

(***************************************************************************)
(* What a call makes of the units.                                         *)
(***************************************************************************)
UnitsTyped ==
  /\ status \in [Units -> Status] /\ accepted \in [Units -> {"none", "valid"}]
  /\ working \in [Units -> Outputs] /\ failed \subseteq Units
  /\ phase \in {"pending", "running", "retry_pending", "accepted", "convergence_failed", "refused"}
UnitsSound ==
  UnitsTyped /\ NothingDoneBehindOpen /\ FailedOutputsMatch /\ AcceptedValid /\ AcceptedAll

LEMMA RefreshedSound ==
  ASSUME NEW st \in [Units -> Status], UnitsTyped
  PROVE  /\ Refreshed(st) \in {"running", "retry_pending", "accepted", "convergence_failed"}
         /\ Refreshed(st) = "accepted" => \/ phase = "convergence_failed"
                                         \/ \A u \in Units : st[u] = "accepted"
BY DEF Refreshed, UnitsTyped

LEMMA SendBackSound ==
  ASSUME UnitsSound, DepsOK, deps' = deps, NEW u \in Units, SendBack(u)
  PROVE  UnitsSound'
<1>1. Behind(deps, u) \subseteq Units
  BY BehindUnits DEF DepsOK
<1>2. UnitsTyped'
  BY <1>1 DEF UnitsSound, UnitsTyped, SendBack, Status, Outputs
<1>3. NothingDoneBehindOpen'
  <2>1. SUFFICES ASSUME NEW w \in Units, status'[w] \in Open, NEW v \in Behind(deps, w)
                 PROVE  status'[v] \in {"pending", "reopened", "failed"}
    BY DEF NothingDoneBehindOpen
  <2>2. v \in Units
    BY BehindUnits DEF DepsOK
  <2>3. CASE w = u \/ w \in Behind(deps, u)
    <3>1. v \in Behind(deps, u)
      BY <2>3, BehindTransitive DEF DepsOK
    <3> QED
      BY <3>1, <2>2 DEF SendBack
  <2>4. CASE ~(w = u \/ w \in Behind(deps, u))
    <3>1. status[w] \in Open
      BY <2>1, <2>4 DEF SendBack
    <3> QED
      BY <3>1, <2>2 DEF SendBack, UnitsSound, NothingDoneBehindOpen
  <2> QED
    BY <2>3, <2>4
<1>4. FailedOutputsMatch'
  BY <1>1 DEF UnitsSound, FailedOutputsMatch, SendBack
<1>5. AcceptedValid'
  BY DEF UnitsSound, AcceptedValid, SendBack
<1>6. AcceptedAll'
  BY DEF AcceptedAll, SendBack
<1> QED
  BY <1>2, <1>3, <1>4, <1>5, <1>6 DEF UnitsSound

\* The status of one unit whose dependencies are accepted becomes `s`.
LEMMA AdvancedKeepsOrder ==
  ASSUME UnitsSound, DepsOK, deps' = deps, NEW u \in Units, Executable(u),
         NEW s \in {"accepted", "produced"}, status' = [status EXCEPT ![u] = s]
  PROVE  NothingDoneBehindOpen'
<1>1. SUFFICES ASSUME NEW w \in Units, status'[w] \in Open, NEW v \in Behind(deps, w)
               PROVE  status'[v] \in {"pending", "reopened", "failed"}
  BY DEF NothingDoneBehindOpen
<1>2. v \in Units
  BY BehindUnits DEF DepsOK
<1>3. w # u /\ status[w] \in Open
  BY <1>1 DEF UnitsSound, UnitsTyped, Open
<1>4. v # u
  BY <1>1, <1>3, ReadyIsAhead DEF Executable, UnitsSound
<1> QED
  BY <1>2, <1>3, <1>4 DEF UnitsSound, UnitsTyped, NothingDoneBehindOpen

LEMMA AcceptSound ==
  ASSUME UnitsSound, DepsOK, deps' = deps, NEW u \in Units, Executable(u), Accept(u, "valid"),
         phase # "convergence_failed"
  PROVE  UnitsSound'
<1>1. status' \in [Units -> Status] /\ status' = [status EXCEPT ![u] = "accepted"]
  BY DEF UnitsSound, UnitsTyped, Accept, Status
<1>2. phase' = Refreshed(status')
  BY DEF Accept
<1>3. UnitsTyped'
  BY <1>1, <1>2, RefreshedSound DEF UnitsSound, UnitsTyped, Accept, Outputs
<1>4. NothingDoneBehindOpen'
  BY <1>1, AdvancedKeepsOrder
<1>5. FailedOutputsMatch'
  BY <1>1 DEF UnitsSound, UnitsTyped, FailedOutputsMatch, Accept
<1>6. AcceptedValid'
  BY <1>1 DEF UnitsSound, UnitsTyped, AcceptedValid, Accept
<1>7. AcceptedAll'
  BY <1>1, <1>2, RefreshedSound DEF UnitsSound, AcceptedAll
<1> QED
  BY <1>3, <1>4, <1>5, <1>6, <1>7 DEF UnitsSound

LEMMA ProducedSound ==
  ASSUME UnitsSound, DepsOK, deps' = deps, NEW u \in Units, Executable(u),
         NEW output \in Outputs, Produced(u, output), phase # "convergence_failed"
  PROVE  UnitsSound'
<1>1. status' \in [Units -> Status] /\ status' = [status EXCEPT ![u] = "produced"]
  BY DEF UnitsSound, UnitsTyped, Produced, Status
<1>2. phase' = Refreshed(status')
  BY DEF Produced
<1>3. UnitsTyped'
  BY <1>1, <1>2, RefreshedSound DEF UnitsSound, UnitsTyped, Produced
<1>4. NothingDoneBehindOpen'
  BY <1>1, AdvancedKeepsOrder
<1>5. FailedOutputsMatch'
  BY <1>1 DEF UnitsSound, UnitsTyped, FailedOutputsMatch, Produced
<1>6. AcceptedValid'
  BY <1>1 DEF UnitsSound, UnitsTyped, AcceptedValid, Produced
<1>7. AcceptedAll'
  BY <1>1, <1>2, RefreshedSound DEF UnitsSound, AcceptedAll
<1> QED
  BY <1>3, <1>4, <1>5, <1>6, <1>7 DEF UnitsSound

LEMMA StoppedSound ==
  ASSUME UnitsSound, DepsOK, deps' = deps, ConvergenceFailed
  PROVE  UnitsSound'
BY DEF UnitsSound, UnitsTyped, NothingDoneBehindOpen, FailedOutputsMatch, AcceptedValid,
       AcceptedAll, ConvergenceFailed, unitVars

LEMMA RetrySound ==
  ASSUME UnitsSound, DepsOK, deps' = deps, NEW u \in Units, RetryUnit(u)
  PROVE  UnitsSound'
<1>1. CASE Total(u) >= AttemptLimit(u)
  BY <1>1 DEF RetryUnit, UnitsSound, UnitsTyped, NothingDoneBehindOpen, FailedOutputsMatch,
       AcceptedValid, AcceptedAll
<1>2. CASE ~(Total(u) >= AttemptLimit(u))
  <2>1. status' = [status EXCEPT ![u] = "reopened"] /\ status[u] = "failed"
    BY <1>2 DEF RetryUnit
  <2>2. UnitsTyped'
    BY <1>2 DEF RetryUnit, UnitsSound, UnitsTyped, Status
  <2>3. NothingDoneBehindOpen'
    BY <2>1, BehindUnits DEF UnitsSound, UnitsTyped, NothingDoneBehindOpen, Open, DepsOK
  <2>4. FailedOutputsMatch' /\ AcceptedValid' /\ AcceptedAll'
    BY <1>2, <2>1 DEF RetryUnit, UnitsSound, UnitsTyped, FailedOutputsMatch, AcceptedValid, AcceptedAll
  <2> QED
    BY <2>2, <2>3, <2>4 DEF UnitsSound
<1> QED
  BY <1>1, <1>2

LEMMA FinalizeSound ==
  ASSUME UnitsSound, DepsOK, deps' = deps, FinalizeGraph
  PROVE  UnitsSound'
<1>1. status' = status /\ accepted' = accepted /\ working' = working /\ failed' = failed
  BY DEF FinalizeGraph, unitVars
<1>2. status \in [Units -> Status]
  BY DEF UnitsSound, UnitsTyped
<1>3. /\ phase' \in {"running", "retry_pending", "accepted", "convergence_failed"}
      /\ phase' = "accepted" => \/ phase = "convergence_failed" /\ phase' = Refreshed(status)
                              \/ \A u \in Units : status[u] = "accepted"
  BY <1>2, RefreshedSound DEF FinalizeGraph, UnitsSound
<1>4. AcceptedAll'
  BY <1>1, <1>3 DEF AcceptedAll, Refreshed
<1> QED
  BY <1>1, <1>3, <1>4 DEF UnitsSound, UnitsTyped, NothingDoneBehindOpen, FailedOutputsMatch, AcceptedValid

\* A selected unit was open before, and its dependencies are accepted.
LEMMA AdvanceSound ==
  ASSUME UnitsSound, DepsOK, deps' = deps, NEW outcomes \in SUBSET Units, AdvanceGraph(outcomes)
  PROVE  UnitsSound'
<1>1. /\ accepted' = accepted /\ working' = working /\ failed' = failed
      /\ status' = [u \in Units |-> IF u \in ParallelReady THEN "ready" ELSE status[u]]
      /\ phase # "convergence_failed" /\ phase # "accepted"
  BY DEF AdvanceGraph, MarkSelected
<1>2. \A u \in ParallelReady : u \in Units /\ status[u] \in Open \ {"failed"} /\ DepsAccepted(u)
  BY DEF ParallelReady, FirstOfOwner, Ready, Open
<1>3. status' \in [Units -> Status]
  BY <1>1 DEF UnitsSound, UnitsTyped, Status
<1>4. phase' = Refreshed(status') \/ phase' = "convergence_failed"
  BY DEF AdvanceGraph
<1>5. UnitsTyped'
  BY <1>1, <1>3, <1>4, RefreshedSound DEF UnitsSound, UnitsTyped
<1>6. NothingDoneBehindOpen'
  <2>1. SUFFICES ASSUME NEW w \in Units, status'[w] \in Open, NEW v \in Behind(deps, w)
                 PROVE  status'[v] \in {"pending", "reopened", "failed"}
    BY DEF NothingDoneBehindOpen
  <2>2. v \in Units
    BY BehindUnits DEF DepsOK
  <2>3. status[w] \in Open
    BY <1>1, <1>2, <2>1
  <2>4. v \notin ParallelReady
    BY <1>2, <2>1, <2>3, ReadyIsAhead DEF UnitsSound
  <2> QED
    BY <1>1, <2>2, <2>3, <2>4 DEF UnitsSound, NothingDoneBehindOpen
<1>7. FailedOutputsMatch'
  BY <1>1, <1>2 DEF UnitsSound, FailedOutputsMatch, Open
<1>8. AcceptedValid'
  BY <1>1 DEF UnitsSound, AcceptedValid
<1>9. AcceptedAll'
  BY <1>3, <1>4, <1>1, RefreshedSound DEF UnitsSound, AcceptedAll
<1> QED
  BY <1>5, <1>6, <1>7, <1>8, <1>9 DEF UnitsSound

\* The units of a round are selected side by side.
LEMMA AdvanceIndependent ==
  ASSUME UnitsSound, DepsOK, deps' = deps, NEW outcomes \in SUBSET Units, AdvanceGraph(outcomes)
  PROVE  RoundIndependent' /\ round' \subseteq Units
<1>1. round' \subseteq ParallelReady
  BY DEF AdvanceGraph
<1>2. \A u \in ParallelReady : u \in FirstOfOwner /\ u \in Units /\ status[u] \in Open /\ DepsAccepted(u)
  BY DEF ParallelReady, FirstOfOwner, Ready, Open
<1>3. \A u, v \in ParallelReady : v \notin Behind(deps, u)
  BY <1>2, ReadyIsAhead DEF UnitsSound
<1>4. ASSUME NEW u \in ParallelReady, NEW v \in ParallelReady, u # v
      PROVE  Owner[u] # Owner[v]
  <2>0. u \in Nat /\ v \in Nat
    BY <1>2, UnitsAssumption
  <2>1. u < v \/ v < u
    BY <2>0, <1>4
  <2> QED
    BY <1>2, <2>1 DEF FirstOfOwner
<1> QED
  BY <1>1, <1>2, <1>3, <1>4 DEF RoundIndependent

LEMMA FewerIndependent ==
  ASSUME RoundIndependent, deps' = deps, round' \subseteq round
  PROVE  RoundIndependent'
BY DEF RoundIndependent

(***************************************************************************)
(* The counters of a call.                                                 *)
(***************************************************************************)
Bounded ==
  /\ attempts \in [Units -> [Stages -> Nat]] /\ steps \in 0 .. MaxSteps /\ runs \in 0 .. MaxRuns
  /\ \A u \in Units : Total(u) <= AttemptLimit(u)

LEMMA AttemptsStand ==
  ASSUME Bounded, UNCHANGED attempts
  PROVE  /\ attempts' \in [Units -> [Stages -> Nat]]
         /\ \A u \in Units : Total(u)' <= AttemptLimit(u)
BY DEF Bounded, Total

LEMMA SpendWithin ==
  ASSUME Bounded, NEW child \in BOOLEAN, Within(child), Spend(child)
  PROVE  steps' \in 0 .. MaxSteps /\ runs' \in 0 .. MaxRuns
BY UnitAssumption DEF Bounded, Within, Spend

LEMMA StoppedBounded ==
  ASSUME Bounded, GuardStops(TRUE) \/ BudgetExhausted
  PROVE  Bounded'
<1>1. UNCHANGED attempts
  BY DEF GuardStops, BudgetExhausted, ConvergenceFailed, unitVars
<1>2. steps' \in 0 .. MaxSteps /\ runs' \in 0 .. MaxRuns
  BY SpendWithin DEF GuardStops, BudgetExhausted, Bounded
<1> QED
  BY <1>1, <1>2, AttemptsStand DEF Bounded

\* A call that spends its step and counts at most one attempt of a unit below
\* its limit keeps every bound.
LEMMA CallBounded ==
  ASSUME TypeOK, NEW u \in Units, ~(Total(u) >= AttemptLimit(u)), Within(TRUE), Spend(TRUE),
         UNCHANGED attempts \/ \E s \in Stages : Count(u, s)
  PROVE  Bounded'
<1>1. Bounded
  BY DEF TypeOK, Bounded
<1>2. /\ attempts' \in [Units -> [Stages -> Nat]]
      /\ \A v \in Units : Total(v)' <= AttemptLimit(v)
  BY <1>1, CountWithin, AttemptsStand
<1> QED
  BY <1>1, <1>2, SpendWithin DEF Bounded

LEMMA AdvanceBounded ==
  ASSUME Bounded, NEW outcomes \in SUBSET Units, AdvanceGraph(outcomes)
  PROVE  Bounded'
<1>1. UNCHANGED attempts
  BY DEF AdvanceGraph
<1>2. steps' \in 0 .. MaxSteps /\ runs' \in 0 .. MaxRuns
  BY SpendWithin DEF AdvanceGraph, Bounded
<1> QED
  BY <1>1, <1>2, AttemptsStand DEF Bounded

(***************************************************************************)
(* Every call.                                                             *)
(***************************************************************************)
Kept == UnitsSound /\ Bounded /\ DepsOK /\ RoundIndependent /\ round \subseteq Units

LEMMA KeptIsInvariant == IInv <=> Kept
BY DEF IInv, Kept, TypeOK, UnitsSound, UnitsTyped, Bounded, Status

LEMMA StoppedKept ==
  ASSUME Kept, deps' = deps, GuardStops(TRUE) \/ BudgetExhausted
  PROVE  Kept'
<1>1. ConvergenceFailed /\ round' = {}
  BY DEF GuardStops, BudgetExhausted, ConvergenceFailed
<1> QED
  BY <1>1, StoppedSound, StoppedBounded DEF Kept, DepsOK, RoundIndependent

\* ConvergenceFailed within a call that has spent its step.
LEMMA ExhaustedKept ==
  ASSUME Kept, deps' = deps, Within(TRUE), Spend(TRUE), ConvergenceFailed
  PROVE  Kept'
<1>1. round' = {} /\ UNCHANGED attempts
  BY DEF ConvergenceFailed, unitVars
<1>2. Bounded'
  BY <1>1, AttemptsStand, SpendWithin DEF Kept, Bounded
<1> QED
  BY <1>1, <1>2, StoppedSound DEF Kept, DepsOK, RoundIndependent

LEMMA FailUnitKept ==
  ASSUME Kept, deps' = deps, NEW u \in Units, FailUnit(u)
  PROVE  Kept'
<1>1. CASE GuardStops(TRUE)
  BY <1>1, StoppedKept
<1>2. CASE Within(TRUE) /\ Spend(TRUE) /\ Total(u) >= AttemptLimit(u) /\ ConvergenceFailed
  BY <1>2, ExhaustedKept
<1>3. CASE /\ Within(TRUE) /\ Spend(TRUE) /\ ~(Total(u) >= AttemptLimit(u))
           /\ Count(u, "check") /\ SendBack(u) /\ round' = round \ {u}
  <2>1. UnitsSound'
    BY <1>3, SendBackSound DEF Kept
  <2>2. Bounded'
    BY <1>3, CallBounded, KeptIsInvariant DEF IInv, Stages
  <2> QED
    BY <1>3, <2>1, <2>2, FewerIndependent DEF Kept, DepsOK
<1> QED
  BY <1>1, <1>2, <1>3 DEF FailUnit

LEMMA CompleteUnitKept ==
  ASSUME Kept, deps' = deps, NEW u \in Units, NEW output \in Outputs, CompleteUnit(u, output)
  PROVE  Kept'
<1>1. CASE GuardStops(TRUE)
  BY <1>1, StoppedKept
<1>2. CASE Within(TRUE) /\ Spend(TRUE) /\ Total(u) >= AttemptLimit(u) /\ ConvergenceFailed
  BY <1>2, ExhaustedKept
<1>3. CASE /\ Within(TRUE) /\ Executable(u) /\ Spend(TRUE) /\ ~(Total(u) >= AttemptLimit(u))
           /\ round' = round \ {u}
           /\ \/ output = "valid" /\ Count(u, "check") /\ Accept(u, output)
              \/ output # "valid" /\ SendBack(u) /\ UNCHANGED attempts
  <2>1. UnitsSound'
    BY <1>3, AcceptSound, SendBackSound DEF Kept, CompleteUnit
  <2>2. Bounded'
    BY <1>3, CallBounded, KeptIsInvariant DEF IInv, Stages
  <2> QED
    BY <1>3, <2>1, <2>2, FewerIndependent DEF Kept, DepsOK
<1> QED
  BY <1>1, <1>2, <1>3 DEF CompleteUnit

LEMMA RecordUnitAttemptKept ==
  ASSUME Kept, deps' = deps, NEW u \in Units, NEW stage \in Stages, NEW outcome \in Outcomes,
         RecordUnitAttempt(u, stage, outcome)
  PROVE  Kept'
<1>0. outcome.output \in Outputs
  <2>1. CASE outcome = Failure
    BY <2>1 DEF Failure, Outputs
  <2>2. CASE outcome \in [ok : {TRUE}, verified : BOOLEAN, output : Outputs]
    <3>1. PICK r \in [ok : {TRUE}, verified : BOOLEAN, output : Outputs] : outcome = r
      BY <2>2
    <3> QED
      BY <3>1
  <2> QED
    BY <2>1, <2>2 DEF Outcomes
<1>1. CASE GuardStops(TRUE) \/ BudgetExhausted
  BY <1>1, StoppedKept
<1>2. CASE /\ Within(TRUE) /\ Spend(TRUE) /\ round' = round \ {u} /\ Count(u, stage)
           /\ Executable(u) /\ ~(Total(u) >= AttemptLimit(u)) /\ phase # "convergence_failed"
           /\ Produced(u, outcome.output) \/ Accept(u, "valid") \/ SendBack(u)
  <2>1. UnitsSound'
    BY <1>0, <1>2, AcceptSound, ProducedSound, SendBackSound DEF Kept
  <2>2. Bounded'
    BY <1>2, CallBounded, KeptIsInvariant DEF IInv
  <2> QED
    BY <1>2, <2>1, <2>2, FewerIndependent DEF Kept, DepsOK
<1> QED
  BY <1>1, <1>2 DEF RecordUnitAttempt

LEMMA ApplyKept ==
  ASSUME Kept, deps' = deps, NEW u \in Units, Apply(u)
  PROVE  Kept'
BY FailUnitKept, CompleteUnitKept, RecordUnitAttemptKept DEF Apply

LEMMA NextKept ==
  ASSUME Kept, Next
  PROVE  Kept'
<1>0. deps' = deps /\ Step
  BY DEF Next
<1>1. CASE ApplyRound
  BY <1>0, <1>1, ApplyKept DEF ApplyRound, Kept
<1>2. CASE FinalizeGraph
  <2>1. UNCHANGED <<attempts, steps, runs, round>>
    BY <1>2 DEF FinalizeGraph, unitVars
  <2> QED
    BY <1>0, <1>2, <2>1, FinalizeSound, AttemptsStand DEF Kept, Bounded, DepsOK, RoundIndependent
<1>3. ASSUME NEW u \in Units, Apply(u)
      PROVE  Kept'
  BY <1>0, <1>3, ApplyKept
<1>4. ASSUME NEW u \in Units, RetryUnit(u)
      PROVE  Kept'
  <2>1. UNCHANGED <<attempts, steps, runs, round>>
    BY <1>4 DEF RetryUnit
  <2> QED
    BY <1>0, <1>4, <2>1, RetrySound, AttemptsStand DEF Kept, Bounded, DepsOK, RoundIndependent
<1>5. ASSUME NEW outcomes \in SUBSET Units, AdvanceGraph(outcomes)
      PROVE  Kept'
  BY <1>0, <1>5, AdvanceSound, AdvanceIndependent, AdvanceBounded DEF Kept, DepsOK
<1> QED
  BY <1>0, <1>1, <1>2, <1>3, <1>4, <1>5 DEF Step

LEMMA StandsKept ==
  ASSUME Kept, UNCHANGED vars
  PROVE  Kept'
<1>1. UNCHANGED <<deps, status, attempts, accepted, working, failed, phase, steps, runs, round>>
  BY DEF vars, unitVars
<1> QED
  BY <1>1 DEF Kept, UnitsSound, UnitsTyped, NothingDoneBehindOpen, FailedOutputsMatch, AcceptedValid,
       AcceptedAll, Bounded, Total, DepsOK, RoundIndependent

LEMMA InitKept == Init => Kept
<1> SUFFICES ASSUME Init PROVE Kept
  OBVIOUS
<1>1. DepsOK
  BY UnitAssumption DEF Init, DepsOK, Graph
<1>2. UnitsTyped
  BY DEF Init, UnitsTyped, Status, Outputs
<1>3. NothingDoneBehindOpen
  BY <1>1, BehindUnits DEF Init, NothingDoneBehindOpen, DepsOK
<1>4. FailedOutputsMatch /\ AcceptedValid /\ AcceptedAll
  BY DEF Init, FailedOutputsMatch, AcceptedValid, AcceptedAll
<1>5. Bounded
  <2>1. \A u \in Units : Total(u) = 0
    BY DEF Init, Total, Stages
  <2> QED
    BY <2>1, AttemptLimitNat, UnitAssumption DEF Init, Bounded
<1> QED
  BY <1>1, <1>2, <1>3, <1>4, <1>5 DEF Kept, UnitsSound, Init, RoundIndependent

THEOREM InductiveInvariant == Spec => []Kept
<1>1. Init => Kept
  BY InitKept
<1>2. Kept /\ [Next]_vars => Kept'
  <2>1. ASSUME Kept, UNCHANGED vars
        PROVE  Kept'
    BY <2>1, StandsKept
  <2> QED
    BY <2>1, NextKept
<1> QED
  BY <1>1, <1>2, PTL DEF Spec

\* No call lets a unit exceed its attempts, or the graph its steps and runs.
THEOREM UnitsTypeCorrect == Spec => []TypeOK
BY InductiveInvariant, KeptIsInvariant, PTL DEF IInv

\* A failure, or a retry, leaves nothing accepted or produced behind it.
THEOREM NothingDoneIsBehindOpen == Spec => []NothingDoneBehindOpen
BY InductiveInvariant, KeptIsInvariant, PTL DEF IInv

\* failed_outputs holds a record of each failed unit and of no other.
THEOREM FailuresAreRecorded == Spec => []FailedOutputsMatch
BY InductiveInvariant, KeptIsInvariant, PTL DEF IInv

\* The units one advance_graph applies are behind no other of the round and
\* share no ownership, whatever was applied before them.
THEOREM RoundsAreIndependent == Spec => []RoundIndependent
BY InductiveInvariant, KeptIsInvariant, PTL DEF IInv

\* A graph is accepted only with a valid accepted output of every unit.
THEOREM AcceptanceIsWhole == Spec => []AcceptedIsWhole
<1>1. Kept => AcceptedIsWhole
  BY DEF Kept, UnitsSound, AcceptedAll, AcceptedValid, AcceptedIsWhole
<1> QED
  BY <1>1, InductiveInvariant, PTL

\* What the graph records of attempts, failures and acceptance is so, and
\* within its limits.
THEOREM RecordsAreSound == Spec => []RecordsSound
BY UnitsTypeCorrect, FailuresAreRecorded, AcceptanceIsWhole, PTL DEF RecordsSound

(***************************************************************************)
(* The folds of the cycle search.  Folded(F, b, D) passes b through     *)
(* F[v] for the members v of D, in the order CHOOSE gives.           *)
(***************************************************************************)
Taken(s) == CHOOSE x \in s : TRUE
Folded(F, b, D) == FoldSet(LAMBDA v, a : F[v][a], b, D)

FoldPart(F, b, it, s) ==
  IF s = {} THEN b ELSE F[Taken(s)][it[s \ {Taken(s)}]]

Folds(F, b, D, it) == it = [s \in SUBSET D |-> FoldPart(F, b, it, s)]

LEMMA FoldIsChosen ==
  ASSUME NEW F, NEW b, NEW D
  PROVE  Folded(F, b, D) = (CHOOSE it : Folds(F, b, D, it))[D]
<1> DEFINE Body(it) == [s \in SUBSET D |->
                          IF s = {} THEN b
                          ELSE F[CHOOSE x \in s : TRUE][it[s \ {CHOOSE x \in s : TRUE}]]]
<1>1. Folded(F, b, D) = (CHOOSE it : it = Body(it))[D]
  BY DEF Folded, FoldSet, MapThenFoldSet
<1>2. ASSUME NEW it PROVE Folds(F, b, D, it) <=> it = Body(it)
  BY DEF Folds, FoldPart, Taken
<1>3. (CHOOSE it : it = Body(it)) = (CHOOSE it : Folds(F, b, D, it))
  <2> HIDE DEF Body
  <2> QED BY <1>2
<1> QED BY <1>1, <1>3

LEMMA FoldsExist ==
  ASSUME NEW F, NEW b, NEW D, IsFiniteSet(D)
  PROVE  \E it : Folds(F, b, D, it)
<1> DEFINE UpTo(it, k) == /\ it = [s \in SUBSET D |-> it[s]]
                          /\ \A s \in SUBSET D : Cardinality(s) < k => it[s] = FoldPart(F, b, it, s)
           Bad == {k \in Nat : \A it : ~UpTo(it, k)}
<1>0. \A s \in SUBSET D : IsFiniteSet(s) /\ Cardinality(s) \in Nat
  BY FS_Subset, FS_CardinalityType
<1>1. Bad = {}
  <2> SUFFICES ASSUME Bad # {} PROVE FALSE
    OBVIOUS
  <2>1. PICK k \in Bad : \A j \in Bad : k <= j
    <3>1. Bad \in SUBSET Nat
      OBVIOUS
    <3> HIDE DEF Bad
    <3> QED BY <3>1, LeastNatural
  <2>2. k \in Nat /\ \A it : ~UpTo(it, k)
    OBVIOUS
  <2>3. k # 0
    <3>1. UpTo([s \in SUBSET D |-> b], 0)
      BY <1>0
    <3> HIDE DEF UpTo
    <3> QED BY <2>2, <3>1
  <2>4. k - 1 \in Nat /\ k - 1 \notin Bad
    <3> HIDE DEF Bad
    <3> QED BY <2>1, <2>2, <2>3
  <2>5. PICK it : UpTo(it, k - 1)
    <3> HIDE DEF UpTo
    <3> QED BY <2>4
  <2> DEFINE h == [s \in SUBSET D |-> IF Cardinality(s) < k - 1 THEN it[s] ELSE FoldPart(F, b, it, s)]
  <2>6. h = [s \in SUBSET D |-> h[s]]
    OBVIOUS
  <2>7. ASSUME NEW s \in SUBSET D, Cardinality(s) < k PROVE h[s] = FoldPart(F, b, h, s)
    <3>1. h[s] = FoldPart(F, b, it, s)
      BY <2>5
    <3>2. CASE s = {}
      BY <3>1, <3>2 DEF FoldPart
    <3>3. CASE s # {}
      <4>1. PICK x : x = Taken(s)
        OBVIOUS
      <4>2. x \in s
        BY <3>3, <4>1 DEF Taken
      <4>3. s \ {x} \in SUBSET D /\ Cardinality(s \ {x}) = Cardinality(s) - 1
        BY <1>0, <4>2, FS_RemoveElement
      <4>4. Cardinality(s \ {x}) < k - 1
        BY <1>0, <2>2, <2>7, <4>3
      <4>5. h[s \ {x}] = it[s \ {x}]
        BY <4>3, <4>4
      <4> HIDE DEF h
      <4> QED BY <3>1, <4>1, <4>5 DEF FoldPart
    <3> QED BY <3>2, <3>3
  <2>8. UpTo(h, k)
    <3> HIDE DEF h
    <3> QED BY <2>6, <2>7
  <2> HIDE DEF UpTo, h
  <2> QED BY <2>2, <2>8
<1>2. Cardinality(D) + 1 \in Nat
  BY <1>0
<1>3. PICK it : UpTo(it, Cardinality(D) + 1)
  <2> HIDE DEF UpTo
  <2> QED BY <1>1, <1>2
<1>4. \A s \in SUBSET D : Cardinality(s) < Cardinality(D) + 1
  <2>1. \A s \in SUBSET D : Cardinality(s) <= Cardinality(D)
    BY FS_Subset
  <2> QED BY <1>0, <2>1
<1> QED BY <1>3, <1>4 DEF Folds

(* Two solutions agree wherever both are defined.                           *)
LEMMA FoldsAgree ==
  ASSUME NEW F, NEW b, NEW D, IsFiniteSet(D), NEW T \in SUBSET D, NEW i, NEW j,
         Folds(F, b, D, i), Folds(F, b, T, j)
  PROVE  i[T] = j[T]
<1> DEFINE Sizes == {Cardinality(s) : s \in {t \in SUBSET T : i[t] # j[t]}}
<1> SUFFICES ASSUME i[T] # j[T] PROVE FALSE
  OBVIOUS
<1>1. \A s \in SUBSET T : IsFiniteSet(s) /\ Cardinality(s) \in Nat
  BY FS_Subset, FS_CardinalityType
<1>2. Sizes \in SUBSET Nat /\ Sizes # {}
  BY <1>1
<1>3. PICK m \in Sizes : \A k \in Sizes : m <= k
  <2> HIDE DEF Sizes
  <2> QED BY <1>2, LeastNatural
<1>4. PICK s \in SUBSET T : m = Cardinality(s) /\ i[s] # j[s]
  OBVIOUS
<1>5. i[s] = FoldPart(F, b, i, s) /\ j[s] = FoldPart(F, b, j, s)
  BY DEF Folds
<1>6. s # {}
  BY <1>4, <1>5 DEF FoldPart
<1>7. PICK x : x = Taken(s)
  OBVIOUS
<1>8. x \in s
  BY <1>6, <1>7 DEF Taken
<1>9. s \ {x} \in SUBSET T /\ Cardinality(s \ {x}) = Cardinality(s) - 1
  BY <1>1, <1>8, FS_RemoveElement
<1>10. i[s \ {x}] = j[s \ {x}]
  <2> SUFFICES ASSUME i[s \ {x}] # j[s \ {x}] PROVE FALSE
    OBVIOUS
  <2>1. Cardinality(s \ {x}) \in Sizes
    BY <1>9
  <2>2. m <= Cardinality(s \ {x})
    <3> HIDE DEF Sizes
    <3> QED BY <1>3, <2>1
  <2>3. Cardinality(s) \in Nat
    BY <1>1
  <2> QED BY <1>4, <1>9, <2>2, <2>3
<1> QED BY <1>4, <1>5, <1>6, <1>7, <1>10 DEF FoldPart

LEMMA FoldUnfolds ==
  ASSUME NEW F, NEW b, NEW D, IsFiniteSet(D)
  PROVE  /\ Folded(F, b, {}) = b
         /\ D # {} => /\ Taken(D) \in D
                      /\ Folded(F, b, D) = F[Taken(D)][Folded(F, b, D \ {Taken(D)})]
<1>1. \A T \in SUBSET D : \E it : Folds(F, b, T, it) /\ Folded(F, b, T) = it[T]
  <2> TAKE T \in SUBSET D
  <2>1. \E it : Folds(F, b, T, it)
    BY FS_Subset, FoldsExist
  <2>2. PICK it : it = CHOOSE j : Folds(F, b, T, j)
    OBVIOUS
  <2>3. Folds(F, b, T, it)
    BY <2>1, <2>2
  <2>4. Folded(F, b, T) = it[T]
    BY <2>2, FoldIsChosen
  <2> QED BY <2>3, <2>4
<1>2. PICK it : Folds(F, b, D, it) /\ Folded(F, b, D) = it[D]
  BY <1>1
<1>3. \A T \in SUBSET D : Folded(F, b, T) = it[T]
  <2> TAKE T \in SUBSET D
  <2>1. PICK j : Folds(F, b, T, j) /\ Folded(F, b, T) = j[T]
    BY <1>1
  <2> QED BY <1>2, <2>1, FoldsAgree
<1>4. it[{}] = b
  BY <1>2 DEF Folds, FoldPart
<1>5. it[D] = FoldPart(F, b, it, D)
  BY <1>2 DEF Folds
<1>6. ASSUME D # {} PROVE /\ Taken(D) \in D
                          /\ Folded(F, b, D) = F[Taken(D)][Folded(F, b, D \ {Taken(D)})]
  <2>1. Taken(D) \in D /\ D \ {Taken(D)} \in SUBSET D
    BY <1>6 DEF Taken
  <2>2. it[D] = F[Taken(D)][it[D \ {Taken(D)}]]
    BY <1>5, <1>6 DEF FoldPart
  <2> QED BY <1>3, <2>1, <2>2
<1> QED BY <1>3, <1>4, <1>6

(* A relation between what is folded and the result, kept by each step,     *)
(* holds of the whole.                                                      *)
StepKeeps(F, D, R) ==
  \A s \in SUBSET D, x \in D : \A a : << s, a >> \in R => << s \cup {x}, F[x][a] >> \in R

LEMMA FoldKeeps ==
  ASSUME NEW F, NEW b, NEW D, IsFiniteSet(D), NEW R, << {}, b >> \in R, StepKeeps(F, D, R)
  PROVE  << D, Folded(F, b, D) >> \in R
<1> DEFINE P == {s \in SUBSET D : << s, Folded(F, b, s) >> \in R}
           Sizes == {Cardinality(s) : s \in (SUBSET D) \ P}
<1> SUFFICES ASSUME D \notin P PROVE FALSE
  OBVIOUS
<1>1. \A s \in SUBSET D : IsFiniteSet(s) /\ Cardinality(s) \in Nat
  BY FS_Subset, FS_CardinalityType
<1>2. Sizes \in SUBSET Nat /\ Sizes # {}
  <2> HIDE DEF P
  <2> QED BY <1>1
<1>3. PICK m \in Sizes : \A k \in Sizes : m <= k
  <2> HIDE DEF Sizes
  <2> QED BY <1>2, LeastNatural
<1>4. PICK s \in SUBSET D : m = Cardinality(s) /\ s \notin P
  <2> HIDE DEF P
  <2> QED OBVIOUS
<1>5. s # {}
  <2> SUFFICES ASSUME s = {} PROVE FALSE
    OBVIOUS
  <2>1. Folded(F, b, {}) = b
    BY FoldUnfolds, FS_EmptySet
  <2> QED BY <1>4, <2>1
<1>6. PICK c \in s : Folded(F, b, s) = F[c][Folded(F, b, s \ {c})]
  <2>1. IsFiniteSet(s)
    BY <1>1
  <2>2. Taken(s) \in s /\ Folded(F, b, s) = F[Taken(s)][Folded(F, b, s \ {Taken(s)})]
    <3> HIDE DEF P, Sizes
    <3> QED BY <1>5, <2>1, FoldUnfolds
  <2> QED BY <2>2
<1>7. s \ {c} \in SUBSET D /\ Cardinality(s \ {c}) = Cardinality(s) - 1
  BY <1>1, FS_RemoveElement
<1>8. s \ {c} \in P
  <2> SUFFICES ASSUME ~(s \ {c} \in P) PROVE FALSE
    OBVIOUS
  <2>1. Cardinality(s \ {c}) \in Sizes
    <3> HIDE DEF P
    <3> QED BY <1>7
  <2>2. m <= Cardinality(s \ {c})
    <3> HIDE DEF Sizes
    <3> QED BY <1>3, <2>1
  <2>3. Cardinality(s) \in Nat
    BY <1>1
  <2> HIDE DEF P, Sizes
  <2> QED BY <1>4, <1>7, <2>2, <2>3
<1>9. << (s \ {c}) \cup {c}, F[c][Folded(F, b, s \ {c})] >> \in R
  <2>1. << s \ {c}, Folded(F, b, s \ {c}) >> \in R
    BY <1>8
  <2>2. c \in D
    OBVIOUS
  <2> QED BY <1>7, <2>1, <2>2 DEF StepKeeps
<1>10. (s \ {c}) \cup {c} = s
  OBVIOUS
<1> QED BY <1>4, <1>6, <1>9, <1>10

(* Functions that agree where a fold looks give the same fold.              *)
Alike(F, H, D, Acc) ==
  \A x \in D, a \in Acc : F[x][a] = H[x][a] /\ F[x][a] \in Acc

LEMMA FoldSame ==
  ASSUME NEW F, NEW H, NEW b, NEW D, IsFiniteSet(D), NEW Acc, b \in Acc, Alike(F, H, D, Acc)
  PROVE  Folded(F, b, D) = Folded(H, b, D) /\ Folded(F, b, D) \in Acc
<1> DEFINE Same(s) == Folded(F, b, s) = Folded(H, b, s) /\ Folded(F, b, s) \in Acc
           Sizes == {Cardinality(s) : s \in {t \in SUBSET D : ~Same(t)}}
<1> SUFFICES ASSUME ~Same(D) PROVE FALSE
  OBVIOUS
<1>1. \A s \in SUBSET D : IsFiniteSet(s) /\ Cardinality(s) \in Nat
  BY FS_Subset, FS_CardinalityType
<1>2. Sizes \in SUBSET Nat /\ Sizes # {}
  <2> HIDE DEF Same
  <2> QED BY <1>1
<1>3. PICK m \in Sizes : \A k \in Sizes : m <= k
  <2> HIDE DEF Sizes
  <2> QED BY <1>2, LeastNatural
<1>4. PICK s \in SUBSET D : m = Cardinality(s) /\ ~Same(s)
  <2> HIDE DEF Same
  <2> QED OBVIOUS
<1>5. s # {}
  <2> SUFFICES ASSUME s = {} PROVE FALSE
    OBVIOUS
  <2>1. Folded(F, b, {}) = b /\ Folded(H, b, {}) = b
    BY FoldUnfolds, FS_EmptySet
  <2> QED BY <1>4, <2>1
<1>6. PICK c : c = Taken(s)
  OBVIOUS
<1>7. /\ c \in s /\ Folded(F, b, s) = F[c][Folded(F, b, s \ {c})]
      /\ Folded(H, b, s) = H[c][Folded(H, b, s \ {c})]
  <2>1. IsFiniteSet(s)
    BY <1>1
  <2>2. Taken(s) \in s /\ Folded(F, b, s) = F[Taken(s)][Folded(F, b, s \ {Taken(s)})]
    <3> HIDE DEF Same, Sizes
    <3> QED BY <1>5, <2>1, FoldUnfolds
  <2>3. Folded(H, b, s) = H[Taken(s)][Folded(H, b, s \ {Taken(s)})]
    <3> HIDE DEF Same, Sizes
    <3> QED BY <1>5, <2>1, FoldUnfolds
  <2> QED BY <1>6, <2>2, <2>3
<1>8. s \ {c} \in SUBSET D /\ Cardinality(s \ {c}) = Cardinality(s) - 1
  BY <1>1, <1>7, FS_RemoveElement
<1>9. Same(s \ {c})
  <2> SUFFICES ASSUME ~(Same(s \ {c})) PROVE FALSE
    OBVIOUS
  <2>1. Cardinality(s \ {c}) \in Sizes
    <3> HIDE DEF Same
    <3> QED BY <1>8
  <2>2. m <= Cardinality(s \ {c})
    <3> HIDE DEF Sizes
    <3> QED BY <1>3, <2>1
  <2>3. Cardinality(s) \in Nat
    BY <1>1
  <2> HIDE DEF Same, Sizes
  <2> QED BY <1>4, <1>8, <2>2, <2>3
<1>10. PICK p : p = Folded(F, b, s \ {c})
  OBVIOUS
<1>11. p \in Acc /\ p = Folded(H, b, s \ {c})
  BY <1>9, <1>10
<1>12. F[c][p] = H[c][p] /\ F[c][p] \in Acc
  <2>1. c \in D
    BY <1>7
  <2> QED BY <1>11, <2>1 DEF Alike
<1> QED BY <1>4, <1>7, <1>10, <1>11, <1>12

(***************************************************************************)
(* The cycle search.  Explores(g, V): V solves the recursion of            *)
(* find_cycles, so V[active][u] is the visit of u below the path `active`. *)
(***************************************************************************)
Visit(g, V, active, u, acc) ==
  IF u \in active THEN [acc EXCEPT !.cyclic = TRUE]
  ELSE IF u \in acc.seen THEN acc
  ELSE [Folded(V[active \cup {u}], acc, Dependents(g, u)) EXCEPT !.seen = @ \cup {u}]

Explores(g, V) ==
  V = [active \in SUBSET Units |-> [u \in Units |-> [acc \in Search |-> Visit(g, V, active, u, acc)]]]

Unseen == [seen |-> {}, cyclic |-> FALSE]

LEMMA SearchIsChosen ==
  ASSUME NEW g
  PROVE  FindCycles(g) = Folded((CHOOSE V : Explores(g, V))[{}], Unseen, Units)
<1> DEFINE Body(V) == [active \in SUBSET Units |-> [u \in Units |-> [acc \in Search |->
              IF u \in active THEN [acc EXCEPT !.cyclic = TRUE]
              ELSE IF u \in acc.seen THEN acc
              ELSE [FoldSet(LAMBDA v, a : V[active \cup {u}][v][a], acc, Dependents(g, u))
                      EXCEPT !.seen = @ \cup {u}]]]]
<1>1. FindCycles(g) = FoldSet(LAMBDA v, a : (CHOOSE V : V = Body(V))[{}][v][a], Unseen, Units)
  BY DEF FindCycles, Unseen
<1>2. ASSUME NEW V PROVE Explores(g, V) <=> V = Body(V)
  BY DEF Explores, Visit, Folded
<1>3. (CHOOSE V : V = Body(V)) = (CHOOSE V : Explores(g, V))
  <2> HIDE DEF Body
  <2> QED BY <1>2
<1>4. FindCycles(g) = Folded((CHOOSE V : V = Body(V))[{}], Unseen, Units)
  <2> HIDE DEF Body
  <2> QED BY <1>1 DEF Folded
<1> QED BY <1>3, <1>4

LEMMA DependentsFinite ==
  ASSUME NEW g, NEW u
  PROVE  Dependents(g, u) \subseteq Units /\ IsFiniteSet(Dependents(g, u)) /\ IsFiniteSet(Units)
<1>1. Dependents(g, u) \in SUBSET Units
  BY DEF Dependents
<1> QED BY <1>1, UnitsAssumption, FS_Subset

\* What is left of the units shrinks along a path.
LEMMA PathGrows ==
  ASSUME NEW active \in SUBSET Units, NEW u \in Units \ active
  PROVE  /\ active \cup {u} \in SUBSET Units
         /\ Cardinality(Units \ active) \in Nat /\ Cardinality(Units \ (active \cup {u})) \in Nat
         /\ Cardinality(Units \ (active \cup {u})) = Cardinality(Units \ active) - 1
<1>1. IsFiniteSet(Units \ active)
  BY UnitsAssumption, FS_Subset
<1>2. Units \ (active \cup {u}) = (Units \ active) \ {u} /\ u \in Units \ active
  OBVIOUS
<1>3. Cardinality((Units \ active) \ {u}) = Cardinality(Units \ active) - 1 /\ IsFiniteSet((Units \ active) \ {u})
  BY <1>1, <1>2, FS_RemoveElement
<1>4. Cardinality(Units \ active) \in Nat /\ Cardinality((Units \ active) \ {u}) \in Nat
  BY <1>1, <1>3, FS_CardinalityType
<1> QED BY <1>2, <1>3, <1>4

\* A visit looks at longer paths alone.
SameBelow(V, W, active, u) ==
  u \notin active => /\ V[active \cup {u}] \in [Units -> [Search -> Search]]
                     /\ W[active \cup {u}] = V[active \cup {u}]

LEMMA VisitSame ==
  ASSUME NEW g, NEW V, NEW W, NEW active \in SUBSET Units, NEW u \in Units, NEW acc \in Search,
         SameBelow(V, W, active, u)
  PROVE  /\ Visit(g, V, active, u, acc) \in Search
         /\ Visit(g, V, active, u, acc) = Visit(g, W, active, u, acc)
<1>1. CASE u \in active
  <2>1. [acc EXCEPT !.cyclic = TRUE] \in Search
    BY DEF Search
  <2> QED BY <1>1, <2>1 DEF Visit
<1>2. CASE u \notin active /\ u \in acc.seen
  BY <1>2 DEF Visit
<1>3. CASE u \notin active /\ u \notin acc.seen
  <2>1. PICK F : F = V[active \cup {u}]
    OBVIOUS
  <2>2. F \in [Units -> [Search -> Search]] /\ W[active \cup {u}] = F
    BY <1>3, <2>1 DEF SameBelow
  <2>3. Alike(F, F, Dependents(g, u), Search)
    BY <2>2, DependentsFinite DEF Alike
  <2>4. Folded(F, acc, Dependents(g, u)) \in Search
    BY <2>3, FoldSame, DependentsFinite
  <2>5. PICK a \in Search : a = Folded(F, acc, Dependents(g, u))
    BY <2>4
  <2>6. [a EXCEPT !.seen = @ \cup {u}] \in Search
    BY DEF Search
  <2>7. /\ Visit(g, V, active, u, acc) = [a EXCEPT !.seen = @ \cup {u}]
        /\ Visit(g, W, active, u, acc) = [a EXCEPT !.seen = @ \cup {u}]
    BY <1>3, <2>1, <2>2, <2>5 DEF Visit
  <2> QED BY <2>6, <2>7
<1> QED BY <1>1, <1>2, <1>3

LEMMA SearchExists ==
  ASSUME NEW g
  PROVE  \E V \in [SUBSET Units -> [Units -> [Search -> Search]]] : Explores(g, V)
<1> DEFINE Kind == [SUBSET Units -> [Units -> [Search -> Search]]]
           Left(A) == Cardinality(Units \ A)
           Solves(V, A) == V[A] = [u \in Units |-> [acc \in Search |-> Visit(g, V, A, u, acc)]]
           UpTo(V, k) == V \in Kind /\ \A A \in SUBSET Units : Left(A) < k => Solves(V, A)
           Bad == {k \in Nat : \A V : ~UpTo(V, k)}
<1>0. \A A \in SUBSET Units : Left(A) \in Nat /\ Left(A) <= Cardinality(Units)
  <2> TAKE A \in SUBSET Units
  <2>1. Units \ A \in SUBSET Units
    OBVIOUS
  <2> QED BY <2>1, UnitsAssumption, FS_Subset, FS_CardinalityType
<1>1. Bad = {}
  <2> SUFFICES ASSUME Bad # {} PROVE FALSE
    OBVIOUS
  <2>1. PICK k \in Bad : \A j \in Bad : k <= j
    <3>1. Bad \in SUBSET Nat
      OBVIOUS
    <3> HIDE DEF Bad
    <3> QED BY <3>1, LeastNatural
  <2>2. k \in Nat /\ \A V : ~UpTo(V, k)
    OBVIOUS
  <2>3. k # 0
    <3>1. [A \in SUBSET Units |-> [u \in Units |-> [acc \in Search |-> acc]]] \in Kind
      OBVIOUS
    <3>2. UpTo([A \in SUBSET Units |-> [u \in Units |-> [acc \in Search |-> acc]]], 0)
      <4> HIDE DEF Kind, Solves, Left
      <4> QED BY <1>0, <3>1
    <3> HIDE DEF UpTo
    <3> QED BY <2>2, <3>2
  <2>4. k - 1 \in Nat /\ k - 1 \notin Bad
    <3> HIDE DEF Bad
    <3> QED BY <2>1, <2>2, <2>3
  <2>5. PICK V : UpTo(V, k - 1)
    <3> HIDE DEF UpTo
    <3> QED BY <2>4
  <2> DEFINE New(A) == [u \in Units |-> [acc \in Search |-> Visit(g, V, A, u, acc)]]
             H == [A \in SUBSET Units |-> IF Left(A) < k THEN New(A) ELSE V[A]]
  <2>6. \A A \in SUBSET Units : V[A] \in [Units -> [Search -> Search]]
    <3> HIDE DEF Solves, Left
    <3> QED BY <2>5
  <2>7. ASSUME NEW A \in SUBSET Units
        PROVE  New(A) \in [Units -> [Search -> Search]]
    <3>1. \A u \in Units, acc \in Search : Visit(g, V, A, u, acc) \in Search
      <4> TAKE u \in Units, acc \in Search
      <4>1. SameBelow(V, V, A, u)
        BY <2>6 DEF SameBelow
      <4> HIDE DEF New, Left, UpTo, Bad, Kind
      <4> QED BY <4>1, VisitSame
    <3> QED BY <3>1
  <2>8. H \in Kind
    <3> HIDE DEF New, Left, UpTo
    <3> QED BY <2>6, <2>7
  <2>9. ASSUME NEW A \in SUBSET Units, Left(A) < k - 1 PROVE H[A] = V[A]
    <3>1. Left(A) < k
      <4> HIDE DEF Left
      <4> QED BY <1>0, <2>2, <2>9
    <3>2. H[A] = New(A)
      <4> HIDE DEF New, Left
      <4> QED BY <3>1
    <3>3. Solves(V, A)
      <4> HIDE DEF Kind, Solves, Left
      <4> QED BY <2>5, <2>9
    <3> QED BY <3>2, <3>3
  <2>10. ASSUME NEW A \in SUBSET Units, Left(A) < k PROVE Solves(H, A)
    <3>1. H[A] = New(A)
      <4> HIDE DEF New, Left
      <4> QED BY <2>10
    <3>2. ASSUME NEW u \in Units, NEW acc \in Search
          PROVE  Visit(g, V, A, u, acc) = Visit(g, H, A, u, acc)
      <4>1. ASSUME u \notin A PROVE H[A \cup {u}] = V[A \cup {u}] /\ V[A \cup {u}] \in [Units -> [Search -> Search]]
        <5>1. A \cup {u} \in SUBSET Units /\ Left(A \cup {u}) = Left(A) - 1
          BY <4>1, PathGrows
        <5>2. Left(A \cup {u}) < k - 1
          <6> HIDE DEF Left
          <6> QED BY <1>0, <2>2, <2>10, <5>1
        <5> QED BY <2>6, <2>9, <5>1, <5>2
      <4>2. PICK W : W = H
        OBVIOUS
      <4>3. SameBelow(V, W, A, u)
        BY <4>1, <4>2 DEF SameBelow
      <4>4. Visit(g, V, A, u, acc) = Visit(g, W, A, u, acc)
        <5> HIDE DEF H, New, Left, Solves, UpTo, Bad, Kind
        <5> QED BY <4>3, VisitSame
      <4> HIDE DEF H
      <4> QED BY <4>2, <4>4
    <3> HIDE DEF H
    <3> QED BY <3>1, <3>2
  <2>11. UpTo(H, k)
    <3> HIDE DEF H, Solves, Kind, Left
    <3> QED BY <2>8, <2>10
  <2> HIDE DEF UpTo, H
  <2> QED BY <2>2, <2>11
<1>2. Cardinality(Units) + 1 \in Nat
  BY UnitsAssumption, FS_CardinalityType
<1>3. PICK V : UpTo(V, Cardinality(Units) + 1)
  <2> HIDE DEF UpTo
  <2> QED BY <1>1, <1>2
<1>4. V \in Kind /\ \A A \in SUBSET Units : Solves(V, A)
  <2>1. \A A \in SUBSET Units : Left(A) < Cardinality(Units) + 1
    <3> HIDE DEF Left
    <3>1. Cardinality(Units) \in Nat
      BY UnitsAssumption, FS_CardinalityType
    <3> QED BY <1>0, <3>1
  <2> HIDE DEF Solves, Kind, Left
  <2> QED BY <1>3, <2>1
<1>5. Explores(g, V)
  BY <1>4 DEF Explores
<1> QED BY <1>4, <1>5

(***************************************************************************)
(* What a visit returns, for a solution V of the recursion.                *)
(***************************************************************************)
Finds(g, V) == Explores(g, V) /\ V \in [SUBSET Units -> [Units -> [Search -> Search]]]

LEMMA VisitUnfolds ==
  ASSUME NEW g, NEW V, Finds(g, V), NEW A \in SUBSET Units, NEW u \in Units, NEW acc \in Search
  PROVE  V[A][u][acc] = Visit(g, V, A, u, acc)
<1>1. V = [active \in SUBSET Units |-> [w \in Units |-> [a \in Search |-> Visit(g, V, active, w, a)]]]
  BY DEF Finds, Explores
<1>2. V[A] = [w \in Units |-> [a \in Search |-> Visit(g, V, A, w, a)]]
  BY <1>1
<1> QED BY <1>2

\* Every path of the search ends, so what a visit keeps when its longer paths
\* do, it keeps.  Q[A] is what is claimed of the visits below the path A.
LEMMA AlongPaths ==
  ASSUME NEW Q \in SUBSET SUBSET Units,
         \A A \in SUBSET Units : (\A u \in Units \ A : A \cup {u} \in Q) => A \in Q
  PROVE  \A A \in SUBSET Units : A \in Q
<1> SUFFICES ASSUME NEW A0 \in SUBSET Units, A0 \notin Q PROVE FALSE
  OBVIOUS
<1> DEFINE Left(A) == Cardinality(Units \ A)
           Sizes == {Left(A) : A \in (SUBSET Units) \ Q}
<1>1. \A A \in SUBSET Units : Left(A) \in Nat
  <2> TAKE A \in SUBSET Units
  <2>1. Units \ A \in SUBSET Units
    OBVIOUS
  <2> QED BY <2>1, UnitsAssumption, FS_Subset, FS_CardinalityType
<1>2. Sizes \in SUBSET Nat /\ Sizes # {}
  <2> HIDE DEF Left
  <2> QED BY <1>1
<1>3. PICK m \in Sizes : \A k \in Sizes : m <= k
  <2> HIDE DEF Sizes
  <2> QED BY <1>2, LeastNatural
<1>4. PICK A \in SUBSET Units : m = Left(A) /\ A \notin Q
  <2> HIDE DEF Left
  <2> QED OBVIOUS
<1>5. PICK u \in Units \ A : A \cup {u} \notin Q
  BY <1>4
<1>6. A \cup {u} \in SUBSET Units /\ Left(A \cup {u}) = Left(A) - 1 /\ Left(A) \in Nat
  BY PathGrows
<1>7. Left(A \cup {u}) \in Sizes
  <2> HIDE DEF Left
  <2> QED BY <1>5, <1>6
<1>8. m <= Left(A \cup {u})
  <2> HIDE DEF Left, Sizes
  <2> QED BY <1>3, <1>7
<1> HIDE DEF Left, Sizes
<1> QED BY <1>4, <1>6, <1>8

LEMMA SearchTyped ==
  ASSUME NEW g, NEW V, Explores(g, V)
  PROVE  V \in [SUBSET Units -> [Units -> [Search -> Search]]]
<1> DEFINE Q == {A \in SUBSET Units : V[A] \in [Units -> [Search -> Search]]}
<1>1. V = [active \in SUBSET Units |-> [w \in Units |-> [a \in Search |-> Visit(g, V, active, w, a)]]]
  BY DEF Explores
<1>2. ASSUME NEW A \in SUBSET Units, \A u \in Units \ A : A \cup {u} \in Q PROVE A \in Q
  <2>1. V[A] = [w \in Units |-> [a \in Search |-> Visit(g, V, A, w, a)]]
    BY <1>1
  <2>2. ASSUME NEW w \in Units, NEW a \in Search PROVE Visit(g, V, A, w, a) \in Search
    <3>1. w \notin A => V[A \cup {w}] \in [Units -> [Search -> Search]]
      BY <1>2
    <3>2. SameBelow(V, V, A, w)
      BY <3>1 DEF SameBelow
    <3> HIDE DEF Q
    <3> QED BY <3>2, VisitSame
  <2>3. [w \in Units |-> [a \in Search |-> Visit(g, V, A, w, a)]] \in [Units -> [Search -> Search]]
    BY <2>2
  <2> QED BY <2>1, <2>3
<1>3. \A A \in SUBSET Units : A \in Q
  <2>1. Q \in SUBSET SUBSET Units /\ \A A \in SUBSET Units : (\A u \in Units \ A : A \cup {u} \in Q) => A \in Q
    BY <1>2
  <2> HIDE DEF Q
  <2> QED BY <2>1, AlongPaths
<1>4. \A A \in SUBSET Units : V[A] \in [Units -> [Search -> Search]]
  BY <1>3
<1>5. V = [active \in SUBSET Units |-> V[active]]
  BY <1>1
<1> QED BY <1>4, <1>5

\* A search that begins clean below a path of units the unit is behind meets
\* its own path only where a unit is behind itself.
LEMMA VisitFindsCyclesOnly ==
  ASSUME NEW g \in Graph, NEW V, Finds(g, V), \A u \in Units : u \notin Behind(g, u)
  PROVE  \A A \in SUBSET Units : \A u \in Units : \A acc \in Search :
           ~acc.cyclic /\ (\A w \in A : u \in Behind(g, w)) => ~V[A][u][acc].cyclic
<1> DEFINE Clean(A) == \A u \in Units : \A acc \in Search :
                         ~acc.cyclic /\ (\A w \in A : u \in Behind(g, w)) => ~V[A][u][acc].cyclic
           Q == {A \in SUBSET Units : Clean(A)}
<1>1. ASSUME NEW A \in SUBSET Units, \A u \in Units \ A : A \cup {u} \in Q PROVE Clean(A)
  <2> SUFFICES ASSUME NEW u \in Units, NEW acc \in Search, ~acc.cyclic, \A w \in A : u \in Behind(g, w)
               PROVE  ~V[A][u][acc].cyclic
    OBVIOUS
  <2>1. V[A][u][acc] = Visit(g, V, A, u, acc)
    BY VisitUnfolds
  <2>2. u \notin A
    OBVIOUS
  <2>3. CASE u \in acc.seen
    BY <2>1, <2>2, <2>3 DEF Visit
  <2>4. CASE u \notin acc.seen
    <3>1. PICK F : F = V[A \cup {u}]
      OBVIOUS
    <3>2. A \cup {u} \in SUBSET Units /\ Clean(A \cup {u})
      BY <1>1, <2>2
    <3> DEFINE R == {p \in (SUBSET Units) \X Search : ~p[2].cyclic}
    <3>3. << {}, acc >> \in R
      OBVIOUS
    <3>4. StepKeeps(F, Dependents(g, u), R)
      <4> SUFFICES ASSUME NEW s \in SUBSET Dependents(g, u), NEW v \in Dependents(g, u), NEW a, << s, a >> \in R
                   PROVE  << s \cup {v}, F[v][a] >> \in R
        BY DEF StepKeeps
      <4>1. a \in Search /\ ~a.cyclic /\ s \cup {v} \in SUBSET Units /\ v \in Units
        BY DependentsFinite
      <4>2. v \in Behind(g, u)
        BY BehindClosed
      <4>3. \A w \in A \cup {u} : v \in Behind(g, w)
        BY <4>2, BehindTransitive
      <4>4. ~F[v][a].cyclic
        BY <3>1, <3>2, <4>1, <4>3
      <4>5. F[v][a] \in Search
        BY <3>1, <3>2, <4>1 DEF Finds
      <4> QED BY <4>1, <4>4, <4>5
    <3>5. << Dependents(g, u), Folded(F, acc, Dependents(g, u)) >> \in R
      <4> HIDE DEF R
      <4> QED BY <3>3, <3>4, FoldKeeps, DependentsFinite
    <3>6. PICK b \in Search : b = Folded(F, acc, Dependents(g, u)) /\ ~b.cyclic
      BY <3>5
    <3>7. V[A][u][acc] = [b EXCEPT !.seen = @ \cup {u}]
      BY <2>1, <2>2, <2>4, <3>1, <3>6 DEF Visit
    <3> QED BY <3>6, <3>7 DEF Search
  <2> QED BY <2>3, <2>4
<1>2. \A A \in SUBSET Units : A \in Q
  <2> HIDE DEF Clean
  <2>1. Q \in SUBSET SUBSET Units /\ \A A \in SUBSET Units : (\A u \in Units \ A : A \cup {u} \in Q) => A \in Q
    BY <1>1
  <2> HIDE DEF Q
  <2> QED BY <2>1, AlongPaths
<1> QED BY <1>2

\* The finished units are closed, and none of them is behind itself.
Finished(g, seen) ==
  \A x \in seen : Dependents(g, x) \subseteq seen /\ x \notin Behind(g, x)

LEMMA FinishedHoldsBehind ==
  ASSUME NEW g \in Graph, NEW seen \in SUBSET Units, Finished(g, seen),
         NEW u \in Units, Dependents(g, u) \subseteq seen, u \notin seen
  PROVE  Finished(g, seen \cup {u})
<1>1. Behind(g, u) \subseteq seen
  BY DEF Finished, Behind
<1> QED BY <1>1 DEF Finished

\* A visit that meets no cycle finishes its unit, and nothing on its path.
Visited(g, A, s, acc, b) ==
  /\ b \in Search
  /\ ~b.cyclic => ~acc.cyclic
  /\ ~b.cyclic /\ Finished(g, acc.seen) /\ acc.seen \cap A = {} =>
       Finished(g, b.seen) /\ acc.seen \cup s \subseteq b.seen /\ b.seen \cap A = {}

LEMMA VisitFinishes ==
  ASSUME NEW g \in Graph, NEW V, Finds(g, V)
  PROVE  \A A \in SUBSET Units : \A u \in Units : \A acc \in Search : Visited(g, A, {u}, acc, V[A][u][acc])
<1> DEFINE Through(A) == \A u \in Units : \A acc \in Search : Visited(g, A, {u}, acc, V[A][u][acc])
           Q == {A \in SUBSET Units : Through(A)}
<1>1. ASSUME NEW A \in SUBSET Units, \A u \in Units \ A : A \cup {u} \in Q PROVE Through(A)
  <2> SUFFICES ASSUME NEW u \in Units, NEW acc \in Search
               PROVE  Visited(g, A, {u}, acc, V[A][u][acc])
    OBVIOUS
  <2>1. V[A][u][acc] = Visit(g, V, A, u, acc) /\ V[A][u][acc] \in Search
    <3>1. V[A] \in [Units -> [Search -> Search]]
      BY DEF Finds
    <3> QED BY <3>1, VisitUnfolds
  <2>2. CASE u \in A
    <3>1. V[A][u][acc].cyclic
      BY <2>1, <2>2 DEF Visit, Search
    <3> QED BY <2>1, <3>1 DEF Visited
  <2>3. CASE u \notin A /\ u \in acc.seen
    <3>1. V[A][u][acc] = acc
      BY <2>1, <2>3 DEF Visit
    <3> QED BY <2>3, <3>1 DEF Visited
  <2>4. CASE u \notin A /\ u \notin acc.seen
    <3>1. PICK F : F = V[A \cup {u}]
      OBVIOUS
    <3>2. A \cup {u} \in SUBSET Units /\ Through(A \cup {u})
      BY <1>1, <2>4
    <3> DEFINE R == {p \in (SUBSET Units) \X Search : Visited(g, A \cup {u}, p[1], acc, p[2])}
    <3>3. << {}, acc >> \in R
      BY DEF Visited
    <3>4. StepKeeps(F, Dependents(g, u), R)
      <4> SUFFICES ASSUME NEW s \in SUBSET Dependents(g, u), NEW v \in Dependents(g, u), NEW a, << s, a >> \in R
                   PROVE  << s \cup {v}, F[v][a] >> \in R
        BY DEF StepKeeps
      <4>1. a \in Search /\ Visited(g, A \cup {u}, s, acc, a) /\ s \cup {v} \in SUBSET Units /\ v \in Units
        BY DependentsFinite
      <4>2. PICK b : b = F[v][a]
        OBVIOUS
      <4>3. Visited(g, A \cup {u}, {v}, a, b)
        BY <3>1, <3>2, <4>1, <4>2
      <4>4. Visited(g, A \cup {u}, s \cup {v}, acc, b) /\ b \in Search
        BY <4>1, <4>3 DEF Visited
      <4> QED BY <4>1, <4>2, <4>4
    <3>5. << Dependents(g, u), Folded(F, acc, Dependents(g, u)) >> \in R
      <4> HIDE DEF R
      <4> QED BY <3>3, <3>4, FoldKeeps, DependentsFinite
    <3>6. PICK b \in Search : b = Folded(F, acc, Dependents(g, u)) /\ Visited(g, A \cup {u}, Dependents(g, u), acc, b)
      BY <3>5
    <3>7. V[A][u][acc] = [b EXCEPT !.seen = @ \cup {u}]
      BY <2>1, <2>4, <3>1, <3>6 DEF Visit
    <3>8. PICK c \in Search : c = V[A][u][acc]
      BY <2>1
    <3>9. c.cyclic = b.cyclic /\ c.seen = b.seen \cup {u}
      BY <3>7, <3>8 DEF Search
    <3>10. ASSUME ~b.cyclic, Finished(g, acc.seen), acc.seen \cap A = {}
           PROVE  Finished(g, c.seen) /\ acc.seen \cup {u} \subseteq c.seen /\ c.seen \cap A = {}
      <4>1. acc.seen \cap (A \cup {u}) = {}
        BY <2>4, <3>10
      <4>2. Finished(g, b.seen) /\ acc.seen \cup Dependents(g, u) \subseteq b.seen /\ b.seen \cap (A \cup {u}) = {}
        BY <3>6, <3>10, <4>1 DEF Visited
      <4>3. b.seen \in SUBSET Units
        BY DEF Search
      <4>4. Finished(g, b.seen \cup {u})
        BY <4>2, <4>3, FinishedHoldsBehind
      <4> QED BY <2>4, <3>9, <4>2, <4>4
    <3>11. Visited(g, A, {u}, acc, c)
      BY <3>6, <3>9, <3>10 DEF Visited
    <3> QED BY <3>8, <3>11
  <2> QED BY <2>2, <2>3, <2>4
<1>2. \A A \in SUBSET Units : A \in Q
  <2> HIDE DEF Through
  <2>1. Q \in SUBSET SUBSET Units /\ \A A \in SUBSET Units : (\A u \in Units \ A : A \cup {u} \in Q) => A \in Q
    BY <1>1
  <2> HIDE DEF Q
  <2> QED BY <2>1, AlongPaths
<1> QED BY <1>2

(* find_cycles reports a cycle exactly where a unit is behind itself.       *)
LEMMA SearchIsExact ==
  ASSUME NEW g \in Graph
  PROVE  HasCycle(g) <=> \E u \in Units : u \in Behind(g, u)
<1>1. PICK V : V = CHOOSE W : Explores(g, W)
  OBVIOUS
<1>2. Explores(g, V)
  BY <1>1, SearchExists
<1>3. Finds(g, V)
  BY <1>2, SearchTyped DEF Finds
<1>4. PICK F : F = V[{}]
  OBVIOUS
<1>5. FindCycles(g) = Folded(F, Unseen, Units)
  BY <1>1, <1>4, SearchIsChosen
<1>6. Unseen \in Search /\ ~Unseen.cyclic /\ Unseen.seen = {}
  BY DEF Unseen, Search
<1>7. {} \in SUBSET Units /\ \A u \in Units : \A a \in Search : F[u][a] \in Search
  BY <1>3, <1>4 DEF Finds
<1>8. ASSUME \A u \in Units : u \notin Behind(g, u) PROVE ~HasCycle(g)
  <2> DEFINE R == {p \in (SUBSET Units) \X Search : ~p[2].cyclic}
  <2>1. << {}, Unseen >> \in R
    BY <1>6
  <2>2. \A u \in Units : \A a \in Search : ~a.cyclic => ~F[u][a].cyclic
    BY <1>3, <1>4, <1>8, VisitFindsCyclesOnly
  <2>3. StepKeeps(F, Units, R)
    BY <1>7, <2>2 DEF StepKeeps
  <2>4. << Units, Folded(F, Unseen, Units) >> \in R
    <3> HIDE DEF R
    <3> QED BY <2>1, <2>3, FoldKeeps, UnitsAssumption
  <2> QED BY <1>5, <2>4 DEF HasCycle
<1>9. ASSUME ~HasCycle(g) PROVE \A u \in Units : u \notin Behind(g, u)
  <2> DEFINE R == {p \in (SUBSET Units) \X Search : Visited(g, {}, p[1], Unseen, p[2])}
  <2>1. << {}, Unseen >> \in R
    BY <1>6 DEF Visited
  <2>2. \A u \in Units : \A a \in Search : Visited(g, {}, {u}, a, F[u][a])
    BY <1>3, <1>4, VisitFinishes
  <2>3. StepKeeps(F, Units, R)
    <3> SUFFICES ASSUME NEW s \in SUBSET Units, NEW v \in Units, NEW a, << s, a >> \in R
                 PROVE  << s \cup {v}, F[v][a] >> \in R
      BY DEF StepKeeps
    <3>1. a \in Search /\ Visited(g, {}, s, Unseen, a)
      OBVIOUS
    <3>2. PICK b : b = F[v][a]
      OBVIOUS
    <3>3. Visited(g, {}, {v}, a, b)
      BY <2>2, <3>1, <3>2
    <3>4. Visited(g, {}, s \cup {v}, Unseen, b) /\ b \in Search
      BY <3>1, <3>3 DEF Visited
    <3> QED BY <3>2, <3>4
  <2>4. << Units, Folded(F, Unseen, Units) >> \in R
    <3> HIDE DEF R
    <3> QED BY <2>1, <2>3, FoldKeeps, UnitsAssumption
  <2>5. PICK b \in Search : b = FindCycles(g) /\ Visited(g, {}, Units, Unseen, b)
    BY <1>5, <2>4
  <2>6. ~b.cyclic
    BY <1>9, <2>5 DEF HasCycle
  <2>7. Finished(g, b.seen) /\ Units \subseteq b.seen
    BY <1>6, <2>5, <2>6 DEF Visited, Finished
  <2> QED BY <2>7 DEF Finished
<1> QED BY <1>8, <1>9

(***************************************************************************)
(* The order.  Sorts(g, K): K solves the recursion of topological_order;   *)
(* K[out] orders the units that can follow those of out.                   *)
(***************************************************************************)
CanFollow(g, out) == {u \in Units \ out : g[u] \subseteq out}
Sorted(g, K, out) ==
  IF CanFollow(g, out) = {} THEN <<>> ELSE <<Min(CanFollow(g, out))>> \o K[out \cup {Min(CanFollow(g, out))}]
Sorts(g, K) == K = [out \in SUBSET Units |-> Sorted(g, K, out)]

LEMMA OrderIsChosen ==
  ASSUME NEW g
  PROVE  TopologicalOrder(g) = (CHOOSE K : Sorts(g, K))[{}]
<1> DEFINE Body(K) == [out \in SUBSET Units |->
              IF {u \in Units \ out : g[u] \subseteq out} = {} THEN <<>>
              ELSE <<Min({u \in Units \ out : g[u] \subseteq out})>>
                     \o K[out \cup {Min({u \in Units \ out : g[u] \subseteq out})}]]
<1>1. TopologicalOrder(g) = (CHOOSE K : K = Body(K))[{}]
  BY DEF TopologicalOrder
<1>2. ASSUME NEW K PROVE Sorts(g, K) <=> K = Body(K)
  BY DEF Sorts, Sorted, CanFollow
<1>3. (CHOOSE K : K = Body(K)) = (CHOOSE K : Sorts(g, K))
  <2> HIDE DEF Body
  <2> QED BY <1>2
<1> QED BY <1>1, <1>3

LEMMA LeastIsNext ==
  ASSUME NEW g, NEW out, CanFollow(g, out) # {}
  PROVE  Min(CanFollow(g, out)) \in CanFollow(g, out)
<1>1. CanFollow(g, out) \in SUBSET Nat
  BY UnitsAssumption DEF CanFollow
<1>2. \E m \in CanFollow(g, out) : \A k \in CanFollow(g, out) : m <= k
  BY <1>1, LeastNatural
<1> QED BY <1>2 DEF Min

LEMMA OrderExists ==
  ASSUME NEW g
  PROVE  \E K : Sorts(g, K)
<1> DEFINE Left(A) == Cardinality(Units \ A)
           Solves(K, A) == K[A] = Sorted(g, K, A)
           UpTo(K, k) == K = [A \in SUBSET Units |-> K[A]] /\ \A A \in SUBSET Units : Left(A) < k => Solves(K, A)
           Bad == {k \in Nat : \A K : ~UpTo(K, k)}
<1>0. \A A \in SUBSET Units : Left(A) \in Nat /\ Left(A) <= Cardinality(Units)
  <2> TAKE A \in SUBSET Units
  <2>1. Units \ A \in SUBSET Units
    OBVIOUS
  <2> QED BY <2>1, UnitsAssumption, FS_Subset, FS_CardinalityType
<1>1. Bad = {}
  <2> SUFFICES ASSUME Bad # {} PROVE FALSE
    OBVIOUS
  <2>1. PICK k \in Bad : \A j \in Bad : k <= j
    <3>1. Bad \in SUBSET Nat
      OBVIOUS
    <3> HIDE DEF Bad
    <3> QED BY <3>1, LeastNatural
  <2>2. k \in Nat /\ \A K : ~UpTo(K, k)
    OBVIOUS
  <2>3. k # 0
    <3>1. UpTo([A \in SUBSET Units |-> <<>>], 0)
      <4> HIDE DEF Solves, Left
      <4> QED BY <1>0
    <3> HIDE DEF UpTo
    <3> QED BY <2>2, <3>1
  <2>4. k - 1 \in Nat /\ k - 1 \notin Bad
    <3> HIDE DEF Bad
    <3> QED BY <2>1, <2>2, <2>3
  <2>5. PICK K : UpTo(K, k - 1)
    <3> HIDE DEF UpTo
    <3> QED BY <2>4
  <2> DEFINE H == [A \in SUBSET Units |-> IF Left(A) < k THEN Sorted(g, K, A) ELSE K[A]]
  <2>6. H = [A \in SUBSET Units |-> H[A]]
    OBVIOUS
  <2>9. ASSUME NEW A \in SUBSET Units, Left(A) < k - 1 PROVE H[A] = K[A]
    <3>1. Left(A) < k
      <4> HIDE DEF Left
      <4> QED BY <1>0, <2>2, <2>9
    <3>2. H[A] = Sorted(g, K, A)
      <4> HIDE DEF Left
      <4> QED BY <3>1
    <3>3. Solves(K, A)
      <4> HIDE DEF Solves, Left
      <4> QED BY <2>5, <2>9
    <3> QED BY <3>2, <3>3
  <2>10. ASSUME NEW A \in SUBSET Units, Left(A) < k PROVE Solves(H, A)
    <3>1. H[A] = Sorted(g, K, A)
      <4> HIDE DEF Left
      <4> QED BY <2>10
    <3>2. Sorted(g, H, A) = Sorted(g, K, A)
      <4>1. CASE CanFollow(g, A) = {}
        BY <4>1 DEF Sorted
      <4>2. CASE CanFollow(g, A) # {}
        <5>1. PICK m : m = Min(CanFollow(g, A))
          OBVIOUS
        <5>2. m \in Units \ A
          BY <4>2, <5>1, LeastIsNext DEF CanFollow
        <5>3. A \cup {m} \in SUBSET Units /\ Left(A \cup {m}) = Left(A) - 1
          BY <5>2, PathGrows
        <5>4. Left(A \cup {m}) < k - 1
          <6> HIDE DEF Left
          <6> QED BY <1>0, <2>2, <2>10, <5>3
        <5>5. H[A \cup {m}] = K[A \cup {m}]
          BY <2>9, <5>3, <5>4
        <5> HIDE DEF H
        <5> QED BY <4>2, <5>1, <5>5 DEF Sorted
      <4> QED BY <4>1, <4>2
    <3> HIDE DEF H
    <3> QED BY <3>1, <3>2
  <2>11. UpTo(H, k)
    <3> HIDE DEF H, Solves, Left
    <3> QED BY <2>6, <2>10
  <2> HIDE DEF UpTo, H
  <2> QED BY <2>2, <2>11
<1>2. Cardinality(Units) \in Nat
  BY UnitsAssumption, FS_CardinalityType
<1>3. PICK K : UpTo(K, Cardinality(Units) + 1)
  <2>1. Cardinality(Units) + 1 \in Nat
    BY <1>2
  <2> HIDE DEF UpTo
  <2> QED BY <1>1, <2>1
<1>4. \A A \in SUBSET Units : Left(A) < Cardinality(Units) + 1
  <2> HIDE DEF Left
  <2> QED BY <1>0, <1>2
<1>5. K = [A \in SUBSET Units |-> K[A]] /\ \A A \in SUBSET Units : Solves(K, A)
  <2> HIDE DEF Solves, Left
  <2> QED BY <1>3, <1>4
<1> QED BY <1>5 DEF Sorts

(***************************************************************************)
(* What the order holds: units that were not out, each once, each after    *)
(* what it depends on, and all that could follow.                          *)
(***************************************************************************)
Ahead(out, s, n) == out \cup {s[k] : k \in 1 .. n}
InOrder(g, out, s) ==
  /\ s \in Seq(Units)
  /\ \A k \in 1 .. Len(s) : s[k] \notin Ahead(out, s, k - 1) /\ g[s[k]] \subseteq Ahead(out, s, k - 1)
  /\ CanFollow(g, Ahead(out, s, Len(s))) = {}

LEMMA SortedInOrder ==
  ASSUME NEW g, NEW K, Sorts(g, K)
  PROVE  \A out \in SUBSET Units : InOrder(g, out, K[out])
<1> DEFINE Q == {out \in SUBSET Units : InOrder(g, out, K[out])}
<1>1. ASSUME NEW out \in SUBSET Units, \A u \in Units \ out : out \cup {u} \in Q PROVE InOrder(g, out, K[out])
  <2>1. K[out] = Sorted(g, K, out)
    BY DEF Sorts
  <2>2. CASE CanFollow(g, out) = {}
    <3>1. PICK s : s = << >>
      OBVIOUS
    <3>2. K[out] = s /\ s \in Seq(Units) /\ Len(s) = 0
      BY <2>1, <2>2, <3>1 DEF Sorted
    <3>3. Ahead(out, s, 0) = out
      BY DEF Ahead
    <3> QED BY <2>2, <3>2, <3>3 DEF InOrder
  <2>3. CASE CanFollow(g, out) # {}
    <3>1. PICK m : m = Min(CanFollow(g, out))
      OBVIOUS
    <3>2. m \in Units \ out /\ g[m] \subseteq out
      BY <2>3, <3>1, LeastIsNext DEF CanFollow
    <3>3. PICK t : t = K[out \cup {m}]
      OBVIOUS
    <3>4. InOrder(g, out \cup {m}, t)
      BY <1>1, <3>2, <3>3
    <3>5. PICK s : s = <<m>> \o t
      OBVIOUS
    <3>6. K[out] = s
      BY <2>1, <2>3, <3>1, <3>3, <3>5 DEF Sorted
    <3>7. /\ t \in Seq(Units) /\ s \in Seq(Units) /\ Len(s) = Len(t) + 1 /\ Len(t) \in Nat
          /\ s[1] = m /\ \A k \in 1 .. Len(t) : s[k + 1] = t[k]
      BY <3>2, <3>4, <3>5 DEF InOrder
    <3>8. ASSUME NEW n \in 0 .. Len(t) PROVE Ahead(out \cup {m}, t, n) = Ahead(out, s, n + 1)
      <4>1. ASSUME NEW x \in Ahead(out \cup {m}, t, n) PROVE x \in Ahead(out, s, n + 1)
        <5>1. CASE x \in out
          BY <5>1 DEF Ahead
        <5>2. CASE x = m
          <6>1. 1 \in 1 .. n + 1
            OBVIOUS
          <6> QED BY <3>7, <5>2, <6>1 DEF Ahead
        <5>3. CASE \E k \in 1 .. n : x = t[k]
          <6>1. PICK k \in 1 .. n : x = t[k]
            BY <5>3
          <6>2. k \in 1 .. Len(t) /\ k + 1 \in 1 .. n + 1 /\ x = s[k + 1]
            BY <3>7, <6>1
          <6> QED BY <6>2 DEF Ahead
        <5> QED BY <5>1, <5>2, <5>3 DEF Ahead
      <4>2. ASSUME NEW x \in Ahead(out, s, n + 1) PROVE x \in Ahead(out \cup {m}, t, n)
        <5>1. CASE x \in out
          BY <5>1 DEF Ahead
        <5>2. CASE \E k \in 1 .. n + 1 : x = s[k]
          <6>1. PICK k \in 1 .. n + 1 : x = s[k]
            BY <5>2
          <6>2. CASE k = 1
            BY <3>7, <6>1, <6>2 DEF Ahead
          <6>3. CASE k # 1
            <7>1. k - 1 \in 1 .. n /\ k - 1 \in 1 .. Len(t) /\ x = t[k - 1]
              BY <3>7, <6>1, <6>3
            <7> QED BY <7>1 DEF Ahead
          <6> QED BY <6>2, <6>3
        <5> QED BY <5>1, <5>2 DEF Ahead
      <4> QED BY <4>1, <4>2
    <3>9. ASSUME NEW k \in 1 .. Len(s)
          PROVE  s[k] \notin Ahead(out, s, k - 1) /\ g[s[k]] \subseteq Ahead(out, s, k - 1)
      <4>1. CASE k = 1
        <5>1. Ahead(out, s, 0) = out
          BY DEF Ahead
        <5> QED BY <3>2, <3>7, <4>1, <5>1
      <4>2. CASE k # 1
        <5>1. PICK j \in 1 .. Len(t) : k = j + 1
          <6>1. k - 1 \in 1 .. Len(t) /\ k = (k - 1) + 1
            BY <3>7, <4>2
          <6> QED BY <6>1
        <5>2. t[j] \notin Ahead(out \cup {m}, t, j - 1) /\ g[t[j]] \subseteq Ahead(out \cup {m}, t, j - 1)
          BY <3>4 DEF InOrder
        <5>3. j - 1 \in 0 .. Len(t) /\ (j - 1) + 1 = j /\ k - 1 = j
          BY <3>7, <5>1
        <5>4. Ahead(out \cup {m}, t, j - 1) = Ahead(out, s, k - 1)
          BY <3>8, <5>3
        <5> QED BY <3>7, <5>1, <5>2, <5>4
      <4> QED BY <4>1, <4>2
    <3>10. Ahead(out \cup {m}, t, Len(t)) = Ahead(out, s, Len(s))
      <4>1. Len(t) \in 0 .. Len(t)
        BY <3>7
      <4>2. Ahead(out \cup {m}, t, Len(t)) = Ahead(out, s, Len(t) + 1)
        BY <3>8, <4>1
      <4> QED BY <3>7, <4>2
    <3> QED BY <3>4, <3>6, <3>7, <3>9, <3>10 DEF InOrder
  <2> QED BY <2>2, <2>3
<1>2. \A out \in SUBSET Units : out \in Q
  <2>1. Q \in SUBSET SUBSET Units /\ \A A \in SUBSET Units : (\A u \in Units \ A : A \cup {u} \in Q) => A \in Q
    BY <1>1
  <2> HIDE DEF Q
  <2> QED BY <2>1, AlongPaths
<1> QED BY <1>2

\* The order, whatever the graph.
Order(g, s) == InOrder(g, {}, s)

LEMMA OrderOnce ==
  ASSUME NEW g, NEW s, Order(g, s), NEW i \in 1 .. Len(s), NEW j \in 1 .. Len(s), s[i] = s[j]
  PROVE  i = j
<1>1. s \in Seq(Units) /\ Len(s) \in Nat
  BY DEF Order, InOrder
<1>2. ASSUME NEW a \in 1 .. Len(s), NEW b \in 1 .. Len(s), a < b PROVE s[a] # s[b]
  <2>1. a \in 1 .. b - 1
    BY <1>1, <1>2
  <2>2. s[b] \notin Ahead({}, s, b - 1)
    BY DEF Order, InOrder
  <2> QED BY <2>1, <2>2 DEF Ahead
<1>3. i < j \/ j < i \/ i = j
  BY <1>1
<1> QED BY <1>2, <1>3

\* A unit comes after all it is behind.
LEMMA OrderPutsBehindLater ==
  ASSUME NEW g \in Graph, NEW s, Order(g, s), NEW i \in 1 .. Len(s), NEW j \in 1 .. Len(s),
         s[i] \in Behind(g, s[j])
  PROVE  j < i
<1>1. s \in Seq(Units) /\ Len(s) \in Nat /\ i \in Nat /\ j \in Nat
  BY DEF Order, InOrder
<1> DEFINE Up == {s[k] : k \in 1 .. j}
           S == Units \ Up
<1>2. ASSUME NEW n \in 1 .. Len(s), NEW w \in g[s[n]] PROVE \E k \in 1 .. n - 1 : w = s[k]
  <2>1. g[s[n]] \subseteq Ahead({}, s, n - 1)
    BY DEF Order, InOrder
  <2> QED BY <2>1 DEF Ahead
<1>3. Dependents(g, s[j]) \subseteq S
  <2> SUFFICES ASSUME NEW v \in Dependents(g, s[j]), v \in Up PROVE FALSE
    BY DEF Dependents
  <2>1. PICK k \in 1 .. j : v = s[k]
    OBVIOUS
  <2>2. s[j] \in g[s[k]] /\ k \in 1 .. Len(s)
    BY <1>1, <2>1 DEF Dependents
  <2>3. PICK n \in 1 .. k - 1 : s[j] = s[n]
    BY <1>2, <2>2
  <2>4. n \in 1 .. Len(s) /\ n < j
    BY <1>1, <2>1, <2>3
  <2>5. n = j
    BY <2>3, <2>4, OrderOnce
  <2> QED BY <1>1, <2>4, <2>5
<1>4. ASSUME NEW w \in S, NEW v \in Dependents(g, w), v \in Up PROVE FALSE
  <2>1. PICK k \in 1 .. j : v = s[k]
    BY <1>4
  <2>2. w \in g[s[k]] /\ k \in 1 .. Len(s)
    BY <1>1, <2>1 DEF Dependents
  <2>3. PICK n \in 1 .. k - 1 : w = s[n]
    BY <1>2, <2>2
  <2>4. n \in 1 .. j
    BY <1>1, <2>1, <2>3
  <2> QED BY <2>3, <2>4
<1>5. \A w \in S : Dependents(g, w) \subseteq S
  BY <1>4 DEF Dependents
<1>6. S \in SUBSET Units
  OBVIOUS
<1>7. s[i] \in S
  <2> HIDE DEF S
  <2> QED BY <1>3, <1>5, <1>6 DEF Behind
<1>8. ~(i <= j)
  <2> SUFFICES ASSUME i <= j PROVE FALSE
    OBVIOUS
  <2>1. i \in 1 .. j
    BY <1>1
  <2> QED BY <1>7, <2>1
<1> QED BY <1>1, <1>8

\* Where no unit is behind itself, of any units one depends on no other of
\* them: one that is behind the fewest.
LEMMA OneIsFirst ==
  ASSUME NEW g \in Graph, \A u \in Units : u \notin Behind(g, u),
         NEW W \in SUBSET Units, W # {}
  PROVE  \E w \in W : g[w] \cap W = {}
<1> DEFINE Fore(w) == {x \in Units : w \in Behind(g, x)}
           Sizes == {Cardinality(Fore(w)) : w \in W}
<1>1. \A w \in Units : IsFiniteSet(Fore(w)) /\ Cardinality(Fore(w)) \in Nat
  <2> TAKE w \in Units
  <2>1. Fore(w) \in SUBSET Units
    OBVIOUS
  <2> QED BY <2>1, UnitsAssumption, FS_Subset, FS_CardinalityType
<1>2. Sizes \in SUBSET Nat /\ Sizes # {}
  <2> HIDE DEF Fore
  <2> QED BY <1>1
<1>3. PICK m \in Sizes : \A k \in Sizes : m <= k
  <2> HIDE DEF Sizes
  <2> QED BY <1>2, LeastNatural
<1>4. PICK w \in W : m = Cardinality(Fore(w))
  <2> HIDE DEF Fore
  <2> QED OBVIOUS
<1>5. SUFFICES ASSUME NEW d \in g[w] \cap W PROVE FALSE
  OBVIOUS
<1>6. w \in Behind(g, d) /\ w \in Units /\ d \in Units
  <2>1. w \in Units /\ d \in Units /\ w \in Dependents(g, d)
    BY DEF Dependents
  <2> QED BY <2>1, BehindClosed
<1>7. Fore(d) \in SUBSET Fore(w) /\ d \in Fore(w) /\ d \notin Fore(d)
  BY <1>6, BehindTransitive
<1>8. Cardinality(Fore(d)) < Cardinality(Fore(w))
  <2> HIDE DEF Fore
  <2>1. Cardinality(Fore(d)) <= Cardinality(Fore(w)) /\ Cardinality(Fore(d)) # Cardinality(Fore(w))
    BY <1>1, <1>6, <1>7, FS_Subset
  <2> QED BY <1>1, <1>6, <2>1
<1>9. Cardinality(Fore(d)) \in Sizes
  OBVIOUS
<1>10. m <= Cardinality(Fore(d))
  <2> HIDE DEF Sizes
  <2> QED BY <1>3, <1>9
<1> HIDE DEF Fore, Sizes
<1> QED BY <1>1, <1>4, <1>6, <1>8, <1>10

\* Where no unit is behind itself the order holds them all, as of units left
\* one could follow.
LEMMA OrderIsWhole ==
  ASSUME NEW g \in Graph, NEW s, Order(g, s), \A u \in Units : u \notin Behind(g, u)
  PROVE  Ahead({}, s, Len(s)) = Units
<1> DEFINE T == Ahead({}, s, Len(s))
           W == Units \ T
<1>1. T \in SUBSET Units
  BY DEF Order, InOrder, Ahead
<1>2. SUFFICES ASSUME W # {} PROVE FALSE
  BY <1>1
<1>3. W \in SUBSET Units
  OBVIOUS
<1>4. PICK w \in W : g[w] \cap W = {}
  <2> HIDE DEF W
  <2> QED BY <1>2, <1>3, OneIsFirst
<1>5. w \in Units /\ g[w] \in SUBSET Units
  BY <1>4 DEF Graph
<1>6. w \in CanFollow(g, T)
  BY <1>4, <1>5 DEF CanFollow
<1>7. CanFollow(g, T) = {}
  BY DEF Order, InOrder
<1> QED BY <1>6, <1>7

\* The order is shorter than the units exactly where one of them is behind
\* itself.
LEMMA OrderIsShort ==
  ASSUME NEW g \in Graph, NEW s, Order(g, s)
  PROVE  Len(s) < Cardinality(Units) <=> \E u \in Units : u \in Behind(g, u)
<1>1. s \in Seq(Units) /\ Len(s) \in Nat /\ Cardinality(Units) \in Nat
  BY UnitsAssumption, FS_CardinalityType DEF Order, InOrder
<1>2. IsFiniteSet(1 .. Len(s)) /\ Cardinality(1 .. Len(s)) = Len(s)
  <2>1. PICK n \in Nat : n = Len(s)
    BY <1>1
  <2>2. IsFiniteSet(1 .. n) /\ Cardinality(1 .. n) = IF 1 > n THEN 0 ELSE n - 1 + 1
    BY FS_Interval
  <2> QED BY <2>1, <2>2
<1>3. s \in Injection(1 .. Len(s), Units)
  <2>1. s \in [1 .. Len(s) -> Units]
    BY <1>1
  <2>2. \A i, j \in 1 .. Len(s) : s[i] = s[j] => i = j
    BY OrderOnce
  <2> QED BY <2>1, <2>2 DEF Injection, IsInjective
<1>4. Len(s) <= Cardinality(Units) /\ (Len(s) = Cardinality(Units) <=> s \in Surjection(1 .. Len(s), Units))
  BY <1>2, <1>3, UnitsAssumption, FS_Injection
<1>5. s \in Surjection(1 .. Len(s), Units) <=> \A u \in Units : \E k \in 1 .. Len(s) : s[k] = u
  <2>1. s \in [1 .. Len(s) -> Units]
    BY <1>1
  <2> QED BY <2>1 DEF Surjection
<1>6. ASSUME \A u \in Units : u \notin Behind(g, u) PROVE ~(Len(s) < Cardinality(Units))
  <2>1. Ahead({}, s, Len(s)) = Units
    BY <1>6, OrderIsWhole
  <2>2. \A u \in Units : \E k \in 1 .. Len(s) : s[k] = u
    BY <2>1 DEF Ahead
  <2> QED BY <1>1, <1>4, <1>5, <2>2
<1>7. ASSUME NEW u \in Units, u \in Behind(g, u), ~(Len(s) < Cardinality(Units)) PROVE FALSE
  <2>1. Len(s) = Cardinality(Units)
    BY <1>1, <1>4, <1>7
  <2>2. PICK k \in 1 .. Len(s) : s[k] = u
    BY <1>4, <1>5, <2>1
  <2>3. k < k
    BY <1>7, <2>2, OrderPutsBehindLater
  <2> QED BY <1>1, <2>3
<1> QED BY <1>6, <1>7

LEMMA OrderInOrder ==
  ASSUME NEW g
  PROVE  Order(g, TopologicalOrder(g))
<1>1. PICK K : K = CHOOSE J : Sorts(g, J)
  OBVIOUS
<1>2. Sorts(g, K)
  BY <1>1, OrderExists
<1>3. TopologicalOrder(g) = K[{}]
  BY <1>1, OrderIsChosen
<1>4. {} \in SUBSET Units
  OBVIOUS
<1> QED BY <1>2, <1>3, <1>4, SortedInOrder DEF Order

(***************************************************************************)
(* A graph is refused where the search finds a cycle, and only by          *)
(* create_graph.                                                           *)
(***************************************************************************)
Refused == deps \in Graph /\ (phase = "refused" <=> HasCycle(deps))

LEMMA NoCallRefuses ==
  ASSUME phase # "refused", Step
  PROVE  phase' # "refused"
<1>1. Refreshed(status') # "refused" /\ Refreshed(status) # "refused"
  BY DEF Refreshed
<1>2. ASSUME ConvergenceFailed PROVE phase' # "refused"
  BY <1>2 DEF ConvergenceFailed
<1>3. ASSUME NEW u, SendBack(u) PROVE phase' # "refused"
  BY <1>3 DEF SendBack
<1>4. ASSUME NEW u, NEW o, Accept(u, o) \/ Produced(u, o) PROVE phase' # "refused"
  BY <1>1, <1>4 DEF Accept, Produced
<1>5. ASSUME NEW u \in Units, Apply(u) PROVE phase' # "refused"
  <2>1. CASE FailUnit(u)
    BY <1>2, <1>3, <2>1 DEF FailUnit, GuardStops
  <2>2. ASSUME NEW o \in Outputs, CompleteUnit(u, o) PROVE phase' # "refused"
    BY <1>2, <1>3, <1>4, <2>2 DEF CompleteUnit, GuardStops
  <2>3. ASSUME NEW s \in Stages, NEW o \in Outcomes, RecordUnitAttempt(u, s, o) PROVE phase' # "refused"
    BY <1>2, <1>3, <1>4, <2>3 DEF RecordUnitAttempt, GuardStops, BudgetExhausted
  <2> QED BY <1>5, <2>1, <2>2, <2>3 DEF Apply
<1>6. ASSUME NEW u \in Units, RetryUnit(u) PROVE phase' # "refused"
  BY <1>6 DEF RetryUnit
<1>7. ASSUME FinalizeGraph PROVE phase' # "refused"
  BY <1>1, <1>7 DEF FinalizeGraph
<1>8. ASSUME NEW o \in SUBSET Units, AdvanceGraph(o) PROVE phase' # "refused"
  BY <1>1, <1>8 DEF AdvanceGraph
<1>9. ASSUME ApplyRound PROVE phase' # "refused"
  BY <1>2, <1>3, <1>4, <1>9 DEF ApplyRound, Apply, FailUnit, CompleteUnit, RecordUnitAttempt, GuardStops, BudgetExhausted
<1> QED BY <1>5, <1>6, <1>7, <1>8, <1>9 DEF Step

LEMMA RefusedKept == Refused /\ [Next]_vars => Refused'
<1>1. ASSUME Refused, Next PROVE Refused'
  <2>1. phase # "refused" /\ deps' = deps /\ Step
    BY <1>1 DEF Next
  <2>2. phase' # "refused"
    BY <2>1, NoCallRefuses
  <2> QED BY <1>1, <2>1, <2>2 DEF Refused
<1>2. ASSUME Refused, UNCHANGED vars PROVE Refused'
  BY <1>2 DEF Refused, vars
<1> QED BY <1>1, <1>2

LEMMA RefusedIsSound == Refused => OrderSound
<1> SUFFICES ASSUME Refused PROVE OrderSound
  OBVIOUS
<1>1. PICK g \in Graph : g = deps
  BY DEF Refused
<1>2. PICK s : s = TopologicalOrder(g)
  OBVIOUS
<1>3. Order(g, s)
  BY <1>2, OrderInOrder
<1>4. phase = "refused" <=> \E u \in Units : u \in Behind(g, u)
  BY <1>1, SearchIsExact DEF Refused
<1>5. phase = "refused" <=> Len(s) < Cardinality(Units)
  BY <1>3, <1>4, OrderIsShort
<1>6. DOMAIN s = 1 .. Len(s)
  BY <1>3 DEF Order, InOrder
<1>7. \A i, j \in DOMAIN s : s[i] \in Behind(g, s[j]) => j < i
  BY <1>3, <1>6, OrderPutsBehindLater
<1> QED BY <1>1, <1>2, <1>4, <1>5, <1>7 DEF OrderSound

LEMMA RefusedInvariant == Spec => []Refused
<1>1. Init => Refused
  BY UnitAssumption DEF Init, Refused, Graph
<1> QED BY <1>1, RefusedKept, PTL DEF Spec

\* A graph is refused exactly where some unit is behind itself, and the order
\* of any other graph holds every unit after those it depends on: find_cycles
\* and topological_order agree on every graph.
THEOREM OrdersAreSound == Spec => []OrderSound
BY RefusedInvariant, RefusedIsSound, PTL

(***************************************************************************)
(* What there is to Converges besides fairness: while a graph is neither   *)
(* accepted nor has failed to converge there is work for the host, and     *)
(* every call that changes it uses up something that is bounded.           *)
(***************************************************************************)
Final == {"accepted", "convergence_failed", "refused"}

\* Units advance_graph would select anew.
Waits(st) == {u \in Units : st[u] \in {"pending", "reopened"}}

\* What a host that goes on can do: apply the round, select one, retry a
\* failed unit, check a produced one, or have the graph accepted.
WorkLeft ==
  \/ round # {} \/ ParallelReady # {} \/ failed # {}
  \/ \E u \in Units : status[u] = "produced" /\ DepsAccepted(u)
  \/ \A u \in Units : status[u] = "accepted"

\* Each alternative leaves the quantities of those before it as they were.
Progresses ==
  \/ phase' \in Final
  \/ steps < steps' /\ steps' <= MaxSteps
  \/ /\ steps' = steps
     /\ \/ failed' \subseteq failed /\ failed' # failed
        \/ /\ failed' = failed
           /\ \/ Waits(status') \subseteq Waits(status) /\ Waits(status') # Waits(status)
              \/ /\ status' = status
                 /\ \/ round = {} /\ round' # {}
                    \/ /\ round' = round
                       /\ phase # Refreshed(status) /\ phase' = Refreshed(status)

\* The least unit that is ready is selected.
LEMMA LeastIsSelected ==
  ASSUME MaxParallelism \in Nat \ {0}, Ready # {}
  PROVE  ParallelReady # {}
<1>1. Ready \in SUBSET Nat
  BY UnitsAssumption DEF Ready
<1>2. PICK u \in Ready : \A w \in Ready : u <= w
  BY <1>1, LeastNatural
<1>3. u \in FirstOfOwner
  BY <1>1, <1>2 DEF FirstOfOwner
<1>4. {w \in FirstOfOwner : w < u} = {}
  <2>1. ASSUME NEW w \in FirstOfOwner PROVE ~(w < u)
    <3>1. w \in Ready /\ w \in Nat /\ u \in Nat /\ u <= w
      BY <1>1, <1>2 DEF FirstOfOwner
    <3> QED BY <3>1
  <2> QED BY <2>1
<1>5. Cardinality({w \in FirstOfOwner : w < u}) < MaxParallelism
  BY <1>4, FS_EmptySet
<1> QED BY <1>3, <1>5 DEF ParallelReady

LEMMA SomethingIsLeft ==
  ASSUME MaxParallelism # 0, Kept, Refused, phase # "refused"
  PROVE  WorkLeft
<1>1. deps \in Graph /\ \A u \in Units : u \notin Behind(deps, u)
  BY SearchIsExact DEF Refused
<1>2. PICK W : W = {u \in Units : status[u] # "accepted"}
  OBVIOUS
<1>3. CASE W = {}
  BY <1>2, <1>3 DEF WorkLeft
<1>4. ASSUME W # {} PROVE WorkLeft
  <2>1. PICK w \in W : deps[w] \cap W = {}
    BY <1>1, <1>2, <1>4, OneIsFirst
  <2>2. w \in Units /\ status[w] # "accepted" /\ DepsAccepted(w)
    BY <1>1, <1>2, <2>1 DEF DepsAccepted, Graph
  <2>3. status[w] \in Status
    BY <2>2 DEF Kept, UnitsSound, UnitsTyped
  <2>4. CASE status[w] \in {"pending", "ready", "reopened"}
    <3>1. w \in Ready
      BY <2>2, <2>4 DEF Ready
    <3> QED BY <3>1, UnitAssumption, LeastIsSelected DEF WorkLeft
  <2>5. CASE status[w] = "produced"
    BY <2>2, <2>5 DEF WorkLeft
  <2>6. CASE status[w] = "failed"
    <3>1. w \in failed
      BY <2>2, <2>6 DEF Kept, UnitsSound, FailedOutputsMatch
    <3> QED BY <3>1 DEF WorkLeft
  <2> QED BY <2>2, <2>3, <2>4, <2>5, <2>6 DEF Status
<1> QED BY <1>3, <1>4

LEMMA CallProgresses ==
  ASSUME Bounded, NEW u \in Units, Apply(u)
  PROVE  Progresses
<1>1. ASSUME Within(TRUE), Spend(TRUE) PROVE steps < steps' /\ steps' <= MaxSteps
  BY <1>1, UnitAssumption DEF Within, Spend, Bounded
<1>2. ASSUME GuardStops(TRUE) \/ ConvergenceFailed \/ BudgetExhausted PROVE phase' \in Final
  BY <1>2 DEF GuardStops, BudgetExhausted, ConvergenceFailed, Final
<1>3. CASE FailUnit(u)
  BY <1>1, <1>2, <1>3 DEF FailUnit, Progresses
<1>4. ASSUME NEW o \in Outputs, CompleteUnit(u, o) PROVE Progresses
  BY <1>1, <1>2, <1>4 DEF CompleteUnit, Progresses
<1>5. ASSUME NEW s \in Stages, NEW o \in Outcomes, RecordUnitAttempt(u, s, o) PROVE Progresses
  BY <1>1, <1>2, <1>5 DEF RecordUnitAttempt, Progresses
<1> QED BY <1>3, <1>4, <1>5 DEF Apply

LEMMA AdvanceProgresses ==
  ASSUME Kept, phase \notin Final, round = {}, NEW outcomes \in SUBSET Units,
         AdvanceGraph(outcomes), deps' = deps, vars' # vars
  PROVE  Progresses
<1>1. /\ status' = [u \in Units |-> IF u \in ParallelReady THEN "ready" ELSE status[u]]
      /\ UNCHANGED << attempts, accepted, working, failed >>
  BY DEF AdvanceGraph, MarkSelected
<1>2. status = [u \in Units |-> status[u]]
  BY DEF Kept, UnitsSound, UnitsTyped
<1>3. \A u \in ParallelReady : u \in Units /\ status[u] \in {"pending", "ready", "reopened"}
  BY DEF ParallelReady, FirstOfOwner, Ready
<1>4. Waits(status') \subseteq Waits(status)
  BY <1>1 DEF Waits
<1>5. ASSUME Waits(status') = Waits(status) PROVE status' = status
  <2>1. ASSUME NEW u \in Units PROVE status'[u] = status[u]
    BY <1>1, <1>3, <1>5 DEF Waits
  <2> QED BY <1>1, <1>2, <2>1
<1>6. CASE outcomes = {}
  <2>1. CASE Within(FALSE)
    BY <1>6, <2>1, UnitAssumption DEF AdvanceGraph, Spend, Within, Progresses, Kept, Bounded
  <2>2. CASE ~Within(FALSE)
    BY <1>6, <2>2 DEF AdvanceGraph, Progresses, Final
  <2> QED BY <2>1, <2>2
<1>7. CASE outcomes # {}
  <2>1. phase' = Refreshed(status') /\ steps' = steps /\ runs' = runs
    BY <1>7 DEF AdvanceGraph
  <2>2. CASE Waits(status') # Waits(status)
    BY <1>1, <1>4, <2>1, <2>2 DEF Progresses
  <2>3. CASE Waits(status') = Waits(status)
    <3>1. status' = status
      BY <1>5, <2>3
    <3>2. CASE round' # {}
      BY <1>1, <2>1, <3>1, <3>2 DEF Progresses
    <3>3. CASE round' = {}
      <4>1. phase' # phase
        BY <1>1, <2>1, <3>1, <3>3 DEF vars, unitVars
      <4> QED BY <1>1, <2>1, <3>1, <3>3, <4>1 DEF Progresses
    <3> QED BY <3>2, <3>3
  <2> QED BY <2>2, <2>3
<1> QED BY <1>6, <1>7

LEMMA StepProgresses ==
  ASSUME Kept, phase \notin Final, Next, vars' # vars
  PROVE  Progresses
<1>1. Step /\ deps' = deps
  BY DEF Next
<1>2. ASSUME NEW u \in Units, Apply(u) PROVE Progresses
  BY <1>2, CallProgresses DEF Kept
<1>3. CASE ApplyRound
  BY <1>2, <1>3 DEF ApplyRound, Kept
<1>4. CASE FinalizeGraph
  <2>1. /\ status' = status /\ failed' = failed /\ steps' = steps /\ round' = round
        /\ phase' = IF \A u \in Units : status[u] = "accepted" THEN "accepted" ELSE Refreshed(status)
    BY <1>4 DEF FinalizeGraph, unitVars
  <2>2. phase' # phase
    BY <1>1, <1>4 DEF FinalizeGraph, vars
  <2> QED BY <2>1, <2>2 DEF Progresses, Final
<1>5. ASSUME NEW u \in Units, RetryUnit(u) PROVE Progresses
  <2>1. u \in failed
    BY <1>5 DEF RetryUnit, Kept, UnitsSound, FailedOutputsMatch
  <2> QED BY <1>5, <2>1 DEF RetryUnit, Progresses, Final
<1>6. ASSUME NEW outcomes \in SUBSET Units, Idle, AdvanceGraph(outcomes) PROVE Progresses
  BY <1>1, <1>6, AdvanceProgresses DEF Idle
<1> QED BY <1>1, <1>2, <1>3, <1>4, <1>5, <1>6 DEF Step

\* A graph that is not finished always has a next step for a host that goes
\* on: no failure, retry or reopening leaves it with units that wait for one
\* another or for a unit that nobody may run.
THEOREM WorkIsLeft ==
  ASSUME MaxParallelism # 0
  PROVE  Spec => [](phase \notin Final => WorkLeft)
<1>1. Kept /\ Refused => (phase \notin Final => WorkLeft)
  BY SomethingIsLeft DEF Final
<1> QED BY <1>1, InductiveInvariant, RefusedInvariant, PTL

\* No sequence of calls keeps a graph from finishing for ever: each one that
\* changes anything finishes it, or spends one of its steps, or takes one unit
\* off the failed ones, or selects units that waited, or begins a round, which
\* only a call that spends or finishes can follow, or brings the status of the
\* graph up to date.  Each of these leaves what those before it count as it is.
THEOREM WorkRunsOut == Spec => [][phase \notin Final => Progresses]_vars
<1>1. Kept /\ [Next]_vars => [phase \notin Final => Progresses]_vars
  BY StepProgresses
<1> QED BY <1>1, InductiveInvariant, PTL DEF Spec
================================================================================
