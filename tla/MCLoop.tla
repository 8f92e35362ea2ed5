------------------------------- MODULE MCLoop -------------------------------
(***************************************************************************)
(* The engine alone on a correction loop: work, a gate that can send it     *)
(* back once, a global gate, one failure the host reports.  Under it, in    *)
(* the other scopes, the store: "solo" one engine that is stopped anywhere, *)
(* with an approval, an action and a replan; "frozen" the same with one     *)
(* plain task; "crowd" two engines between whose transactions everything of *)
(* the other may fall, in one revision; "race" the second only replans;     *)
(* "policies" the candidates.                                               *)
(***************************************************************************)
EXTENDS GraphTelemetry, GraphStore
VARIABLE scope

MCNode == {"n_a", "n_q", "n_z"}
MCNodeType == [n \in MCNode |-> IF n = "n_a" THEN "AGENT" ELSE "GATE"]
MCEdge == {[from |-> "n_a", to |-> "n_q", type |-> "plain"],
           [from |-> "n_q", to |-> "n_z", type |-> "gate_pass"]}
MCSendBack == {[from |-> "n_q", to |-> "n_a", max |-> 1]}
MCMaxAttempts == [n \in MCNode |-> IF n = "n_z" THEN 1 ELSE 2]
MCWriteScopes == [n \in MCNode |-> {<< "repo" >>}]
MCRisk == [n \in MCNode |-> 3]
MCRank == [n_a |-> 1, n_q |-> 2, n_z |-> 3]
MCNoOps == [n \in MCNode |-> {}]
MCUnlimited == [n \in MCNode |-> NoLimit]

MCTaskAttempts == [task |-> 2, approval |-> 1, action |-> 2]
PolicyCandidate(status, sample, refs, normal, confidence) ==
  [status |-> status, sample |-> sample, refs |-> refs, normal |-> normal, confidence |-> confidence]
MCCandidates ==
  {PolicyCandidate("DRAFT", 0, {}, FALSE, "low"), PolicyCandidate("REJECTED", 1, {"e"}, FALSE, "low"), PolicyCandidate("RETIRED", 2, {"e", "f"}, TRUE, "low")}
  \cup {PolicyCandidate(status, sample, refs, normal, confidence) :
          status \in {"SHADOW", "CANDIDATE", "APPROVED"}, sample \in {1, 2}, refs \in {{"e"}, {"e", "f"}}, normal \in BOOLEAN, confidence \in {"low", "high"}}

OnlyBegins(tasks) == \A r \in DOMAIN states', n \in Tasks \ tasks : states'[r].nodes[n].status = "READY"
Alone == calls'["second"] = <<>>
NeverFails(tasks) == \A r \in DOMAIN states', n \in tasks : states'[r].nodes[n].status # "FAILED"
Whole == \A r \in DOMAIN sources' : sources'[r] \in [Tasks -> {r}] \cup [Tasks -> {1}]
FailsMeasured == \A row \in rows' : row.id[1] = "FAILED" => \E used \in rows' : used.id = <<"USAGE", row.revision>> \o Tail(row.id)
OneFailed == Cardinality({row \in rows' : row.id[1] = "FAILED"}) <= 1
InScope ==
  CASE scope = "solo" -> Alone /\ OnlyBegins({"approval", "action"}) /\ OneFailed /\ FailsMeasured /\ Whole
    [] scope = "frozen" -> Alone /\ OnlyBegins({"task"}) /\ OneFailed
    [] scope = "crowd" -> stops' = 0 /\ (Alone \/ ApprovedIn(1)) /\ current' <= 1 /\ OnlyBegins({"approval", "action"}) /\ NeverFails(Tasks)
    [] scope = "race" -> stops' = 0 /\ OnlyBegins({"approval", "action"}) /\ NeverFails(Tasks) /\ Whole
FewFailures == Cardinality({row \in progress' : row[1] = "FAILED" /\ row[4] = "HOST"}) <= 1
Steps ==
  CASE scope = "loop" -> TelemetryNext /\ FewFailures /\ UNCHANGED storeVars
    [] scope = "policies" -> PolicyNext /\ UNCHANGED <<vars, telemetryVars>>
    [] scope = "race" -> /\ EngineNext("first") \/ Transact("second") \/ CallReplan("second", {})
                         /\ InScope /\ UNCHANGED <<vars, telemetryVars>>
    [] OTHER -> (\E e \in Engines : EngineNext(e)) /\ InScope /\ UNCHANGED <<vars, telemetryVars>>
MCInit == TelemetryInit /\ StoreInit /\ scope \in {"loop", "solo", "frozen", "crowd", "race", "policies"}
MCSpec ==
  /\ MCInit
  /\ [][Steps /\ UNCHANGED scope]_<<vars, telemetryVars, storeVars, scope>>
=============================================================================
