--------------------------- MODULE SecurityValidation ---------------------------
(***************************************************************************)
(* routecraft_security_validation.py.  A manifest of fixtures says which   *)
(* rules a scanner must report and which it must not.  The fixtures are    *)
(* scanned one after the other, then the repositories asked for; the       *)
(* counts decide a status and a confidence, a gate and the row of the      *)
(* Control Center, which is checked once more and saved.                   *)
(***************************************************************************)
EXTENDS Integers, Sequences, FiniteSets, FiniteSetsExt

CONSTANTS
  Rules,         \* RULE_REGISTRY
  Category,      \* [Rules -> a category]
  Manifests,     \* sequences of [id, rule, category, expectation, expected, forbidden]
  MaxCases,      \* 200 in the code
  MediumPairs, HighPairs,   \* pairs that make a confidence: 60 and 100 in the code
  MaxRoots,      \* bound: repositories of one command
  Scans,         \* what a repository's scan finds: [critical, high, other]
  Unregistered,  \* a code that is no rule
  Raised,        \* a scan that raised, or ended in an error
  Nothing        \* null

ASSUME ValidationAssumption ==
  /\ IsFiniteSet(Rules) /\ Rules # {} /\ Unregistered \notin Rules
  /\ \A cases \in Manifests : DOMAIN cases = 1 .. Len(cases)
  /\ {MaxCases, MaxRoots, HighPairs} \subseteq Nat /\ MediumPairs \in Nat \ {0} /\ HighPairs >= MediumPairs
  /\ Scans \subseteq [critical : Nat, high : Nat, other : Nat]

VARIABLES
  stage,     \* idle, fixtures, repositories, reported, refused
  fixtures,  \* the cases of the manifest
  observed,  \* what the scanner said of each case so far: codes, or Raised
  roots,     \* repositories asked for
  scans,     \* what the scan of each repository so far said, or Raised
  saved,     \* the row in --output
  exit       \* the exit code
validationVars == <<stage, fixtures, observed, roots, scans, saved, exit>>

Expectations == {"vulnerable", "safe"}
--------------------------------------------------------------------------------
(* The manifest *)

ValidCase(c) ==
  /\ c.rule \in Rules /\ c.category = Category[c.rule] /\ c.expectation \in Expectations
  /\ c.expected \cup c.forbidden \subseteq Rules /\ c.expected \cap c.forbidden = {}
  /\ c.expectation = "vulnerable" => c.rule \in c.expected
  /\ c.expectation = "safe" => c.expected = {} /\ c.rule \in c.forbidden

\* validate_manifest
ValidManifest(cases) ==
  /\ Len(cases) \in 1 .. MaxCases
  /\ \A i \in DOMAIN cases : ValidCase(cases[i])
  /\ \A i, j \in DOMAIN cases : cases[i].id = cases[j].id => i = j

Of(rule, expectation) == {i \in DOMAIN fixtures : fixtures[i].rule = rule /\ fixtures[i].expectation = expectation}
Pairs(rule) == Min({Cardinality(Of(rule, e)) : e \in Expectations})
FullyPaired(rule) == LET n == Cardinality(Of(rule, "vulnerable")) IN n > 0 /\ Cardinality(Of(rule, "safe")) = n

\* Faulty variant of Evidence: fixtures without a partner are counted too.
AllEvidence(rule, expectation) == Of(rule, expectation)

\* The first fixtures of each expectation, as many as there are pairs: paired_fixture_ids.
Evidence(rule, expectation) ==
  LET all == Of(rule, expectation) IN {i \in all : Cardinality({j \in all : j <= i}) <= Pairs(rule)}
Paired == UNION {Evidence(r, e) : r \in Rules, e \in Expectations}
--------------------------------------------------------------------------------
(* What the scanner said against what it should have said *)

Failed(i) == observed[i] = Raised
Codes(i) == IF Failed(i) THEN {} ELSE observed[i]
MissingCodes(i) == fixtures[i].expected \ Codes(i)
Detected(i) == ~Failed(i) /\ MissingCodes(i) = {}

\* Faulty variant of Quiet: only the forbidden codes speak against a safe fixture.
QuietEnough(i) == ~Failed(i) /\ Codes(i) \cap fixtures[i].forbidden = {}

Quiet(i) == ~Failed(i) /\ Codes(i) = {}

Classified(class) ==
  {i \in Paired :
     CASE class = "TP" -> fixtures[i].expectation = "vulnerable" /\ Detected(i)
       [] class = "FN" -> fixtures[i].expectation = "vulnerable" /\ ~Detected(i)
       [] class = "TN" -> fixtures[i].expectation = "safe" /\ Quiet(i)
       [] class = "FP" -> fixtures[i].expectation = "safe" /\ ~Quiet(i)}
\* A hit that says more than was expected: forbidden and unexpected codes.
ContractFailures == {i \in Classified("TP") : Codes(i) \ fixtures[i].expected # {}}
Flaws == Classified("FP") \cup Classified("FN") \cup ContractFailures
CasePassed(i) == ~Failed(i) /\ Codes(i) = fixtures[i].expected

OfRule(rule) == {i \in DOMAIN fixtures : fixtures[i].rule = rule}
CountIn(class, cases) == Cardinality(Classified(class) \cap cases)
Positive(cases) == CountIn("TP", cases) + CountIn("FN", cases)
Negative(cases) == CountIn("TN", cases) + CountIn("FP", cases)
Verdict(sufficient, cases) ==
  IF ~sufficient THEN "INSUFFICIENT_EVIDENCE" ELSE IF Flaws \cap cases # {} THEN "FAILED" ELSE "PASSED"

\* _finish_result
RuleStatus(rule) ==
  Verdict(FullyPaired(rule) /\ Positive(OfRule(rule)) = Pairs(rule) /\ Negative(OfRule(rule)) = Pairs(rule), OfRule(rule))
\* category_results
CategoryStatus(category) ==
  LET members == {r \in Rules : Category[r] = category}
      cases == UNION {OfRule(r) : r \in members} IN
  Verdict((\A r \in members : FullyPaired(r)) /\ Positive(cases) > 0 /\ Negative(cases) > 0, cases)
--------------------------------------------------------------------------------
(* The report *)

Covered == {r \in Rules : FullyPaired(r)}
FixturePairs == MapThenSumSet(Pairs, Rules)
Sufficient ==
  /\ Covered = Rules /\ Positive(DOMAIN fixtures) > 0 /\ Negative(DOMAIN fixtures) > 0
  /\ \A i \in DOMAIN fixtures : ~Failed(i)
Status == Verdict(Sufficient, DOMAIN fixtures)
Confidence ==
  IF Sufficient /\ FixturePairs >= HighPairs THEN "high"
  ELSE IF Sufficient /\ FixturePairs >= MediumPairs THEN "medium" ELSE "low"

\* dogfood_repositories: counts over all repositories, when all could be scanned.
Performed == roots > 0 /\ \A i \in DOMAIN scans : scans[i] # Raised
Findings(severity) == MapThenSumSet(LAMBDA i : scans[i][severity], DOMAIN scans)
CleanScan == \A i \in DOMAIN scans : \A severity \in {"critical", "high", "other"} : scans[i][severity] = 0

\* security_gate_projection
Gate ==
  IF Status = "FAILED" THEN "FAIL"
  ELSE IF Status # "PASSED" \/ Confidence = "low" \/ ~Performed THEN "INCONCLUSIVE"
  ELSE IF Findings("critical") > 0 \/ Findings("high") > 0 THEN "FAIL"
  ELSE IF CleanScan THEN "PASS" ELSE "INCONCLUSIVE"

\* to_d1_summary: the row, and the checks that refuse one that does not add up.
Unavailable == [status |-> "unavailable", tested |-> Nothing, pairs |-> Nothing, repositories |-> Nothing]
Row ==
  [status |-> Status, tested |-> Cardinality(Covered), pairs |-> FixturePairs,
   repositories |-> IF Performed THEN Len(scans) ELSE Nothing]
RowAddsUp ==
  /\ Cardinality(Covered) <= Cardinality(Rules)
  /\ Positive(DOMAIN fixtures) = FixturePairs /\ Negative(DOMAIN fixtures) = FixturePairs
\* to_d1_rule_metrics: every rule's row carries the status of the whole report.
RuleRow(rule) ==
  [found |-> CountIn("TP", OfRule(rule)), missed |-> CountIn("FN", OfRule(rule)),
   quiet |-> CountIn("TN", OfRule(rule)), loud |-> CountIn("FP", OfRule(rule)),
   covered |-> FullyPaired(rule), status |-> Status]
--------------------------------------------------------------------------------
(* The command *)

ValidationInit ==
  /\ stage = "idle" /\ fixtures = <<>> /\ observed = <<>> /\ roots = 0 /\ scans = <<>>
  /\ saved = Nothing /\ exit = Nothing

\* main gives up: a row that says nothing is printed, and nothing is saved.
Refuse == stage' = "refused" /\ exit' = 2 /\ UNCHANGED saved

\* evaluate_fixture_set: load_manifest and the roots
Validate(cases, n) ==
  /\ stage = "idle" /\ roots' = n /\ UNCHANGED <<observed, scans>>
  /\ \/ ValidManifest(cases) /\ fixtures' = cases /\ stage' = "fixtures" /\ UNCHANGED <<saved, exit>>
     \/ ~ValidManifest(cases) /\ Refuse /\ UNCHANGED fixtures

\* One fixture is scanned; a code that is no rule is an error like any other.
ScanFixture(codes) ==
  /\ stage = "fixtures"
  /\ observed' = Append(observed, IF codes # Raised /\ codes \subseteq Rules THEN codes ELSE Raised)
  /\ stage' = IF Len(observed') = Len(fixtures) THEN "repositories" ELSE stage
  /\ UNCHANGED <<fixtures, roots, scans, saved, exit>>

\* dogfood_repository: a scan that ends in an error is not performed.
ScanRepository(found) ==
  /\ stage = "repositories" /\ Len(scans) < roots /\ scans' = Append(scans, found)
  /\ UNCHANGED <<stage, fixtures, observed, roots, saved, exit>>

\* main, once all was scanned; the row is saved whole or not at all.
Report ==
  /\ stage = "repositories" /\ Len(scans) = roots /\ UNCHANGED <<fixtures, observed, roots, scans>>
  /\ \/ RowAddsUp /\ stage' = "reported" /\ saved' = Row /\ exit' = IF Status = "PASSED" THEN 0 ELSE 1
     \/ Refuse

ValidationNext ==
  \/ \E cases \in Manifests, n \in 0 .. MaxRoots : Validate(cases, n)
  \/ \E codes \in (SUBSET Rules) \cup {{Unregistered}, Raised} : ScanFixture(codes)
  \/ \E found \in Scans \cup {Raised} : ScanRepository(found)
  \/ Report

ValidationSpec == ValidationInit /\ [][ValidationNext]_validationVars
--------------------------------------------------------------------------------
\* The gate is earned: it opens only when every rule has its pairs of fixtures,
\* enough of them together, the scanner said of every fixture just what was
\* expected, and every repository asked for was scanned and had no finding; and
\* then no rule, no category and no rule's row speaks against it
\* (security_gate_projection, whose message says "no findings").
GateEarned ==
  (stage = "reported" /\ Gate = "PASS") =>
    /\ roots > 0 /\ \A i \in 1 .. roots : scans[i] = [critical |-> 0, high |-> 0, other |-> 0]
    /\ \A i \in DOMAIN fixtures : CasePassed(i)
    /\ \A r \in Rules : \E i, j \in OfRule(r) : fixtures[i].expectation = "safe" /\ fixtures[j].expectation = "vulnerable"
    /\ Len(fixtures) >= 2 * MediumPairs
    /\ \A r \in Rules : RuleStatus(r) = "PASSED" /\ CategoryStatus(Category[r]) = "PASSED"
    /\ \A r \in Rules : RuleRow(r).covered /\ RuleRow(r).missed = 0 /\ RuleRow(r).loud = 0

\* What evaluate_manifest reports, to_d1_summary never refuses, whatever the
\* scanner said and whichever fixtures have no partner; and the status of the whole
\* is never better than that of a rule or of a category.
RowAccepted ==
  stage = "repositories" =>
    /\ RowAddsUp
    /\ Status = "PASSED" => \A r \in Rules : RuleStatus(r) = "PASSED" /\ CategoryStatus(Category[r]) = "PASSED"

\* Together: the report of a validation says what was scanned, and is accepted.
ReportEarned == GateEarned /\ RowAccepted
================================================================================
