------------------------------- MODULE Collector -------------------------------
(***************************************************************************)
(* The Unified Collector: routecraft_telemetry.py reads the sessions of a  *)
(* device, routecraft_collector.py adds one observation of its health, its *)
(* memory, its usage and the summaries other tools left behind, validates  *)
(* the payload and replaces it when it is not valid, and                   *)
(* routecraft_control_center.py delivers it in batches.  Sessions grow,    *)
(* the configuration changes and the graph command line rewrites its cache *)
(* (routecraft_graph_cli.py) while a payload is collected.                 *)
(***************************************************************************)
EXTENDS Integers, Sequences, SequencesExt, FiniteSets, FiniteSetsExt

CONSTANTS
  Sessions,       \* what session files will hold, by session id
  Identities,     \* device ids a configuration may hold, and the host's name
  HostName,
  Exports,        \* projections of graphs: [run, at, details, valid]
  Exporters,      \* processes of the graph command line
  LegacyFiles,    \* the three cache files of an older runtime
  Observations,   \* what a collection may find: the plugin and its hooks, the
                  \* database, the Decision Store by its files and by its own
                  \* status, the evaluation, the lines of the app server and
                  \* its limits, the rows of the benchmark's and the scan's summary files
  Summaries,      \* what the summary files of other tools may hold: sets of rows
  MaxDetail,      \* rows of one graph bundle (75 in the code)
  MaxCollection,  \* rows of one family (500)
  BatchSize,      \* runs and tasks of one request (400)
  MaxCycles,      \* bound: collections
  Absent

ASSUME CollectorAssumption ==
  /\ {MaxDetail, MaxCollection, BatchSize, MaxCycles} \subseteq Nat \ {0} /\ BatchSize <= MaxCollection
  /\ HostName \in Identities /\ Absent \notin Identities
  /\ \A o \in Observations : o.local \in BOOLEAN
  /\ IsFiniteSet(DOMAIN Sessions) /\ Identities \cap Int = {} /\ \A e \in Exports : e.details \in Nat
  /\ \A s \in DOMAIN Sessions :
       LET times == Sessions[s].memory \cup Sessions[s].checks IN times \subseteq Nat /\ IsFiniteSet(times)

VARIABLES
  files,     \* the session files that are there and young enough
  config,    \* device ids in device.json and memory.json
  cache,     \* latest-collector-v4.json
  spare,     \* its temporary, of one name for all exporters
  exporting, \* what each exporter does
  cycle,     \* the collection under way: its stage and what it has read
  cycles,    \* history: the payloads collected so far
  server     \* rows the Control Center has, by their ids

collectorVars == <<files, config, cache, spare, exporting, cycle, cycles, server>>

Rest == [at |-> "rest", observed |-> 0, device |-> Absent, runs |-> {}, tasks |-> {}, rows |-> {}, next |-> 0, facts |-> <<>>]
Still == [at |-> "still"]
CollectorInit ==
  /\ files = {} /\ config = [device |-> Absent, memory |-> Absent] /\ cache = Absent /\ spare = Absent
  /\ exporting = [x \in Exporters |-> Still] /\ cycle = Rest /\ cycles = <<>> /\ server = {}
\* what a collection leaves alone, and what its sources do
SourcesRest == UNCHANGED <<files, config, cache, spare, exporting>>
CycleRests == UNCHANGED <<cycle, cycles, server>>
--------------------------------------------------------------------------------
(* Sessions: routecraft_telemetry *)

\* index_sessions: a file appears, or is older than the window of the collection.
SessionWritten(s) == s \notin files /\ files' = files \cup {s} /\ UNCHANGED <<config, cache, spare, exporting>> /\ CycleRests
SessionAges(s) == s \in files /\ files' = files \ {s} /\ UNCHANGED <<config, cache, spare, exporting>> /\ CycleRests

\* route_family
RouteFamily(role, underPlan) ==
  IF underPlan \/ role = "routecraft" THEN "routecraft" ELSE IF role \in {"legacy", "builtin"} THEN role ELSE "unclassified"

\* marker_for_run: the first task of the parent that ended after the run began
MarkerForRun(times, started) ==
  LET later == {t \in times : t >= started} IN
  IF later = {} THEN Absent ELSE CHOOSE t \in later : \A u \in later : t <= u

\* device_salt: memory.json before device.json
Salt == IF config.memory # Absent THEN config.memory ELSE IF config.device # Absent THEN config.device ELSE HostName

\* stable_hash("device", salt): the device as the rows of sessions name it.  The
\* families name it by opaque_id, of device.json before memory.json: the two
\* never agree.
SessionDevice == <<"salted", Salt>>

\* collect_runs: children of a RouteCraft parent that is indexed too, or of a
\* RouteCraft role, that have ended; an odd timestamp goes through to the row.
CollectRuns ==
  {[kind |-> "run", id |-> <<s, Salt>>, device |-> SessionDevice, good |-> Sessions[s].good,
    marker |-> IF Sessions[s].parent \in files THEN MarkerForRun(Sessions[Sessions[s].parent].memory, Sessions[s].started) ELSE Absent] :
   s \in {c \in files : /\ Sessions[c].parent # Absent /\ Sessions[c].ended
            /\ RouteFamily(Sessions[c].role, Sessions[c].parent \in files /\ Sessions[Sessions[c].parent].plan) = "routecraft"}}

\* collect_memory_tasks: the markers of sessions with a plan
CollectMemoryTasks ==
  UNION {{[kind |-> "task", id |-> <<s, t, Salt>>, device |-> SessionDevice, good |-> Sessions[s].good] : t \in Sessions[s].memory} :
         s \in {c \in files : Sessions[c].plan}}

\* collect_verification_tasks
CollectVerificationTasks ==
  UNION {{[kind |-> "check", id |-> <<s, t, Salt>>, device |-> SessionDevice, good |-> Sessions[s].good] : t \in Sessions[s].checks} :
         s \in {c \in files : Sessions[c].plan}}
--------------------------------------------------------------------------------
(* The graph cache: routecraft_graph_cli *)

Bundle(runs, details) == [runs |-> runs, details |-> details]
NoBundle == Bundle({}, {})
GraphRun(e) == [run |-> e.run, from |-> e]
Details(e) == {[run |-> e.run, from |-> e, number |-> k] : k \in 1 .. e.details}

\* Faulty variant of CollectorGraphBundle: too many rows are cut to what fits.
CollectorGraphBundleCut(e) == Bundle({GraphRun(e)}, {d \in Details(e) : d.number < MaxDetail})

\* _collector_graph_bundle: too many rows leave the run alone.
CollectorGraphBundle(e) ==
  Bundle({GraphRun(e)}, IF 1 + e.details <= MaxDetail THEN Details(e) ELSE {})

\* A file as it lies on the disk: the export last written to it, who still
\* writes to it, and whether two have at once.
Opened(x, e, file) ==
  [export |-> e, open |-> {x} \cup IF file = Absent THEN {} ELSE file.open, mixed |-> file # Absent /\ file.open # {}]
Closed(x, e, file) ==
  IF file = Absent \/ x \notin file.open THEN file ELSE [file EXCEPT !.export = e, !.open = @ \ {x}]

\* _refresh_collector_bundle: _write_json_replace writes a temporary of one
\* name for all, moves it over the cache, and unlinks what then has its name.
StartExport(x, e) ==
  /\ exporting[x] = Still /\ exporting' = [exporting EXCEPT ![x] = [at |-> "writing", export |-> e]]
  /\ spare' = Opened(x, e, spare) /\ UNCHANGED <<files, config, cache>> /\ CycleRests
FinishWriting(x) ==
  /\ exporting[x].at = "writing" /\ exporting' = [exporting EXCEPT ![x].at = "written"]
  /\ spare' = Closed(x, exporting[x].export, spare) /\ cache' = Closed(x, exporting[x].export, cache)
  /\ UNCHANGED <<files, config>> /\ CycleRests
ReplaceCache(x) ==
  /\ exporting[x].at = "written" /\ exporting' = [exporting EXCEPT ![x].at = "moved"]
  /\ cache' = (IF spare = Absent THEN cache ELSE spare) /\ spare' = Absent
  /\ UNCHANGED <<files, config>> /\ CycleRests
UnlinkSpare(x) ==
  /\ exporting[x].at = "moved" /\ exporting' = [exporting EXCEPT ![x] = Still]
  /\ spare' = Absent /\ UNCHANGED <<files, config, cache>> /\ CycleRests
--------------------------------------------------------------------------------
(* The configuration *)

\* The installer writes device.json, configure writes memory.json.
Configure(which, id) ==
  /\ config[which] # id /\ config' = [config EXCEPT ![which] = id]
  /\ UNCHANGED <<files, cache, spare, exporting>> /\ CycleRests

\* _device_id: device.json before memory.json
DeviceId == IF config.device # Absent THEN config.device ELSE IF config.memory # Absent THEN config.memory ELSE HostName
--------------------------------------------------------------------------------
(* The families of one observation *)

\* Ids of a family are made of the device and the time of the observation.
FamilyRow(family, body) == [kind |-> family, id |-> <<family, cycle.device, cycle.observed>>, device |-> cycle.device, body |-> body]
Unavailable == [plugin |-> "unavailable", hooks |-> "unavailable"]

Health(ok) == IF ok THEN "healthy" ELSE "unavailable"
\* device_health: the plugin registered and installed, its hooks those of the source
DeviceHealth(o) == IF o.plugin THEN [plugin |-> "healthy", hooks |-> Health(o.hooks)] ELSE Unavailable

\* _run_app_server: the answers to both requests, in this order, before the
\* output ends or the time does; lines that are no such answer are skipped.
AppServerAnswers(lines) ==
  \E i, j \in DOMAIN lines : i < j /\ lines[i] = "initialized" /\ lines[j] = "limits" /\ \A k \in 1 .. j : lines[k] # "end"

Percent(n) == IF n < 0 THEN 0 ELSE IF n > 100 THEN 100 ELSE n
\* usage_snapshots: one row for each window whose kind is known; what the
\* server leaves out is the rest of a hundred.
UsageRow(window) ==
  LET left == IF window.remaining = Absent THEN 0 ELSE Percent(window.remaining)
      used == Percent(IF window.used = Absent THEN 100 - left ELSE window.used) IN
  [window |-> window.label, used |-> IF window.used = Absent /\ window.remaining # Absent THEN 100 - left ELSE used,
   remaining |-> IF window.remaining = Absent THEN 100 - used ELSE left]
UsageSnapshots(lines, limits) ==
  IF AppServerAnswers(lines) THEN {UsageRow(w) : w \in {v \in limits : v.label # "other"}} ELSE {}

\* _decision_counts: the files of the store, or what its own status says.
DecisionCounts(direct, status) ==
  IF direct = Absent THEN Absent ELSE IF status = Absent THEN [cases |-> direct, eligible |-> 0] ELSE status

\* _evaluation_counts: a share of useful tasks becomes a count of them.
Rounded(n, d) == (2 * n + d) \div (2 * d)
EvaluationCounts(summary) ==
  LET rate == Percent(IF summary.hundredths <= 100 THEN summary.hundredths ELSE summary.hundredths \div 100)
      share == Rounded(summary.recall * rate, 100) IN
  [recall |-> summary.recall, rate |-> rate, useful |-> IF share > summary.recall THEN summary.recall ELSE share]

\* _memory_metrics_with_availability: no row when nothing could be read
MemoryMetrics(local, decision, evaluation) ==
  IF ~local /\ decision = Absent /\ evaluation = Absent THEN {}
  ELSE {[decision |-> decision, evaluation |-> IF evaluation = Absent THEN [recall |-> 0, rate |-> 0, useful |-> 0] ELSE EvaluationCounts(evaluation)]}

\* benchmark_summary: the row of the summary file, or an unavailable one
BenchmarkSummary(row) == IF row.valid THEN row ELSE [status |-> "unavailable", measured |-> FALSE, valid |-> FALSE]

\* security_summary: no scan is a row too, and says so.
SecuritySummary(row) == IF row.valid THEN row ELSE [status |-> "unavailable", valid |-> TRUE]

\* system_status
SystemStatus(device, usage, memory, local, decision, benchmark, security) ==
  [core |-> IF device.plugin = "healthy" /\ device.hooks = "healthy" THEN "healthy"
            ELSE IF device.plugin # "unavailable" THEN "degraded" ELSE "unavailable",
   collector |-> IF usage # {} /\ memory # {} THEN "healthy" ELSE "degraded",
   local |-> Health(local), decision |-> Health(decision # Absent),
   benchmark |-> IF benchmark.status = "passed" /\ benchmark.measured THEN "healthy"
                 ELSE IF benchmark.status \in {"failed", "partial"} THEN "degraded" ELSE "unavailable",
   security |-> IF security.status = "clean" THEN "healthy"
                ELSE IF security.status \in {"findings", "error"} THEN "degraded" ELSE "unavailable"]

\* _valid_run, _valid_memory_task
ValidSessionRow(row) == row.good
\* _valid_family
ValidFamily(row) ==
  CASE row.kind = "usage" -> row.body.used + row.body.remaining = 100
    [] row.kind = "memory" -> row.body.evaluation.useful <= row.body.evaluation.recall /\ row.body.evaluation.rate <= 100
    [] row.kind = "benchmark" -> row.body.valid
    [] row.kind = "graph" -> row.body.from.valid
    [] row.kind = "check" -> ValidSessionRow(row)
    [] OTHER -> TRUE

\* _benchmark_transport_rows: nothing is sent in place of a missing measurement
Transported(row) == IF ValidFamily(row) THEN {row} ELSE {}
--------------------------------------------------------------------------------
(* One collection: collect_v3, collect_v4, collect_v5 *)

At(stage) == cycle.at = stage
OnlyCycle == SourcesRest /\ UNCHANGED <<cycles, server>>

Collect ==
  /\ At("rest") /\ Len(cycles) < MaxCycles /\ OnlyCycle
  /\ cycle' = [Rest EXCEPT !.at = "runs", !.observed = Len(cycles) + 1, !.device = DeviceId]
ReadRuns == At("runs") /\ cycle' = [cycle EXCEPT !.at = "tasks", !.runs = CollectRuns] /\ OnlyCycle
\* What raises in either leaves both empty.
ReadTasks ==
  /\ At("tasks") /\ OnlyCycle
  /\ \/ cycle' = [cycle EXCEPT !.at = "measure", !.tasks = CollectMemoryTasks]
     \/ cycle' = [cycle EXCEPT !.at = "measure", !.runs = {}, !.tasks = {}]

\* The rows of one observation, and what stands in for all of them.
Observed(device, memory, usage, benchmark, security, status) ==
  {FamilyRow("device", device), FamilyRow("security", security), FamilyRow("status", status)}
  \cup {FamilyRow("memory", m) : m \in memory}
  \cup {[FamilyRow("usage", u) EXCEPT !.id = <<"usage", cycle.device, cycle.observed, u.window>>] : u \in usage}
  \cup Transported(FamilyRow("benchmark", benchmark))
NotObserved ==
  LET none == [valid |-> FALSE]
      status == SystemStatus(Unavailable, {}, {}, FALSE, Absent, BenchmarkSummary(none), SecuritySummary(none)) IN
  {FamilyRow("device", Unavailable), FamilyRow("security", SecuritySummary(none)), FamilyRow("status", status)}

\* Faulty variant of Replaced: the status of the observation is kept.
ReplacedKeepingStatus(rows) == {r \in NotObserved : r.kind # "status"} \cup {r \in rows : r.kind = "status"}

\* collect_v3: one invalid row takes every row with it.
Replaced(rows) == NotObserved
Few(rows) == \A r \in rows : Cardinality({q \in rows : q.kind = r.kind}) <= MaxCollection
ValidV3(rows) ==
  (\A r \in cycle.runs \cup cycle.tasks : ValidSessionRow(r)) /\ (\A r \in rows : ValidFamily(r)) /\ Few(rows)
Measure ==
  /\ At("measure") /\ OnlyCycle
  /\ \E o \in Observations :
       LET decision == DecisionCounts(o.direct, o.own)
           memory == MemoryMetrics(o.local, decision, o.evaluation)
           usage == UsageSnapshots(o.lines, o.limits)
           benchmark == BenchmarkSummary(o.benchmark)
           security == SecuritySummary(o.security)
           rows == Observed(DeviceHealth(o), memory, usage, benchmark, security,
                            SystemStatus(DeviceHealth(o), usage, memory, o.local, decision, benchmark, security)) IN
       cycle' = [cycle EXCEPT !.at = "graph", !.facts = [local |-> o.local, decision |-> decision # Absent, usage |-> usage # {}],
                   !.rows = IF ValidV3(rows) THEN rows ELSE Replaced(rows),
                   !.runs = IF ValidV3(rows) THEN @ ELSE {}, !.tasks = IF ValidV3(rows) THEN @ ELSE {}]

\* _normalize_graph_bundle: each run once, and nothing without its run
Coherent(bundle) ==
  /\ \A r, q \in bundle.runs : r.run = q.run => r = q
  /\ \A d \in bundle.details : \E r \in bundle.runs : r.run = d.run
GraphId(run) == <<"graph", cycle.device, run.from.at, run.run>>
NormalizeGraphBundle(bundle) ==
  LET runs == {[kind |-> "graph", id |-> GraphId(r), device |-> cycle.device, body |-> r] : r \in bundle.runs}
      details == {[kind |-> "detail", id |-> <<"detail", cycle.device, d.from.at, d.run, d.number>>, device |-> cycle.device,
                   run |-> GraphId(CHOOSE r \in bundle.runs : r.run = d.run), body |-> d] : d \in bundle.details} IN
  IF ~Coherent(bundle) \/ (\E r \in runs : ~ValidFamily(r)) \/ Cardinality(runs) > MaxDetail THEN {}
  ELSE IF Cardinality(runs) + Cardinality(details) > MaxDetail THEN runs ELSE runs \cup details

\* _summary_rows: a file with one invalid row is left out.
SummaryRows(rows) ==
  IF \E r \in rows : ~r.valid \/ Cardinality(rows) > MaxCollection THEN {}
  ELSE {[kind |-> "summary", id |-> <<"summary", cycle.device, r.number>>, device |-> cycle.device, body |-> r] : r \in rows}

\* _read_graph_bundle: a file that is being written may be no JSON.
Readable(file) ==
  {CollectorGraphBundle(file.export)} \cup IF file.open # {} \/ file.mixed THEN {NoBundle} ELSE {}

\* collect_v4: the cache of the graph command line, or the files of an older runtime
FixtureRows == {[r EXCEPT !.id = <<r.kind, "fixture", 0>>, !.device = "fixture"] : r \in NotObserved}
ValidV4(rows) == Few(rows) /\ Cardinality({r \in rows : r.kind \in {"graph", "detail"}}) <= MaxDetail
ReadGraph ==
  /\ At("graph") /\ OnlyCycle
  /\ \E bundle \in IF cache = Absent THEN LegacyFiles ELSE Readable(cache), summary \in Summaries :
       LET rows == cycle.rows \cup SummaryRows(summary) \cup NormalizeGraphBundle(bundle) IN
       cycle' = [cycle EXCEPT !.at = "checks", !.facts = [cached |-> cache # Absent, local |-> @.local, decision |-> @.decision, usage |-> @.usage],
                   !.rows = IF ValidV4(rows) THEN rows ELSE FixtureRows,
                   !.runs = IF ValidV4(rows) THEN @ ELSE {}, !.tasks = IF ValidV4(rows) THEN @ ELSE {}]

\* collect_v5: the verification tasks, or the fixture in place of everything
ReadChecks ==
  /\ At("checks") /\ OnlyCycle
  /\ \E checks \in {CollectVerificationTasks, {}} :
       LET valid == Few(checks) /\ \A r \in checks : ValidSessionRow(r) IN
       cycle' = [cycle EXCEPT !.at = "deliver", !.next = 1, !.rows = IF valid THEN @ \cup checks ELSE FixtureRows,
                   !.runs = IF valid THEN @ ELSE {}, !.tasks = IF valid THEN @ ELSE {}]
--------------------------------------------------------------------------------
(* Delivery: routecraft_control_center *)

Groups(rows) == (Cardinality(rows) + BatchSize - 1) \div BatchSize
\* Faulty variant of BatchCount: runs that fill no batch of their own are left.
BatchCountFull == Max({1, Cardinality(cycle.runs) \div BatchSize, Cardinality(cycle.tasks) \div BatchSize})

\* payload_batches: the families go with the first batch.
BatchCount == Max({1, Groups(cycle.runs), Groups(cycle.tasks)})
Slice(rows, k) == LET list == SetToSeq(rows) IN Range(SubSeq(list, (k - 1) * BatchSize + 1, Min({k * BatchSize, Len(list)})))
Batch(k) == Slice(cycle.runs, k) \cup Slice(cycle.tasks, k) \cup IF k = 1 THEN cycle.rows ELSE {}

\* The Control Center keeps the last row of each id.
Ingest(rows) == server' = {r \in server : \A q \in rows : q.id # r.id} \cup rows
Payload(delivered) == [rows |-> cycle.rows, runs |-> cycle.runs, tasks |-> cycle.tasks, facts |-> cycle.facts, delivered |-> delivered]
EndCycle(delivered) == cycles' = Append(cycles, Payload(delivered)) /\ cycle' = Rest

\* deliver: the first request that does not succeed ends it.
Deliver ==
  /\ At("deliver") /\ Ingest(Batch(cycle.next)) /\ SourcesRest
  /\ IF cycle.next < BatchCount THEN cycle' = [cycle EXCEPT !.next = @ + 1] /\ UNCHANGED cycles ELSE EndCycle(TRUE)
AnswerLost == At("deliver") /\ Ingest(Batch(cycle.next)) /\ EndCycle(FALSE) /\ SourcesRest
NotDelivered == At("deliver") /\ EndCycle(FALSE) /\ UNCHANGED server /\ SourcesRest

CollectorNext ==
  \/ \E s \in DOMAIN Sessions : SessionWritten(s) \/ SessionAges(s)
  \/ \E x \in Exporters : (\E e \in Exports : StartExport(x, e)) \/ FinishWriting(x) \/ ReplaceCache(x) \/ UnlinkSpare(x)
  \/ \E which \in {"device", "memory"}, id \in Identities : Configure(which, id)
  \/ Collect \/ ReadRuns \/ ReadTasks \/ Measure \/ ReadGraph \/ ReadChecks \/ Deliver \/ AnswerLost \/ NotDelivered
CollectorSpec == CollectorInit /\ [][CollectorNext]_collectorVars
--------------------------------------------------------------------------------
\* "Any invalid or mixed bundle is omitted in full": graph rows that are sent
\* come with their run and within the cap, details all or none; and what came
\* from the cache of the command line came from one export, however many
\* exporters were writing it (_normalize_graph_bundle, _write_json_replace).
GraphCoherent ==
  \A k \in DOMAIN cycles :
    LET runs == {r \in cycles[k].rows : r.kind = "graph"}
        details == {r \in cycles[k].rows : r.kind = "detail"} IN
    /\ Cardinality(runs \cup details) <= MaxDetail
    /\ \A d \in details : \E r \in runs : r.id = d.run
    /\ (runs # {} /\ cycles[k].facts.cached) =>
          \E e \in Exports : (\A r \in runs \cup details : r.body.from = e) /\ Cardinality(details) \in {0, e.details}

\* The families of a payload, which describe one observation, name one device,
\* whatever became of the configuration since, and their status claims nothing
\* healthy that the rows, or what was read for them, do not show: also where the
\* payload was replaced (collect_v3, collect_v4, collect_v5, system_status).
\* Runs, memory tasks and checks are read from sessions, each with the salt of
\* its own moment, and name the device by another hash: a payload with any names
\* it in two ways, and in more where the configuration changed in between.
ClaimsBacked ==
  \A k \in DOMAIN cycles :
    LET rows == {r \in cycles[k].rows : r.kind # "check"}
        Of(kind) == {r \in rows : r.kind = kind}
        Claimed(what) == \E r \in Of("status") : r.body[what] = "healthy" IN
    /\ \A r, q \in rows : r.device = q.device
    /\ Claimed("collector") => Of("usage") # {} /\ Of("memory") # {}
    /\ Claimed("core") => \A r \in Of("device") : r.body.plugin = "healthy" /\ r.body.hooks = "healthy"
    /\ Claimed("local") => cycles[k].facts.local /\ Of("memory") # {}
    /\ Claimed("decision") => cycles[k].facts.decision /\ Of("memory") # {}
    /\ Claimed("security") => \E r \in Of("security") : r.body.status = "clean"
    /\ Claimed("benchmark") => \E r \in Of("benchmark") : r.body.status = "passed" /\ r.body.measured
    /\ Of("usage") # {} => cycles[k].facts.usage

\* What was delivered is all there; of what was not, each observation is there
\* whole or not at all, and no detail of a graph without its run; rows of the
\* summary files have ids of their own and are sent again by later collections
\* (payload_batches, deliver).
DeliveredWhole ==
  LET there == {r.id : r \in server} IN
  /\ \A k \in DOMAIN cycles :
       LET p == cycles[k]  observed == {r.id : r \in {q \in p.rows : q.kind \in {"device", "status", "usage", "memory", "benchmark", "security"}}} IN
       /\ p.delivered => {r.id : r \in p.rows \cup p.runs \cup p.tasks} \subseteq there
       /\ observed \subseteq there \/ observed \cap there = {}
  /\ \A d \in {r \in server : r.kind = "detail"} : d.run \in there
================================================================================
