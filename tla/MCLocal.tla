-------------------------------- MODULE MCLocal --------------------------------
\* Two processes, one record of the Decision Store, and files with the same
\* record or with one of their own.  Scopes: "import" without archives, "restore"
\* without migrations and with a Decision Store that stays, and, with Memory
\* Local at rest, three of the collector: "sessions" that change while they are
\* read, "graphs" exported while they are read, and "measures".
EXTENDS LocalMemory, Collector
CONSTANTS rule, laptop, desktop
VARIABLE scope
MCFiles == {{[id |-> None, ref |-> rule, hash |-> 1]}, {[id |-> 0, ref |-> None, hash |-> 1]}}
MCSymmetry == Permutations(Procs) \cup Permutations(Exporters)
InScope ==
  CASE scope = "import" -> archives' = {}
    [] scope = "restore" -> /\ \A x \in Procs : pc'[x].op # "migrate"
                            /\ \A r \in Refs : store'[r] <= 1 /\ made' <= 2

Session(parent, role, plan, good, memory, checks) ==
  [parent |-> parent, role |-> role, plan |-> plan, ended |-> TRUE, good |-> good, started |-> 2, memory |-> memory, checks |-> checks]
MCSessions == [s \in {"parent", "child", "other", "odd"} |->
  CASE s = "parent" -> Session(Absent, "none", TRUE, TRUE, {1, 2, 3}, {3, 4}) [] s = "child" -> Session("parent", "none", FALSE, TRUE, {}, {})
    [] s = "other" -> Session("parent", "routecraft", FALSE, TRUE, {}, {}) [] s = "odd" -> Session(Absent, "none", TRUE, FALSE, {}, {3})]
Export(run, at, details, valid) == [run |-> run, at |-> at, details |-> details, valid |-> valid]
MCExports == {Export("a", 1, 2, TRUE), Export("a", 2, 3, TRUE), Export("b", 3, 1, FALSE)}
Legacy(e, f) == Bundle({GraphRun(e)}, Details(f))
MCLegacy == {Legacy(e, f) : e, f \in MCExports \cup {Export("c", 1, 2, TRUE)}}
Window(label, used, remaining) == [label |-> label, used |-> used, remaining |-> remaining]
Weekly == {Window("weekly", 30, Absent), Window("five_hour", Absent, 120)}
Nothing == [plugin |-> FALSE, hooks |-> FALSE, local |-> FALSE, direct |-> Absent, own |-> Absent, evaluation |-> Absent,
            security |-> [status |-> "clean", valid |-> FALSE], lines |-> <<"limits", "initialized", "end">>, limits |-> Weekly, benchmark |-> [status |-> "passed", measured |-> FALSE, valid |-> FALSE]]
Answered == <<"initialized", "noise", "limits">>
MCObservations ==
  {[Nothing EXCEPT !.plugin = TRUE, !.hooks = h, !.security = [status |-> s, valid |-> TRUE], !.benchmark = [status |-> s, measured |-> TRUE, valid |-> v]] :
     h, v \in BOOLEAN, s \in {"passed", "failed"}}
  \cup {[Nothing EXCEPT !.security.valid = v] : v \in BOOLEAN}
  \cup {[Nothing EXCEPT !.local = l, !.direct = d, !.own = o, !.evaluation = e, !.lines = a] :
     l \in BOOLEAN, d \in {Absent, 1}, o \in {Absent, [cases |-> 2, eligible |-> 1]},
     e \in {Absent, [recall |-> 3, hundredths |-> 50], [recall |-> 1, hundredths |-> 20000]}, a \in {Nothing.lines, Answered}}
  \cup {[Nothing EXCEPT !.local = TRUE, !.lines = Answered, !.limits = w] :
     w \in {{Window("weekly", 33, 66)}, {Window("other", 1, 2)}, {Window("weekly", Absent, Absent)}}}

MCSummaries == {{}, {[number |-> 1, valid |-> TRUE]}, {[number |-> 1, valid |-> TRUE], [number |-> 2, valid |-> FALSE]}}

\* In each scope of the collector what another is about stays out, and a source
\* changes only before it is read: the stages between look at nothing of it.
Bare(rows) ==
  /\ \A r \in rows : r.kind \in {"device", "security", "status"}
  /\ \A r \in rows : r.kind = "device" => r.body.plugin = "unavailable"
  /\ \A r \in rows : r.kind = "security" => r.body.status = "unavailable"
Without(kind) == \A r \in cycle'.rows : r.kind # kind
SourcesChange ==
  /\ files' # files => cycle.at \in {"runs", "tasks", "checks"} /\ files \ files' \subseteq {"parent"}
  /\ config' # config => cycle.at \in {"rest", "tasks"} /\ cycles = <<>> /\ \A w \in DOMAIN config : config'[w] \in {config[w], desktop}
  /\ exporting' # exporting => cycle.at = "graph"
CollectorScope ==
  /\ SourcesChange
  /\ CASE scope = "sessions" -> /\ UNCHANGED exporting /\ cycle'.observed <= 1
                                /\ (At("measure") => Bare(cycle'.rows)) /\ (At("graph") => cycle'.rows = cycle.rows)
       [] scope = "graphs" -> /\ UNCHANGED <<files, config>> /\ (\A k \in DOMAIN cycles' : cycles'[k].delivered)
                               /\ (At("graph") => Without("summary")) /\ (At("measure") => Bare(cycle'.rows))
                               /\ (At("graph") /\ exporting' = exporting /\ cache = Absent => spare = Absent)
       [] scope = "measures" -> /\ UNCHANGED <<exporting, config>> /\ files' \subseteq {"odd"} /\ cycle'.observed <= 1
                                /\ (At("graph") => Without("graph"))
MCInit == Init /\ CollectorInit /\ scope \in {"import", "restore", "sessions", "graphs", "measures"}
MCSpec ==
  /\ MCInit
  /\ [][/\ UNCHANGED scope
        /\ \/ scope \in {"import", "restore"} /\ Next /\ InScope /\ UNCHANGED collectorVars
           \/ scope \in {"sessions", "graphs", "measures"} /\ CollectorNext /\ CollectorScope /\ UNCHANGED vars]_<<vars, collectorVars, scope>>
================================================================================
