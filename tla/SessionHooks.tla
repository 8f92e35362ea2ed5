------------------------------ MODULE SessionHooks ------------------------------
(***************************************************************************)
(* The SessionStart and Stop hooks (routecraft_source_guard.py) over one   *)
(* repository, the evaluation log and the Local Memory Loop bridge         *)
(* (routecraft_local/loop_bridge.py).  Hooks take no lock of the log.  A   *)
(* Stop that blocks makes the host go on and stop again with               *)
(* stop_hook_active set.  The source guard is enabled and its remote is    *)
(* GitHub's; a hook without a session id leaves nothing behind and is left *)
(* out.                                                                    *)
(***************************************************************************)
EXTENDS EvaluationLog

VARIABLES
  repo,      \* working tree, commits of HEAD and of its upstream branch
  baseline,  \* source-guard/<key>.json: [head, tree] at the first SessionStart
  bridge,    \* local-memory/sessions/<key>.json: the fingerprint at start
  loopcfg,   \* local-memory.json: enabled, auto_session_summary
  memories,  \* Memory Local: the session summaries, by session
  turn,      \* off, working, a Stop hook at work, blocked, stopped
  first      \* history: the repository at the first SessionStart

hookVars == <<repo, baseline, bridge, loopcfg, memories, turn, first>>
vars == <<evalVars, hookVars>>

Commits == {"mine", "theirs"}
LoopConfigs == [enabled : BOOLEAN, summary : BOOLEAN]
At(s, at) == turn[s].at = at
To(s, at) == turn' = [turn EXCEPT ![s].at = at]
Off == [at |-> "off", active |-> FALSE, blocks |-> FALSE]

Init ==
  /\ EvalInit
  /\ repo = [tree |-> "clean", head |-> {}, upstream |-> {}]
  /\ baseline = [s \in Sessions |-> None] /\ bridge = [s \in Sessions |-> None]
  /\ loopcfg \in LoopConfigs
  /\ memories = <<>> /\ turn = [s \in Sessions |-> Off] /\ first = [s \in Sessions |-> None]

\* _evaluation_permissions
RecallAllowed == ~config.enabled \/ (~config.experiment /\ config.mode # "off")
LearningAllowed == ~config.enabled \/ (~config.experiment /\ config.mode = "full")

\* working_fingerprint and _fingerprint: the tree and HEAD.
Seen == [tree |-> repo.tree, head |-> repo.head]
Initial(old) == IF old = None THEN Seen ELSE old

\* Faulty variant of Guarded: every SessionStart takes a new baseline.
GuardedAfresh(s) == baseline' = [baseline EXCEPT ![s] = Seen]

\* start of the source guard: the baseline is written once.
Guarded(s) == baseline' = [baseline EXCEPT ![s] = Initial(@)]

\* session_start of the bridge: no state file without a repository, a project
\* Local knows or when anything raises.
Bridged(s) ==
  \/ UNCHANGED bridge
  \/ loopcfg.enabled /\ RecallAllowed /\ bridge' = [bridge EXCEPT ![s] = Initial(@)]

\* SessionStart, also of a session that is resumed: each hook writes its file
\* only when there is none.
SessionStart(s) ==
  /\ (At(s, "off") \/ At(s, "stopped")) /\ turn' = [turn EXCEPT ![s] = [Off EXCEPT !.at = "working"]]
  /\ Guarded(s) /\ Bridged(s)
  /\ first' = [first EXCEPT ![s] = Initial(@)]
  /\ UNCHANGED <<evalVars, repo, loopcfg, memories>>

\* A Stop begins once the commands of the turn have ended.
Stop(s) ==
  /\ pc[s] = Idle
  /\ \/ At(s, "working") /\ turn' = [turn EXCEPT ![s].at = "source"]
     \/ At(s, "blocked") /\ turn' = [turn EXCEPT ![s].at = "source", ![s].active = TRUE, ![s].blocks = FALSE]
  /\ UNCHANGED <<evalVars, repo, baseline, bridge, loopcfg, memories, first>>

\* stop of the source guard: work since the baseline must be committed, and
\* neither ahead of nor behind the upstream branch.
Unsynchronised(s) == Seen # baseline[s] /\ (repo.tree # "clean" \/ repo.head # repo.upstream)
SourceStop(s) ==
  /\ At(s, "source")
  /\ turn' = [turn EXCEPT ![s].at = "evaluation", ![s].blocks = ~turn[s].active /\ Unsynchronised(s)]
  /\ UNCHANGED <<evalVars, repo, baseline, bridge, loopcfg, memories, first>>

\* memory_stop: a file whose task is finished is removed, an unfinished task
\* blocks; then the results are merged, and Local is called if none blocks.
MemoryStop(s) ==
  /\ At(s, "evaluation")
  /\ LET asks == ~turn[s].active /\ file[s] # None
         open == asks /\ ~Finished(file[s])
     IN /\ file' = IF asks /\ ~open THEN [file EXCEPT ![s] = None] ELSE file
        /\ To(s, IF turn[s].blocks \/ open THEN "blocked" ELSE "local")
  /\ UNCHANGED <<config, log, lock, pc, made, faults, overtaken, repo, baseline, bridge, loopcfg, memories, first>>

\* Faulty variant of SummaryWanted: a retried Stop leaves Local out.
SummaryWantedFirst(s) == ~turn[s].active /\ loopcfg.enabled /\ bridge[s] # None

\* session_stop is called with stop_hook_active unset.
SummaryWanted(s) == loopcfg.enabled /\ bridge[s] # None

\* Faulty variant of AddLoopSummary: the key table is not asked.
AddLoopSummaryAgain(s) == memories' = Append(memories, s)

\* add_loop_session_summary: one row per project and session key.
AddLoopSummary(s) ==
  memories' = IF \E i \in DOMAIN memories : memories[i] = s THEN memories ELSE Append(memories, s)

\* session_stop: the summary is saved, then the state file is removed.
LocalStop(s) ==
  /\ At(s, "local")
  /\ IF ~SummaryWanted(s) THEN To(s, "stopped") /\ UNCHANGED memories
     ELSE /\ To(s, "remove")
          /\ IF LearningAllowed /\ Seen # bridge[s] /\ loopcfg.summary THEN AddLoopSummary(s)
             ELSE UNCHANGED memories
  /\ UNCHANGED <<evalVars, repo, baseline, bridge, loopcfg, first>>
RemoveState(s) ==
  /\ At(s, "remove") /\ bridge' = [bridge EXCEPT ![s] = None] /\ To(s, "stopped")
  /\ UNCHANGED <<evalVars, repo, baseline, loopcfg, memories, first>>
\* any exception of session_stop is a message: the hook passes
LocalFails(s) ==
  /\ (At(s, "local") /\ SummaryWanted(s)) \/ At(s, "remove")
  /\ faults < MaxFaults /\ faults' = faults + 1 /\ To(s, "stopped")
  /\ UNCHANGED <<config, log, file, lock, pc, made, overtaken, repo, baseline, bridge, loopcfg, memories, first>>

\* The host dies; its session may be resumed.
CrashSession(s) ==
  /\ ~At(s, "off") /\ faults < MaxFaults /\ faults' = faults + 1
  /\ turn' = [turn EXCEPT ![s] = Off] /\ Dies(s)
  /\ UNCHANGED <<config, log, file, made, overtaken, repo, baseline, bridge, loopcfg, memories, first>>

\* configure of the bridge, by the user at any time: no hook takes a lock.
ConfigureLoop(change) ==
  /\ loopcfg' = change
  /\ UNCHANGED <<evalVars, repo, baseline, bridge, memories, turn, first>>

\* What happens to the repository: edits, one commit, a push and a pull
\* without force, and a fetch of what another device pushed.
Git(r) == repo' = r /\ UNCHANGED <<evalVars, baseline, bridge, loopcfg, memories, turn, first>>
Edit == repo.tree = "clean" /\ Git([repo EXCEPT !.tree = "edited"])
Revert == repo.tree = "edited" /\ Git([repo EXCEPT !.tree = "clean"])
Commit == repo.tree = "edited" /\ Git([repo EXCEPT !.tree = "clean", !.head = @ \cup {"mine"}])
Push == repo.upstream \subseteq repo.head /\ Git([repo EXCEPT !.upstream = repo.head])
Fetch == Git([repo EXCEPT !.upstream = @ \cup {"theirs"}])
Pull == repo.tree = "clean" /\ Git([repo EXCEPT !.head = @ \cup repo.upstream])

HookStep(s) == SourceStop(s) \/ MemoryStop(s) \/ LocalStop(s) \/ RemoveState(s)
Working(p) == p \in Sessions => At(p, "working") \/ At(p, "blocked")
Next ==
  \/ \E p \in Procs : UNCHANGED hookVars /\ (CommandStep(p) \/ (Working(p) /\ Command(p)))
  \/ \E s \in Sessions : SessionStart(s) \/ Stop(s) \/ HookStep(s) \/ LocalFails(s) \/ CrashSession(s)
  \/ \E change \in LoopConfigs : ConfigureLoop(change)
  \/ Edit \/ Revert \/ Commit \/ Push \/ Fetch \/ Pull
Spec == Init /\ [][Next]_vars

\* The hook process runs to its end, commands end, and the host stops again
\* after a block.
Fairness == \A s \in Sessions :
  /\ WF_vars(HookStep(s)) /\ SF_vars(At(s, "blocked") /\ Stop(s))
  /\ WF_vars(CommandStep(s) /\ UNCHANGED hookVars)
FairSpec == Spec /\ Fairness
--------------------------------------------------------------------------------
TypeOK ==
  /\ EvalTypeOK /\ repo \in [tree : {"clean", "edited"}, head : SUBSET Commits, upstream : SUBSET Commits]
  /\ \A s \in Sessions :
       /\ turn[s].at \in {"off", "working", "source", "evaluation", "local", "remove", "blocked", "stopped"}
       /\ turn[s].active \in BOOLEAN /\ turn[s].blocks \in BOOLEAN
       /\ bridge[s] # None => first[s] # None

\* A session that ends its turn without having been asked has left the
\* repository as it first found it or has its work committed and pushed:
\* a resumed session does not start from a clean slate.
WorkAskedFor ==
  [][\A s \in Sessions :
       (At(s, "source") /\ At(s, "evaluation")' /\ ~turn[s].active /\ ~turn'[s].blocks)
         => Seen = first[s] \/ (repo.tree = "clean" /\ repo.head = repo.upstream)]_vars

\* Local keeps one summary per session, over crashes between the save and the
\* removal of the state file, failed hooks and resumed sessions.
OneSummary == \A i, j \in DOMAIN memories : memories[i] = memories[j] => i = j

\* Together: what sessions leave behind can be evaluated, slots and loops as
\* long as no dead process's lock file was cleared away twice.
SessionSound == (~overtaken => AssignedOnce /\ LoopClosed) /\ OneSummary

\* A blocked Stop is retried, and then Local is finalised (local_memory_stop:
\* "the Local bridge still has to finalize its sidecar exactly once"), unless
\* the bridge is switched off meanwhile: its state file then stays.
BlockedStopFinalised ==
  \A s \in Sessions :
    (turn[s].at = "blocked" /\ loopcfg.enabled) ~> (bridge[s] = None \/ ~loopcfg.enabled \/ faults > 0)
================================================================================
