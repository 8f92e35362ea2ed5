------------------------------- MODULE MCSession -------------------------------
\* One session and a terminal beside it.  Three scopes: "log" explores two tasks
\* with the repository at rest and no Stop; "hooks" explores the whole life of
\* a session around one task, with Local's summaries on and the terminal quiet:
\* there git runs between two commands, neither of which reads what the other
\* writes, and between two hooks: at work or after a turn; and the loop may be
\* switched off, once, while a Stop is blocked.  "summary" lets tasks
\* of five kinds finish three at a time, up to thirty, and summarises them.
\* "log" stops where a dead process's lock file is cleared away under a command:
\* DeadLockSpec goes on from there.
EXTENDS SessionHooks, EvaluationSummary

VARIABLE scope
MCConfigs == {[enabled |-> TRUE, mode |-> "full", experiment |-> x, counter |-> 0] : x \in BOOLEAN}
MCOverrides == {None}

\* Without memory, with recall and with all of Routecraft; the second task ends in
\* no time, the third's record is longer than what it was learned from.
Finish(mode, repository, device, elapsed, hypotheses, records, source) ==
  [mode |-> mode, repository |-> repository, device |-> device, class |-> "test", success |-> TRUE, elapsed |-> elapsed,
   hypotheses |-> hypotheses, records |-> records, source |-> source, kept |-> 2]
Recalled(rank, repository, device, verdict) == [rank |-> rank, repository |-> repository, device |-> device, verdict |-> verdict]
MCTaskKinds ==
  <<Finish("off", "a", "d", 4, 1, {}, 0), Finish("off", "b", Missing, 0, 0, {}, 0),
    Finish("recall", "a", "d", 2, Missing, {Recalled(1, "b", "e", "useful"), Recalled(2, "a", Missing, "misleading")}, 1),
    Finish("recall", Missing, "d", 3, 0, {}, 40),
    Finish("full", "b", "d", 9, 2, {Recalled(2, "b", "d", "useful"), Recalled(1, "a", "e", "stale")}, 0)>>

InScope ==
  \/ scope = "log" /\ ~overtaken /\ UNCHANGED <<repo, loopcfg>> /\ \A s \in Sessions : turn'[s].at \in {"off", "working"}
  \/ scope = "hooks" /\ made' <= 1 /\ pc'[Terminal] = Idle
     /\ (repo' # repo => \A s \in Sessions : pc[s] = Idle /\ (At(s, "working") \/ At(s, "stopped")))
     /\ (loopcfg' # loopcfg => ~loopcfg'.enabled /\ loopcfg'.summary /\ \E s \in Sessions : At(s, "blocked"))
     /\ (~loopcfg.enabled => \A s \in Sessions : turn[s].at \in {"off", "stopped"} => turn'[s] = turn[s])
MCInit ==
  /\ Init /\ SummaryInit /\ scope \in {"log", "hooks", "summary"}
  /\ loopcfg.summary /\ (loopcfg.enabled <=> scope = "hooks") /\ (scope = "summary" => config.experiment)
MCSpec ==
  /\ MCInit
  /\ [][ /\ UNCHANGED scope
         /\ \/ scope = "summary" /\ SummaryNext /\ UNCHANGED vars
            \/ Next /\ InScope /\ UNCHANGED summaryVars]_<<vars, summaryVars, scope>>
  /\ Fairness

\* Two processes after one died in a command, the repository and the loop at rest.
DeadLockSpec ==
  /\ MCInit /\ scope = "log"
  /\ [][Next /\ UNCHANGED <<repo, loopcfg, scope, summaryVars>>]_<<vars, summaryVars, scope>>
===============================================================================
