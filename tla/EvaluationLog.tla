----------------------------- MODULE EvaluationLog -----------------------------
(***************************************************************************)
(* The local evaluation log (routecraft_evaluation.py): a configuration    *)
(* with a round-robin experiment, an append-only log of task_start, recall *)
(* and task_finish events, and one file per session that names its task.   *)
(* Commands of several processes exclude each other by a lock file, which  *)
(* they create, look at and remove in separate steps; each command is      *)
(* taken apart where it reads and where it writes.                         *)
(***************************************************************************)
EXTENDS Integers, Sequences, FiniteSets

CONSTANTS Sessions,   \* sessions of the host, each running one command at a time
          Terminal,   \* a process without a session id
          MaxTasks,   \* bound: task ids made
          MaxFaults,  \* bound: crashes and failed writes
          Configs,    \* configurations, with counter 0, that configure may ask for
          Overrides,  \* the modes start may be asked for, None for the assigned one
          Stale,      \* the lock file of a process that died
          None

ASSUME EvaluationAssumption ==
  /\ Terminal \notin Sessions /\ None \notin Sessions /\ None # Terminal
  /\ Stale \notin Sessions \cup {Terminal, None}
  /\ None \notin Nat /\ MaxTasks \in Nat /\ MaxFaults \in Nat
  /\ Overrides \subseteq {"off", "recall", "full", None}
  /\ Configs \subseteq [enabled : BOOLEAN, mode : {"off", "recall", "full"}, experiment : BOOLEAN, counter : {0}]

Procs == Sessions \cup {Terminal}
Tasks == 1 .. MaxTasks
Modes == {"off", "recall", "full"}
Sequence == <<"off", "recall", "full">>
Skips == {None, "mode_off", "mode_recall_only", "finite"}

VARIABLES
  config,   \* config.json: enabled, mode, experiment.enabled, experiment.counter
  log,      \* events.jsonl
  file,     \* sessions/<key>.json: the task a session works on
  lock,     \* .lock: the process that created it, or Stale
  pc,       \* what each process is doing
  made,     \* task ids made so far
  faults,   \* crashes and failed writes so far
  overtaken \* history: the file of a process at work was removed for a dead one's

evalVars == <<config, log, file, lock, pc, made, faults, overtaken>>

Idle == [op |-> "idle"]
Held == [op |-> "held"]
\* A process that has entered EvalLock has another op than these.
Entering == {"idle", "retry", "look", "clear"}

EvalInit ==
  /\ config \in Configs
  /\ log = <<>> /\ file = [s \in Sessions |-> None]
  /\ lock = None /\ pc = [p \in Procs |-> Idle] /\ made = 0 /\ faults = 0 /\ overtaken = FALSE

Events(kind, t) == {i \in DOMAIN log : log[i].event = kind /\ log[i].task = t}
Finished(t) == Events("finish", t) # {}

Doing(p, op) == pc[p].op = op
Goes(p, at) == pc' = [pc EXCEPT ![p] = at]
Again(last) == IF last THEN Idle ELSE [op |-> "retry"]

\* EvalLock.__enter__, twice at most: the file is created if there is none.
Enter(p) ==
  /\ pc[p].op \in {"idle", "retry"}
  /\ \/ lock = None /\ lock' = p /\ Goes(p, Held)
     \/ lock # None /\ UNCHANGED lock /\ Goes(p, [op |-> "look", last |-> Doing(p, "retry")])
  /\ UNCHANGED <<config, log, file, made, faults, overtaken>>

\* Faulty variant of Look: whatever file is there is taken for a stale one.
LookAside(p) ==
  /\ Doing(p, "look")
  /\ \/ lock = None /\ Goes(p, Again(pc[p].last))
     \/ lock # None /\ Goes(p, [op |-> "clear", last |-> pc[p].last, seen |-> lock])
  /\ UNCHANGED <<config, log, file, lock, made, faults, overtaken>>

\* Its age is looked at: a command raises before a file younger than
\* LOCK_STALE_SECONDS.  Commands take less, so an older one is a dead process's.
Look(p) ==
  /\ Doing(p, "look")
  /\ \/ lock = None /\ Goes(p, Again(pc[p].last))
     \/ lock = Stale /\ Goes(p, [op |-> "clear", last |-> pc[p].last, seen |-> lock])
     \/ lock \in Procs /\ Goes(p, Idle)
  /\ UNCHANGED <<config, log, file, lock, made, faults, overtaken>>

\* The file is removed: the one that was looked at, or one created since.
Clear(p) ==
  /\ Doing(p, "clear") /\ lock' = None
  /\ overtaken' = (overtaken \/ (pc[p].seen = Stale /\ lock \in Procs))
  /\ Goes(p, Again(pc[p].last)) /\ UNCHANGED <<config, log, file, made, faults>>

\* EvalLock.__exit__ removes the file that is there.
Release(p) == lock' = None /\ Goes(p, Idle)
\* A process dies: if its file is there, it grows stale.
Dies(p) == lock' = (IF lock = p THEN Stale ELSE lock) /\ Goes(p, Idle)

\* What a command does next, once it has the lock.
Begins(p, command) == Doing(p, "held") /\ UNCHANGED <<lock, overtaken>> /\ Goes(p, command)

\* configure keeps the counter of the experiment.
Configured(change) == [change EXCEPT !.counter = config.counter]

\* configure: reads the configuration under the lock and saves it changed.
Configure(p, change) ==
  /\ Begins(p, [op |-> "configure", new |-> Configured(change)])
  /\ UNCHANGED <<config, log, file, made, faults>>
\* save_eval_config, at the end of configure or in the middle of start.
SaveConfig(p) ==
  /\ pc[p].op \in {"configure", "assign"} /\ config' = pc[p].new
  /\ IF Doing(p, "configure") THEN Release(p)
     ELSE /\ UNCHANGED lock
          /\ Goes(p, [op |-> "start", task |-> pc[p].task, mode |-> pc[p].mode, slot |-> pc[p].slot])
  /\ UNCHANGED <<log, file, made, faults, overtaken>>

\* start_task refuses a session whose file names a task the log does not
\* finish, whether or not the log has its start.
SessionBusy(p) == p \in Sessions /\ file[p] # None /\ ~Finished(file[p])

\* next_mode: an override, the configured mode, or the experiment's next one.
NextMode(override) ==
  IF override # None THEN override
  ELSE IF ~config.experiment THEN config.mode
  ELSE Sequence[(config.counter % Len(Sequence)) + 1]
Slot(override) == IF override = None /\ config.experiment THEN config.counter ELSE None

\* start_task: the mode is assigned, the counter saved if it is the next one's
\* turn, then the session file is written, then the event appended.
StartTask(p, override) ==
  /\ made < MaxTasks /\ config.enabled /\ ~SessionBusy(p)
  /\ LET started == [op |-> "start", task |-> made + 1, mode |-> NextMode(override), slot |-> Slot(override)] IN
     IF Slot(override) = None THEN Begins(p, started)
     ELSE Begins(p, [op |-> "assign", task |-> started.task, mode |-> started.mode, slot |-> started.slot,
                     new |-> [config EXCEPT !.counter = @ + 1]])
  /\ made' = made + 1 /\ UNCHANGED <<config, log, file, faults>>
WriteSession(p) ==
  /\ Doing(p, "start") /\ pc' = [pc EXCEPT ![p].op = "append"]
  /\ file' = IF p \in Sessions THEN [file EXCEPT ![p] = pc[p].task] ELSE file
  /\ UNCHANGED <<config, log, lock, made, faults, overtaken>>
StartEvent(p) == [event |-> "start", task |-> pc[p].task, mode |-> pc[p].mode, slot |-> pc[p].slot]
AppendStart(p) ==
  /\ Doing(p, "append") /\ log' = Append(log, StartEvent(p))
  /\ Release(p) /\ UNCHANGED <<config, file, made, faults, overtaken>>

ModeOf(t) == LET i == CHOOSE j \in Events("start", t) : TRUE IN log[i].mode

\* record_recall: once per task, before it is finished, and never in mode off.
Recallable(t) ==
  /\ Events("start", t) # {} /\ ModeOf(t) # "off" /\ Events("recall", t) = {} /\ ~Finished(t)
RecordRecall(p, t) ==
  /\ Recallable(t) /\ Begins(p, [op |-> "log", entry |-> [event |-> "recall", task |-> t]])
  /\ UNCHANGED <<config, log, file, made, faults>>

\* memory_loop_status: what a finish may claim in each mode.
LoopStatus(t, learned, skip) ==
  LET recalls == Events("recall", t) IN
  CASE ModeOf(t) = "off" -> recalls = {} /\ ~learned /\ skip = "mode_off"
    [] ModeOf(t) = "recall" -> Cardinality(recalls) = 1 /\ ~learned /\ skip = "mode_recall_only"
    [] OTHER -> Cardinality(recalls) = 1 /\ (IF learned THEN skip = None ELSE skip = "finite")

\* finish_task; which of the recalled records were useful is left out.
FinishTask(p, t, learned, skip) ==
  /\ Events("start", t) # {} /\ ~Finished(t) /\ LoopStatus(t, learned, skip)
  /\ Begins(p, [op |-> "finish", entry |-> [event |-> "finish", task |-> t, learned |-> learned]])
  /\ UNCHANGED <<config, log, file, made, faults>>

\* the append of a recall or of a finish; a finish then removes the file of
\* its own session.
AppendEvent(p) ==
  /\ pc[p].op \in {"log", "finish"} /\ log' = Append(log, pc[p].entry)
  /\ IF Doing(p, "log") THEN Release(p) /\ UNCHANGED file
     ELSE pc' = [pc EXCEPT ![p].op = "unlink"] /\ UNCHANGED <<lock, file>>
  /\ UNCHANGED <<config, made, faults, overtaken>>
UnlinkFinished(p) ==
  /\ Doing(p, "unlink") /\ Release(p)
  /\ file' = IF p \in Sessions /\ file[p] = pc[p].entry.task THEN [file EXCEPT ![p] = None] ELSE file
  /\ UNCHANGED <<config, log, made, faults, overtaken>>

\* A command that refuses what it is asked for, or is not enabled.
Refuse(p) == Doing(p, "held") /\ Release(p) /\ UNCHANGED <<config, log, file, made, faults, overtaken>>

\* A write raises.  The line of an append may be in the log all the same (the
\* error is fsync's); start then takes the session file back.
WriteFails(p) ==
  /\ pc[p].op \notin Entering \cup {"held"} /\ Release(p) /\ faults < MaxFaults /\ faults' = faults + 1
  /\ \/ UNCHANGED log
     \/ Doing(p, "append") /\ log' = Append(log, StartEvent(p))
     \/ pc[p].op \in {"log", "finish"} /\ log' = Append(log, pc[p].entry)
  /\ file' = IF Doing(p, "append") /\ p \in Sessions THEN [file EXCEPT ![p] = None] ELSE file
  /\ UNCHANGED <<config, made, overtaken>>

\* The process is killed: its lock file stays.
CrashCommand(p) ==
  /\ pc[p] # Idle /\ faults < MaxFaults /\ faults' = faults + 1
  /\ Dies(p) /\ UNCHANGED <<config, log, file, made, overtaken>>

CommandStep(p) ==
  \/ (pc[p] # Idle /\ Enter(p)) \/ Look(p) \/ Clear(p) \/ Refuse(p)
  \/ SaveConfig(p) \/ WriteSession(p) \/ AppendStart(p) \/ AppendEvent(p) \/ UnlinkFinished(p)
  \/ WriteFails(p) \/ CrashCommand(p)
Command(p) ==
  \/ pc[p] = Idle /\ Enter(p)
  \/ \E change \in Configs : Configure(p, change)
  \/ \E override \in Overrides : StartTask(p, override)
  \/ \E t \in Tasks : RecordRecall(p, t)
  \/ \E t \in Tasks, learned \in BOOLEAN, skip \in Skips : FinishTask(p, t, learned, skip)
--------------------------------------------------------------------------------
EvalTypeOK ==
  /\ config \in [enabled : BOOLEAN, mode : Modes, experiment : BOOLEAN, counter : 0 .. MaxTasks]
  /\ file \in [Sessions -> Tasks \cup {None}] /\ lock \in Procs \cup {None, Stale}
  /\ made \in 0 .. MaxTasks /\ faults \in 0 .. MaxFaults
  /\ overtaken \in BOOLEAN /\ \A p \in Procs : pc[p].op \in Entering \/ lock = p \/ overtaken
  /\ \A i \in DOMAIN log : log[i].event \in {"start", "recall", "finish"} /\ log[i].task \in 1 .. made

\* A slot of the round-robin experiment is assigned to one task at most, so
\* that the modes of the experiment stay balanced (next_mode under the lock,
\* beside a configure that rewrites the same file).
AssignedOnce ==
  \A i, j \in DOMAIN log :
    (log[i].event = "start" /\ log[j].event = "start" /\ log[i].slot = log[j].slot /\ log[i].slot # None) => i = j

\* The loop of a finished task is closed and consistent with its mode: one
\* start, one finish, no recall in mode off and else exactly one, made before
\* the finish; only a task in mode full has learned.
LoopClosed ==
  \A i \in DOMAIN log : log[i].event = "finish" =>
    LET t == log[i].task IN
    /\ Cardinality(Events("start", t)) = 1 /\ Events("finish", t) = {i}
    /\ Cardinality(Events("recall", t)) = (IF ModeOf(t) = "off" THEN 0 ELSE 1)
    /\ \A j \in Events("start", t) \cup Events("recall", t) : j < i
    /\ log[i].learned => ModeOf(t) = "full"

\* Commands that run in parallel are serialized: a task is finished once
\* (test_parallel_start_and_finish_are_serialized), also after a process died.
FinishedOnce == \A t \in Tasks : Cardinality(Events("finish", t)) <= 1

\* Every task that SessionStart lists as unfinished can be finished (hook
\* context: "Recover each task with finish after verification").
UnfinishedRecoverable ==
  \A s \in Sessions : (file[s] # None /\ ~Finished(file[s]) /\ lock = None) => Events("start", file[s]) # {}
================================================================================
