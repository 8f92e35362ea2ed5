------------------------------ MODULE SessionProofs ------------------------------
(***************************************************************************)
(* What the evaluation log and the hooks of any number of sessions keep:   *)
(* slots are assigned once, loops are closed, a session has one summary,   *)
(* and no session that leaves work behind ends a turn without having been  *)
(* asked.  While no process at work has been overtaken, the lock leaves    *)
(* one command at work; what it has read before it still holds when it     *)
(* writes.  Then what the summary makes of the log:                        *)
(* its sums, medians and means, for any number of tasks of any kinds.      *)
(***************************************************************************)
EXTENDS SessionHooks, EvaluationSummary, FiniteSetTheorems, SumTheorems, TLAPS

Entries ==
  [event : {"start"}, task : Nat, mode : Modes, slot : Nat \cup {None}]
    \cup [event : {"recall"}, task : Nat] \cup [event : {"finish"}, task : Nat, learned : BOOLEAN]
EntryAt(l, kind, i, t) == i \in 1 .. Len(l) /\ l[i].event = kind /\ l[i].task = t

\* A recall follows a start that allows it; a finish follows a start, what the
\* mode of the start asks for, and every recall of its task.
FollowsStart(l, i) == \E k \in 1 .. Len(l) : EntryAt(l, "start", k, l[i].task) /\ l[k].mode # "off"
ClosesLoop(l, i) ==
  /\ \E k \in 1 .. Len(l) :
       /\ k < i /\ EntryAt(l, "start", k, l[i].task) /\ (l[i].learned => l[k].mode = "full")
       /\ l[k].mode = "off" \/ \E j \in 1 .. Len(l) : EntryAt(l, "recall", j, l[i].task)
  /\ \A j \in 1 .. Len(l) : EntryAt(l, "recall", j, l[i].task) => j < i

\* Each task has each event once, and its events follow one another.
LogWhole(l, count) ==
  /\ \A i \in 1 .. Len(l) : l[i].task \in 1 .. count
  /\ \A i, j \in 1 .. Len(l) : l[i].event = l[j].event /\ l[i].task = l[j].task => i = j
  /\ \A i \in 1 .. Len(l) : /\ l[i].event = "recall" => FollowsStart(l, i)
                            /\ l[i].event = "finish" => ClosesLoop(l, i)
\* Slots below the counter, each once.
SlotsOK(l, counter) ==
  /\ \A i \in 1 .. Len(l) : l[i].event = "start" /\ l[i].slot # None => l[i].slot < counter
  /\ \A i, j \in 1 .. Len(l) :
       l[i].event = "start" /\ l[j].event = "start" /\ l[i].slot = l[j].slot /\ l[i].slot # None => i = j

\* An entry that the log is ready for.
FitsStart(l, t, slot, counter) ==
  /\ \A i \in 1 .. Len(l) : l[i].task # t
  /\ slot # None => slot < counter /\ \A i \in 1 .. Len(l) : l[i].event = "start" => l[i].slot # slot
FitsRecall(l, entry) ==
  /\ \A i \in 1 .. Len(l) : l[i].task = entry.task => l[i].event = "start"
  /\ \E k \in 1 .. Len(l) : EntryAt(l, "start", k, entry.task) /\ l[k].mode # "off"
FitsFinish(l, entry) ==
  /\ \A i \in 1 .. Len(l) : l[i].task = entry.task => l[i].event # "finish"
  /\ \E k \in 1 .. Len(l) :
       /\ EntryAt(l, "start", k, entry.task) /\ (entry.learned => l[k].mode = "full")
       /\ l[k].mode = "off" \/ \E j \in 1 .. Len(l) : EntryAt(l, "recall", j, entry.task)

Configuration == [enabled : BOOLEAN, mode : Modes, experiment : BOOLEAN, counter : Nat]

\* What a command at work is going to write.
Pending(c, l, count, counter) ==
  /\ c.op = "clear" => c.seen = Stale
  /\ c.op = "assign" =>
       /\ c \in [op : {"assign"}, task : 1 .. count, mode : Modes, slot : Nat, new : Configuration]
       /\ c.slot = counter /\ c.new.counter = counter + 1 /\ \A i \in 1 .. Len(l) : l[i].task # c.task
  /\ c.op \in {"start", "append"} =>
       /\ c \in [op : {"start", "append"}, task : 1 .. count, mode : Modes, slot : Nat \cup {None}]
       /\ FitsStart(l, c.task, c.slot, counter)
  /\ c.op \in {"log", "finish"} =>
       /\ c \in [op : {"log", "finish"}, entry : Entries] /\ c.entry.task \in 1 .. count
       /\ c.entry.event = IF c.op = "log" THEN "recall" ELSE "finish"
  /\ c.op = "log" => FitsRecall(l, c.entry)
  /\ c.op = "finish" => FitsFinish(l, c.entry)
  /\ c.op = "configure" => c.new \in Configuration /\ c.new.counter = counter
\* A command that has entered its lock holds it.
Commanded(commands, holder) ==
  DOMAIN commands = Procs /\ \A p \in Procs : commands[p].op \notin Entering => holder = p
EInv ==
  /\ made \in Nat /\ config \in Configuration /\ log \in Seq(Entries)
  /\ LogWhole(log, made) /\ SlotsOK(log, config.counter)
  /\ Commanded(pc, lock) /\ \A p \in Procs : Pending(pc[p], log, made, config.counter)

Stages == {"off", "working", "source", "evaluation", "local", "remove", "blocked", "stopped"}
HInv ==
  /\ turn \in [Sessions -> [at : Stages, active : BOOLEAN, blocks : BOOLEAN]]
  /\ DOMAIN first = Sessions /\ baseline = first
  /\ memories \in Seq(Sessions) /\ OneSummary
SInv == (overtaken \/ EInv) /\ HInv

-----------------------------------------------------------------------------
(* Commands: one is at work, and it holds the lock.                         *)

LEMMA QuietOps ==
  ASSUME NEW c, c.op \in Entering \cup {"held"}, c.op = "clear" => c.seen = Stale
  PROVE  \A l, count, counter : Pending(c, l, count, counter)
  BY DEF Pending, Entering

LEMMA QuietStays ==
  ASSUME NEW c, c.op \in Entering, NEW l, NEW count, NEW counter, Pending(c, l, count, counter)
  PROVE  \A m, n, k : Pending(c, m, n, k)
<1>1. c.op = "clear" => c.seen = Stale
  BY DEF Pending
<1> QED
  BY <1>1, QuietOps

LEMMA OpsAre ==
  /\ Idle.op = "idle" /\ Idle.op # "clear" /\ Idle.op \in Entering /\ Held.op = "held"
  BY DEF Idle, Held, Entering

LEMMA OnlyOne ==
  ASSUME Commanded(pc, lock), NEW p \in Procs, pc[p].op \notin Entering
  PROVE  lock = p /\ \A q \in Procs : q # p => pc[q].op \in Entering
  BY DEF Commanded

\* While the lock belongs to nobody, or to a dead process, nobody is at work.
LEMMA NobodyElse ==
  ASSUME Commanded(pc, lock), lock \notin Procs
  PROVE  \A q \in Procs : pc[q].op \in Entering
  BY DEF Commanded

\* A step of one process at the lock, or one that ends its command.
LEMMA MovesOn ==
  ASSUME EInv, NEW p \in Procs, NEW at, at.op \in Entering \cup {"held"}, at.op = "clear" => at.seen = Stale, Goes(p, at),
         made' = made, config' \in Configuration, log' \in Seq(Entries),
         LogWhole(log', made), SlotsOK(log', config'.counter),
         \/ config'.counter = config.counter /\ log' = log
         \/ \A q \in Procs : q # p => pc[q].op \in Entering,
         at.op \notin Entering => lock' = p,
         \A q \in Procs : q # p /\ pc[q].op \notin Entering => lock' = lock
  PROVE  EInv'
<1>1. DOMAIN pc' = Procs /\ pc'[p] = at /\ \A q \in Procs : q # p => pc'[q] = pc[q]
  BY DEF Goes, EInv, Commanded
<1>2. Commanded(pc', lock')
  BY <1>1 DEF EInv, Commanded
<1>3. ASSUME NEW q \in Procs PROVE Pending(pc'[q], log', made, config'.counter)
  <2>1. CASE q = p
    BY <1>1, <2>1, QuietOps
  <2>2. CASE q # p /\ pc[q].op \in Entering
    BY <1>1, <2>2, QuietStays DEF EInv
  <2>3. CASE q # p /\ config'.counter = config.counter /\ log' = log
    BY <1>1, <2>3 DEF EInv
  <2> QED
    BY <2>1, <2>2, <2>3
<1> QED
  BY <1>2, <1>3 DEF EInv

\* A command begins: nothing else is at work, and it fits what it has read.
LEMMA Begun ==
  ASSUME EInv, NEW p \in Procs, NEW command, Begins(p, command), log' = log, config' = config,
         made' \in Nat, made <= made', Pending(command, log, made', config.counter)
  PROVE  EInv'
<1>1. pc[p].op = "held" /\ lock' = lock /\ DOMAIN pc = Procs
      /\ pc' = [pc EXCEPT ![p] = command] /\ pc[p].op \notin Entering
  BY DEF Begins, Doing, Goes, EInv, Commanded, Entering
<1>2. lock = p /\ \A q \in Procs : q # p => pc[q].op \in Entering
  BY <1>1, OnlyOne DEF EInv
<1>3. Commanded(pc', lock')
  BY <1>1, <1>2 DEF Commanded
<1>4. \A q \in Procs : Pending(pc'[q], log', made', config'.counter)
  <2> SUFFICES ASSUME NEW q \in Procs PROVE Pending(pc'[q], log', made', config'.counter)
    OBVIOUS
  <2>1. CASE q = p
    BY <1>1, <2>1
  <2>2. CASE q # p
    BY <1>1, <1>2, <2>2, QuietStays DEF EInv
  <2> QED
    BY <2>1, <2>2
<1>5. LogWhole(log, made')
  BY DEF EInv, LogWhole
<1> QED
  BY <1>3, <1>4, <1>5 DEF EInv

\* A command ends.
LEMMA Released ==
  ASSUME EInv, NEW p \in Procs, pc[p].op \notin Entering, Goes(p, Idle),
         made' = made, config' \in Configuration,
         log' \in Seq(Entries), LogWhole(log', made), SlotsOK(log', config'.counter)
  PROVE  EInv'
<1>1. \A q \in Procs : q # p => pc[q].op \in Entering
  BY OnlyOne DEF EInv
<1> QED
  BY <1>1, OpsAre, MovesOn

\* A command goes on to its next step.
LEMMA GoesOn ==
  ASSUME EInv, NEW p \in Procs, pc[p].op \notin Entering, NEW command, pc' = [pc EXCEPT ![p] = command],
         lock' = lock, made' = made, config' \in Configuration,
         log' \in Seq(Entries), LogWhole(log', made), SlotsOK(log', config'.counter),
         Pending(command, log', made, config'.counter)
  PROVE  EInv'
<1>1. lock = p /\ DOMAIN pc = Procs /\ \A q \in Procs : q # p => pc[q].op \in Entering
  BY OnlyOne DEF EInv, Commanded
<1>2. Commanded(pc', lock')
  BY <1>1 DEF EInv, Commanded
<1>3. \A q \in Procs : Pending(pc'[q], log', made, config'.counter)
  <2> SUFFICES ASSUME NEW q \in Procs PROVE Pending(pc'[q], log', made, config'.counter)
    OBVIOUS
  <2>1. CASE q = p
    BY <1>1, <2>1
  <2>2. CASE q # p
    BY <1>1, <2>2, QuietStays DEF EInv
  <2> QED
    BY <2>1, <2>2
<1> QED
  BY <1>2, <1>3 DEF EInv

-----------------------------------------------------------------------------
(* Entering the lock.                                                       *)

LEMMA EnterStep ==
  ASSUME EInv, NEW p \in Procs, Enter(p)
  PROVE  EInv'
<1>1. made' = made /\ config' = config /\ log' = log
  BY DEF Enter
<1>2. made \in Nat /\ config \in Configuration /\ log \in Seq(Entries)
      /\ LogWhole(log, made) /\ SlotsOK(log, config.counter)
  BY DEF EInv
<1>3. CASE lock = None /\ lock' = p /\ Goes(p, Held)
  <2>1. \A q \in Procs : pc[q].op \in Entering
    BY <1>3, NobodyElse, EvaluationAssumption DEF EInv, Procs
  <2> QED
    BY <1>1, <1>2, <1>3, <2>1, OpsAre, MovesOn
<1>4. CASE lock' = lock /\ Goes(p, [op |-> "look", last |-> Doing(p, "retry")])
  <2>1. PICK at : at = [op |-> "look", last |-> Doing(p, "retry")]
    OBVIOUS
  <2>2. at.op \in Entering /\ at.op # "clear"
    BY <2>1 DEF Entering
  <2> QED
    BY <1>1, <1>2, <1>4, <2>1, <2>2, MovesOn
<1> QED
  BY <1>3, <1>4 DEF Enter

\* Where a look at the lock file, or its removal, leads.
LEMMA AgainOps == \A last : Again(last) = Idle \/ Again(last).op = "retry"
  BY DEF Again

LEMMA LookStep ==
  ASSUME EInv, NEW p \in Procs, Look(p)
  PROVE  EInv'
<1>1. made' = made /\ config' = config /\ log' = log /\ lock' = lock
  BY DEF Look
<1>2. made \in Nat /\ config \in Configuration /\ log \in Seq(Entries)
      /\ LogWhole(log, made) /\ SlotsOK(log, config.counter)
  BY DEF EInv
<1>3. PICK at : /\ Goes(p, at)
                /\ \/ at = Again(pc[p].last)
                   \/ at = [op |-> "clear", last |-> pc[p].last, seen |-> lock] /\ lock = Stale
                   \/ at = Idle
  BY DEF Look
<1>4. at.op \in Entering /\ (at.op = "clear" => at.seen = Stale)
  BY <1>3, AgainOps, OpsAre DEF Entering
<1>5. Goes(p, at)
  BY <1>3
<1>6. at.op \in Entering \cup {"held"}
  BY <1>4
<1> QED
  BY <1>1, <1>2, <1>4, <1>5, <1>6, MovesOn

\* Clearing away a file either leaves nobody at work or overtakes.
LEMMA ClearStep ==
  ASSUME EInv, NEW p \in Procs, Clear(p), ~overtaken'
  PROVE  EInv'
<1>1. made' = made /\ config' = config /\ log' = log /\ lock' = None /\ Goes(p, Again(pc[p].last)) /\ lock \notin Procs
  BY DEF Clear, Doing, EInv, Pending
<1>2. made \in Nat /\ config \in Configuration /\ log \in Seq(Entries)
      /\ LogWhole(log, made) /\ SlotsOK(log, config.counter)
  BY DEF EInv
<1>3. PICK at : at = Again(pc[p].last)
  OBVIOUS
<1>4. at.op \in Entering /\ at.op # "clear"
  BY <1>3, AgainOps, OpsAre DEF Entering
<1>5. \A q \in Procs : pc[q].op \in Entering
  BY <1>1, NobodyElse DEF EInv
<1> QED
  BY <1>1, <1>2, <1>3, <1>4, <1>5, MovesOn

-----------------------------------------------------------------------------
(* The log.                                                                 *)

\* What an append keeps, and what it adds.
LEMMA Appended ==
  ASSUME NEW l \in Seq(Entries), NEW entry \in Entries, NEW m, m = Append(l, entry)
  PROVE  /\ m \in Seq(Entries) /\ Len(l) \in Nat /\ Len(m) = Len(l) + 1
         /\ \A i \in 1 .. Len(l) : i \in 1 .. Len(m) /\ m[i] = l[i] /\ i < Len(m)
         /\ Len(m) \in 1 .. Len(m) /\ m[Len(m)] = entry
         /\ \A i \in 1 .. Len(m) : i \in 1 .. Len(l) \/ i = Len(m)
  OBVIOUS

LEMMA FollowsStays ==
  ASSUME NEW l \in Seq(Entries), NEW entry \in Entries, NEW m, m = Append(l, entry),
         NEW i \in 1 .. Len(l), FollowsStart(l, i)
  PROVE  FollowsStart(m, i)
<1>1. PICK k \in 1 .. Len(l) : EntryAt(l, "start", k, l[i].task) /\ l[k].mode # "off"
  BY DEF FollowsStart
<1>2. k \in 1 .. Len(m) /\ m[k] = l[k] /\ m[i] = l[i] /\ EntryAt(m, "start", k, m[i].task)
  BY <1>1, Appended DEF EntryAt
<1> QED
  BY <1>1, <1>2 DEF FollowsStart

\* A loop that was closed stays closed: no recall of its task comes after it.
LEMMA ClosedStays ==
  ASSUME NEW l \in Seq(Entries), NEW entry \in Entries, NEW m, m = Append(l, entry),
         NEW i \in 1 .. Len(l), ClosesLoop(l, i), entry.event = "recall" => entry.task # l[i].task
  PROVE  ClosesLoop(m, i)
<1>1. PICK k \in 1 .. Len(l) :
        /\ k < i /\ EntryAt(l, "start", k, l[i].task) /\ (l[i].learned => l[k].mode = "full")
        /\ l[k].mode = "off" \/ \E j \in 1 .. Len(l) : EntryAt(l, "recall", j, l[i].task)
  BY DEF ClosesLoop
<1>2. k \in 1 .. Len(m) /\ m[k] = l[k] /\ m[i] = l[i] /\ EntryAt(m, "start", k, m[i].task)
  BY <1>1, Appended DEF EntryAt
<1>3. m[k].mode = "off" \/ \E j \in 1 .. Len(m) : EntryAt(m, "recall", j, m[i].task)
  BY <1>1, <1>2, Appended DEF EntryAt
<1>4. \A j \in 1 .. Len(m) : EntryAt(m, "recall", j, m[i].task) => j < i
  BY <1>2, Appended DEF ClosesLoop, EntryAt
<1> QED
  BY <1>1, <1>2, <1>3, <1>4 DEF ClosesLoop

\* An entry whose task has none of its kind yet, and that has what it follows.
LEMMA WholeStays ==
  ASSUME NEW l \in Seq(Entries), NEW entry \in Entries, NEW m, m = Append(l, entry), NEW count,
         LogWhole(l, count), entry.task \in 1 .. count,
         \A i \in 1 .. Len(l) : l[i].task = entry.task => l[i].event # entry.event,
         entry.event = "recall" =>
           FollowsStart(m, Len(m)) /\ \A i \in 1 .. Len(l) : l[i].task = entry.task => l[i].event # "finish",
         entry.event = "finish" => ClosesLoop(m, Len(m))
  PROVE  LogWhole(m, count)
<1>1. \A i \in 1 .. Len(m) : m[i].task \in 1 .. count
  BY Appended DEF LogWhole
<1>2. \A i, j \in 1 .. Len(m) : m[i].event = m[j].event /\ m[i].task = m[j].task => i = j
  BY Appended DEF LogWhole
<1>3. ASSUME NEW i \in 1 .. Len(m), m[i].event = "recall" PROVE FollowsStart(m, i)
  <2>1. CASE i = Len(m)
    BY <1>3, <2>1, Appended
  <2>2. CASE i \in 1 .. Len(l)
    <3>1. FollowsStart(l, i)
      BY <1>3, <2>2, Appended DEF LogWhole
    <3> QED
      BY <2>2, <3>1, FollowsStays
  <2> QED
    BY <2>1, <2>2, Appended
<1>4. ASSUME NEW i \in 1 .. Len(m), m[i].event = "finish" PROVE ClosesLoop(m, i)
  <2>1. CASE i = Len(m)
    BY <1>4, <2>1, Appended
  <2>2. CASE i \in 1 .. Len(l)
    <3>1. l[i].event = "finish" /\ ClosesLoop(l, i)
      BY <1>4, <2>2, Appended DEF LogWhole
    <3>2. entry.event = "recall" => entry.task # l[i].task
      BY <2>2, <3>1
    <3> QED
      BY <2>2, <3>1, <3>2, ClosedStays
  <2> QED
    BY <2>1, <2>2, Appended
<1> QED
  BY <1>1, <1>2, <1>3, <1>4 DEF LogWhole

\* A recall or a finish assigns no slot.
LEMMA SlotsStay ==
  ASSUME NEW l \in Seq(Entries), NEW entry \in Entries, NEW m, m = Append(l, entry), NEW counter,
         SlotsOK(l, counter),
         entry.event = "start" /\ entry.slot # None =>
           entry.slot < counter /\ \A i \in 1 .. Len(l) : l[i].event = "start" => l[i].slot # entry.slot
  PROVE  SlotsOK(m, counter)
<1>1. \A i \in 1 .. Len(m) : m[i].event = "start" /\ m[i].slot # None => m[i].slot < counter
  BY Appended DEF SlotsOK
<1>2. \A i, j \in 1 .. Len(m) :
        m[i].event = "start" /\ m[j].event = "start" /\ m[i].slot = m[j].slot /\ m[i].slot # None => i = j
  BY Appended DEF SlotsOK
<1> QED
  BY <1>1, <1>2 DEF SlotsOK

-----------------------------------------------------------------------------
(* The commands.                                                            *)

LEMMA LogDomain == ASSUME EInv PROVE DOMAIN log = 1 .. Len(log) /\ Len(log) \in Nat
  BY DEF EInv

LEMMA EventsAre ==
  ASSUME EInv, NEW kind, NEW t
  PROVE  /\ Events(kind, t) = {i \in 1 .. Len(log) : EntryAt(log, kind, i, t)}
         /\ \A i, j \in Events(kind, t) : i = j
         /\ \A i \in Events(kind, t) : Events(kind, t) = {i}
<1>1. Events(kind, t) = {i \in 1 .. Len(log) : EntryAt(log, kind, i, t)}
  BY LogDomain DEF Events, EntryAt
<1>2. \A i, j \in Events(kind, t) : i = j
  BY <1>1 DEF EInv, LogWhole, EntryAt
<1> QED
  BY <1>1, <1>2

\* The mode of a task is that of its start.
LEMMA ModeIsStarts ==
  ASSUME EInv, NEW t, NEW k \in 1 .. Len(log), EntryAt(log, "start", k, t)
  PROVE  Events("start", t) = {k} /\ ModeOf(t) = log[k].mode /\ log[k].mode \in Modes
<1>1. Events("start", t) = {k}
  BY EventsAre
<1>2. log[k] \in Entries /\ log[k].event = "start"
  BY DEF EInv, EntryAt
<1> QED
  BY <1>1, <1>2 DEF ModeOf, Entries

LEMMA NextModes ==
  ASSUME EInv, NEW override \in Overrides
  PROVE  NextMode(override) \in Modes
<1>1. config.counter \in Nat /\ config.mode \in Modes
  BY DEF EInv, Configuration
<1>2. config.counter % 3 \in 0 .. 2
  BY <1>1
<1>3. Len(Sequence) = 3 /\ \A i \in 1 .. 3 : Sequence[i] \in Modes
  BY DEF Sequence, Modes
<1> QED
  BY <1>1, <1>2, <1>3, EvaluationAssumption DEF NextMode, Modes

LEMMA ConfigureStep ==
  ASSUME EInv, NEW p \in Procs, NEW change \in Configs, Configure(p, change)
  PROVE  EInv'
<1> DEFINE command == [op |-> "configure", new |-> Configured(change)]
<1>1. Configured(change) \in Configuration /\ Configured(change).counter = config.counter
  BY EvaluationAssumption DEF Configured, EInv, Configuration, Modes
<1>2. Pending(command, log, made, config.counter)
  BY <1>1 DEF Pending
<1>3. Begins(p, command) /\ log' = log /\ made' = made /\ config' = config
  BY DEF Configure
<1>4. made \in Nat
  BY DEF EInv
<1> HIDE DEF command
<1> QED
  BY <1>2, <1>3, <1>4, Begun

LEMMA StartStep ==
  ASSUME EInv, NEW p \in Procs, NEW override \in Overrides, StartTask(p, override)
  PROVE  EInv'
<1>1. log' = log /\ made' = made + 1 /\ config' = config
  BY DEF StartTask
<1>2. made \in Nat /\ config \in Configuration /\ config.counter \in Nat
  BY DEF EInv, Configuration
<1>3. \A i \in 1 .. Len(log) : log[i].task # made + 1
  BY <1>2 DEF EInv, LogWhole
<1>4. NextMode(override) \in Modes /\ made + 1 \in 1 .. made + 1
  BY <1>2, NextModes
<1>5. CASE Slot(override) = None
  <2> DEFINE command == [op |-> "start", task |-> made + 1, mode |-> NextMode(override), slot |-> None]
  <2>1. Begins(p, command)
    BY <1>5 DEF StartTask
  <2>2. FitsStart(log, made + 1, None, config.counter)
    BY <1>3 DEF FitsStart
  <2>3. Pending(command, log, made + 1, config.counter)
    BY <1>4, <2>2 DEF Pending
  <2> HIDE DEF command
  <2> QED
    BY <1>1, <1>2, <2>1, <2>3, Begun
<1>6. CASE Slot(override) # None
  <2> DEFINE new == [config EXCEPT !.counter = @ + 1]
             command == [op |-> "assign", task |-> made + 1, mode |-> NextMode(override), slot |-> config.counter,
                         new |-> new]
  <2>1. Slot(override) = config.counter
    BY <1>6 DEF Slot
  <2>2. Begins(p, command)
    BY <1>6, <2>1 DEF StartTask
  <2>3. new \in Configuration /\ new.counter = config.counter + 1
    BY <1>2 DEF Configuration
  <2> HIDE DEF new
  <2>4. Pending(command, log, made + 1, config.counter)
    BY <1>2, <1>3, <1>4, <2>3 DEF Pending
  <2> HIDE DEF command
  <2> QED
    BY <1>1, <1>2, <2>2, <2>4, Begun
<1> QED
  BY <1>5, <1>6

LEMMA RecallStep ==
  ASSUME EInv, NEW p \in Procs, NEW t \in Tasks, RecordRecall(p, t)
  PROVE  EInv'
<1> DEFINE entry == [event |-> "recall", task |-> t]
           command == [op |-> "log", entry |-> entry]
<1>1. Begins(p, command) /\ log' = log /\ made' = made /\ config' = config /\ Recallable(t)
  BY DEF RecordRecall
<1>2. made \in Nat /\ config \in Configuration /\ config.counter \in Nat
  BY DEF EInv, Configuration
<1>3. PICK k \in 1 .. Len(log) : EntryAt(log, "start", k, t)
  BY <1>1, EventsAre DEF Recallable
<1>4. log[k].mode # "off"
  BY <1>1, <1>3, ModeIsStarts DEF Recallable
<1>5. entry \in Entries /\ t \in 1 .. made
  BY <1>2, <1>3, EvaluationAssumption DEF Entries, Tasks, EInv, LogWhole, EntryAt
<1>6. \A i \in 1 .. Len(log) : log[i].task = t => log[i].event = "start"
  <2> SUFFICES ASSUME NEW i \in 1 .. Len(log), log[i].task = t PROVE log[i].event = "start"
    OBVIOUS
  <2>1. log[i] \in Entries
    BY DEF EInv
  <2>2. log[i].event \in {"start", "recall", "finish"}
    BY <2>1 DEF Entries
  <2>3. log[i].event # "recall" /\ log[i].event # "finish"
    BY <1>1, EventsAre DEF Recallable, Finished, EntryAt
  <2> QED
    BY <2>2, <2>3
<1>7. FitsRecall(log, entry)
  BY <1>3, <1>4, <1>6 DEF FitsRecall
<1>8. Pending(command, log, made, config.counter)
  <2> HIDE DEF entry
  <2>1. entry.task = t /\ entry.event = "recall"
    BY DEF entry
  <2> QED
    BY <1>5, <1>7, <2>1 DEF Pending
<1> HIDE DEF command
<1> QED
  BY <1>1, <1>2, <1>8, Begun

LEMMA FinishStep ==
  ASSUME EInv, NEW p \in Procs, NEW t \in Tasks, NEW learned \in BOOLEAN, NEW skip \in Skips,
         FinishTask(p, t, learned, skip)
  PROVE  EInv'
<1> DEFINE entry == [event |-> "finish", task |-> t, learned |-> learned]
           command == [op |-> "finish", entry |-> entry]
<1>1. Begins(p, command) /\ log' = log /\ made' = made /\ config' = config
      /\ Events("start", t) # {} /\ ~Finished(t) /\ LoopStatus(t, learned, skip)
  BY DEF FinishTask
<1>2. made \in Nat /\ config \in Configuration /\ config.counter \in Nat
  BY DEF EInv, Configuration
<1>3. PICK k \in 1 .. Len(log) : EntryAt(log, "start", k, t)
  BY <1>1, EventsAre
<1>4. ModeOf(t) = log[k].mode /\ log[k].mode \in Modes
  BY <1>3, ModeIsStarts
<1>5. entry \in Entries /\ t \in 1 .. made
  BY <1>2, <1>3, EvaluationAssumption DEF Entries, Tasks, EInv, LogWhole, EntryAt
<1>6. \A i \in 1 .. Len(log) : log[i].task = t => log[i].event # "finish"
  BY <1>1, EventsAre DEF Finished, EntryAt
<1>7. learned => log[k].mode = "full"
  BY <1>1, <1>4 DEF LoopStatus, Modes
<1>8. log[k].mode = "off" \/ \E j \in 1 .. Len(log) : EntryAt(log, "recall", j, t)
  <2> SUFFICES ASSUME log[k].mode # "off" PROVE \E j \in 1 .. Len(log) : EntryAt(log, "recall", j, t)
    OBVIOUS
  <2>1. Cardinality(Events("recall", t)) = 1
    BY <1>1, <1>4 DEF LoopStatus
  <2>2. ASSUME Events("recall", t) = {} PROVE FALSE
    <3>1. Cardinality({}) = 1
      BY <2>1, <2>2
    <3> QED
      BY <3>1, FS_EmptySet
  <2> QED
    BY <2>2, EventsAre
<1>9. FitsFinish(log, entry)
  BY <1>3, <1>6, <1>7, <1>8 DEF FitsFinish
<1>10. Pending(command, log, made, config.counter)
  <2> HIDE DEF entry
  <2>1. entry.task = t /\ entry.event = "finish"
    BY DEF entry
  <2> QED
    BY <1>5, <1>9, <2>1 DEF Pending
<1> HIDE DEF command
<1> QED
  BY <1>1, <1>2, <1>10, Begun

LEMMA CommandBegins ==
  ASSUME EInv, NEW p \in Procs, Command(p)
  PROVE  EInv'
  BY EnterStep, ConfigureStep, StartStep, RecallStep, FinishStep DEF Command

LEMMA Busy ==
  ASSUME EInv, NEW p \in Procs
  PROVE  /\ Pending(pc[p], log, made, config.counter) /\ DOMAIN pc = Procs
         /\ made \in Nat /\ config \in Configuration /\ config.counter \in Nat
         /\ log \in Seq(Entries) /\ LogWhole(log, made) /\ SlotsOK(log, config.counter)
  BY DEF EInv, Commanded, Configuration

\* The counter may grow.
LEMMA SlotsBelow ==
  ASSUME EInv
  PROVE  SlotsOK(log, config.counter + 1) /\ \A i \in 1 .. Len(log) : log[i].event = "start" => log[i].slot # config.counter
<1> SUFFICES ASSUME NEW i \in 1 .. Len(log), log[i].event = "start", log[i].slot # None
             PROVE  log[i].slot < config.counter + 1 /\ log[i].slot # config.counter
  BY EvaluationAssumption, Busy DEF SlotsOK, EInv, Configuration
<1>1. log[i].slot < config.counter /\ config.counter \in Nat /\ log[i] \in Entries
  BY DEF EInv, SlotsOK, Configuration
<1>2. log[i].slot \in Nat
  BY <1>1 DEF Entries
<1> QED
  BY <1>1, <1>2

LEMMA SaveConfigStep ==
  ASSUME EInv, NEW p \in Procs, SaveConfig(p)
  PROVE  EInv'
<1>1. made' = made /\ log' = log /\ config' = pc[p].new
  BY DEF SaveConfig
<1>2. CASE pc[p].op = "configure"
  <2>1. pc[p].op \notin Entering /\ pc[p].new \in Configuration /\ pc[p].new.counter = config.counter
    BY <1>2, Busy DEF Pending, Entering
  <2>2. Goes(p, Idle)
    BY <1>2 DEF SaveConfig, Release, Doing
  <2> QED
    BY <1>1, <2>1, <2>2, Busy, Released
<1>3. CASE pc[p].op = "assign"
  <2> DEFINE command == [op |-> "start", task |-> pc[p].task, mode |-> pc[p].mode, slot |-> pc[p].slot]
  <2>1. /\ pc[p] \in [op : {"assign"}, task : 1 .. made, mode : Modes, slot : Nat, new : Configuration]
        /\ pc[p].slot = config.counter /\ pc[p].new.counter = config.counter + 1
        /\ \A i \in 1 .. Len(log) : log[i].task # pc[p].task
    BY <1>3, Busy DEF Pending
  <2>2. lock' = lock /\ pc' = [pc EXCEPT ![p] = command] /\ pc[p].op \notin Entering
    BY <1>3 DEF SaveConfig, Doing, Goes, Entering
  <2>3. FitsStart(log, pc[p].task, pc[p].slot, config.counter + 1)
    BY <2>1, SlotsBelow, Busy DEF FitsStart
  <2>4. Pending(command, log, made, config.counter + 1)
    BY <2>1, <2>3 DEF Pending
  <2>5. config' \in Configuration /\ config'.counter = config.counter + 1
    BY <1>1, <2>1
  <2> HIDE DEF command
  <2> QED
    BY <1>1, <2>2, <2>4, <2>5, Busy, SlotsBelow, GoesOn
<1> QED
  BY <1>2, <1>3 DEF SaveConfig

LEMMA WriteSessionStep ==
  ASSUME EInv, NEW p \in Procs, WriteSession(p)
  PROVE  EInv'
<1> DEFINE command == [pc[p] EXCEPT !.op = "append"]
<1>1. pc[p].op \notin Entering /\ FitsStart(log, pc[p].task, pc[p].slot, config.counter)
      /\ pc[p] \in [op : {"start", "append"}, task : 1 .. made, mode : Modes, slot : Nat \cup {None}]
  BY Busy DEF WriteSession, Doing, Pending, Entering
<1>2. command \in [op : {"start", "append"}, task : 1 .. made, mode : Modes, slot : Nat \cup {None}]
      /\ command.task = pc[p].task /\ command.slot = pc[p].slot /\ command.op = "append"
  BY <1>1
<1>3. pc' = [pc EXCEPT ![p] = command] /\ lock' = lock /\ made' = made /\ log' = log /\ config' = config
  BY DEF WriteSession
<1>4. Pending(command, log, made, config.counter)
  <2> HIDE DEF command
  <2> QED
    BY <1>1, <1>2 DEF Pending
<1> HIDE DEF command
<1> QED
  BY <1>1, <1>3, <1>4, GoesOn, Busy

\* The start of a task, appended by AppendStart or by a write that raises late.
LEMMA StartFits ==
  ASSUME EInv, NEW p \in Procs, Doing(p, "append")
  PROVE  LET m == Append(log, StartEvent(p)) IN m \in Seq(Entries) /\ LogWhole(m, made) /\ SlotsOK(m, config.counter)
<1> DEFINE entry == StartEvent(p)
           m == Append(log, entry)
<1>1. FitsStart(log, pc[p].task, pc[p].slot, config.counter)
      /\ pc[p] \in [op : {"start", "append"}, task : 1 .. made, mode : Modes, slot : Nat \cup {None}]
  BY Busy DEF Doing, Pending
<1>2. entry \in Entries /\ entry.event = "start" /\ entry.task = pc[p].task /\ entry.slot = pc[p].slot
      /\ entry.task \in 1 .. made
  BY <1>1 DEF Entries, EInv, StartEvent
<1> HIDE DEF entry
<1>3. \A i \in 1 .. Len(log) : log[i].task = entry.task => log[i].event # entry.event
  BY <1>1, <1>2 DEF FitsStart
<1>4. entry.slot # None =>
        entry.slot < config.counter /\ \A i \in 1 .. Len(log) : log[i].event = "start" => log[i].slot # entry.slot
  BY <1>1, <1>2 DEF FitsStart
<1>5. log \in Seq(Entries) /\ LogWhole(log, made) /\ SlotsOK(log, config.counter)
  BY DEF EInv
<1>6. LogWhole(m, made)
  BY <1>2, <1>3, <1>5, WholeStays
<1>7. SlotsOK(m, config.counter)
  BY <1>2, <1>4, <1>5, SlotsStay
<1>8. m \in Seq(Entries)
  BY <1>2, <1>5
<1> QED
  BY <1>6, <1>7, <1>8 DEF m, entry

LEMMA AppendStartStep ==
  ASSUME EInv, NEW p \in Procs, AppendStart(p)
  PROVE  EInv'
<1>1. Doing(p, "append") /\ pc[p].op \notin Entering /\ Goes(p, Idle) /\ made' = made /\ config' = config
      /\ log' = Append(log, StartEvent(p))
  BY DEF AppendStart, Release, Doing, Entering
<1> QED
  BY <1>1, StartFits, Released, Busy

\* The end of a command that leaves configuration and log alone.
LEMMA EndStep ==
  ASSUME EInv, NEW p \in Procs, Refuse(p) \/ UnlinkFinished(p)
  PROVE  EInv'
<1>1. pc[p].op \notin Entering /\ Goes(p, Idle) /\ made' = made /\ log' = log /\ config' = config
  BY DEF Refuse, UnlinkFinished, Release, Doing, Entering
<1> QED
  BY <1>1, Released, Busy

\* A process that dies, in a command or outside.
LEMMA Died ==
  ASSUME EInv, NEW p \in Procs, Dies(p), made' = made, log' = log, config' = config
  PROVE  EInv'
<1>1. \A q \in Procs : q # p /\ pc[q].op \notin Entering => lock' = lock
  BY DEF Dies, EInv, Commanded
<1> QED
  BY <1>1, OpsAre, MovesOn, Busy DEF Dies

LEMMA CrashStep ==
  ASSUME EInv, NEW p \in Procs, CrashCommand(p)
  PROVE  EInv'
  BY Died DEF CrashCommand

\* A recall that fits its task leaves a log that is whole.
LEMMA RecallFits ==
  ASSUME EInv, NEW entry \in Entries, entry.event = "recall", entry.task \in 1 .. made, FitsRecall(log, entry)
  PROVE  LogWhole(Append(log, entry), made)
<1> DEFINE m == Append(log, entry)
<1>1. log \in Seq(Entries) /\ LogWhole(log, made)
  BY DEF EInv
<1>2. PICK k \in 1 .. Len(log) : EntryAt(log, "start", k, entry.task) /\ log[k].mode # "off"
  BY DEF FitsRecall
<1>3. k \in 1 .. Len(m) /\ m[k] = log[k] /\ m[Len(m)] = entry
  BY <1>1, <1>2, Appended
<1>4. FollowsStart(m, Len(m))
  <2> HIDE DEF m
  <2> QED
    BY <1>2, <1>3 DEF FollowsStart, EntryAt
<1>5. \A i \in 1 .. Len(log) : log[i].task = entry.task => log[i].event # "finish" /\ log[i].event # "recall"
  BY DEF FitsRecall
<1> HIDE DEF m
<1>6. LogWhole(m, made)
  BY <1>1, <1>4, <1>5, WholeStays DEF m
<1> QED
  BY <1>6 DEF m

\* A finish that fits its task closes its loop.
LEMMA FinishFits ==
  ASSUME EInv, NEW entry \in Entries, entry.event = "finish", entry.task \in 1 .. made, FitsFinish(log, entry)
  PROVE  LogWhole(Append(log, entry), made)
<1> DEFINE m == Append(log, entry)
<1>1. log \in Seq(Entries) /\ LogWhole(log, made)
  BY DEF EInv
<1>2. PICK k \in 1 .. Len(log) :
        /\ EntryAt(log, "start", k, entry.task) /\ (entry.learned => log[k].mode = "full")
        /\ log[k].mode = "off" \/ \E j \in 1 .. Len(log) : EntryAt(log, "recall", j, entry.task)
  BY DEF FitsFinish
<1>3. k \in 1 .. Len(m) /\ m[k] = log[k] /\ k < Len(m) /\ m[Len(m)] = entry /\ Len(m) \in 1 .. Len(m)
  BY <1>1, <1>2, Appended
<1>4. \A j \in 1 .. Len(log) : j \in 1 .. Len(m) /\ m[j] = log[j] /\ j < Len(m)
  BY <1>1, Appended
<1>5. \A j \in 1 .. Len(m) : j \in 1 .. Len(log) \/ j = Len(m)
  BY <1>1, Appended
<1> HIDE DEF m
<1>6. ClosesLoop(m, Len(m))
  <2>1. m[k].mode = "off" \/ \E j \in 1 .. Len(m) : EntryAt(m, "recall", j, entry.task)
    BY <1>2, <1>3, <1>4 DEF EntryAt
  <2>2. EntryAt(m, "start", k, entry.task) /\ (entry.learned => m[k].mode = "full")
    BY <1>2, <1>3 DEF EntryAt
  <2>3. \A j \in 1 .. Len(m) : EntryAt(m, "recall", j, entry.task) => j < Len(m)
    BY <1>3, <1>4, <1>5 DEF EntryAt
  <2> QED
    BY <1>3, <2>1, <2>2, <2>3 DEF ClosesLoop
<1>7. \A i \in 1 .. Len(log) : log[i].task = entry.task => log[i].event # "finish"
  BY DEF FitsFinish
<1>8. LogWhole(m, made)
  BY <1>1, <1>6, <1>7, WholeStays DEF m
<1> QED
  BY <1>8 DEF m

\* A recall or a finish, appended by AppendEvent or by a write that raises late.
LEMMA EventFits ==
  ASSUME EInv, NEW p \in Procs, pc[p].op \in {"log", "finish"}
  PROVE  LET m == Append(log, pc[p].entry) IN m \in Seq(Entries) /\ LogWhole(m, made) /\ SlotsOK(m, config.counter)
<1>1. /\ pc[p] \in [op : {"log", "finish"}, entry : Entries]
      /\ pc[p].entry \in Entries /\ pc[p].entry.task \in 1 .. made
      /\ pc[p].entry.event = IF pc[p].op = "log" THEN "recall" ELSE "finish"
      /\ pc[p].op = "log" => FitsRecall(log, pc[p].entry)
      /\ pc[p].op = "finish" => FitsFinish(log, pc[p].entry)
  BY Busy DEF Pending
<1>2. LogWhole(Append(log, pc[p].entry), made)
  BY <1>1, RecallFits, FinishFits
<1>3. SlotsOK(Append(log, pc[p].entry), config.counter)
  <2>1. pc[p].entry.event # "start"
    BY <1>1
  <2>2. log \in Seq(Entries) /\ SlotsOK(log, config.counter)
    BY DEF EInv
  <2> QED
    BY <1>1, <2>1, <2>2, SlotsStay
<1> QED
  BY <1>1, <1>2, <1>3, Busy

LEMMA AppendEventStep ==
  ASSUME EInv, NEW p \in Procs, AppendEvent(p)
  PROVE  EInv'
<1>1. /\ pc[p].op \in {"log", "finish"} /\ pc[p].op \notin Entering
      /\ log' = Append(log, pc[p].entry) /\ config' = config /\ made' = made
  BY DEF AppendEvent, Entering
<1>2. log' \in Seq(Entries) /\ LogWhole(log', made) /\ SlotsOK(log', config.counter)
  BY <1>1, EventFits
<1>3. CASE pc[p].op = "log"
  <2>1. Goes(p, Idle)
    BY <1>3 DEF AppendEvent, Doing, Release
  <2> QED
    BY <1>1, <1>2, <2>1, Released, Busy
<1>4. CASE pc[p].op = "finish"
  <2> DEFINE command == [pc[p] EXCEPT !.op = "unlink"]
  <2>1. pc' = [pc EXCEPT ![p] = command] /\ lock' = lock
    BY <1>4 DEF AppendEvent, Doing
  <2>2. command.op = "unlink"
    BY <1>4, Busy DEF Pending
  <2> HIDE DEF command
  <2>3. Pending(command, log', made, config.counter)
    BY <2>2 DEF Pending
  <2> QED
    BY <1>1, <1>2, <2>1, <2>3, GoesOn, Busy
<1> QED
  BY <1>1, <1>3, <1>4

LEMMA WriteFailsStep ==
  ASSUME EInv, NEW p \in Procs, WriteFails(p)
  PROVE  EInv'
<1>1. pc[p].op \notin Entering /\ Goes(p, Idle) /\ config' = config /\ made' = made
  BY DEF WriteFails, Release
<1>2. log' \in Seq(Entries) /\ LogWhole(log', made) /\ SlotsOK(log', config.counter)
  BY StartFits, EventFits, Busy DEF WriteFails
<1> QED
  BY <1>1, <1>2, Released, Busy

LEMMA CommandGoesOn ==
  ASSUME EInv, NEW p \in Procs, CommandStep(p), ~overtaken'
  PROVE  EInv'
  BY EnterStep, LookStep, ClearStep, EndStep, SaveConfigStep, WriteSessionStep, AppendStartStep, AppendEventStep,
     WriteFailsStep, CrashStep
  DEF CommandStep

-----------------------------------------------------------------------------
(* The hooks.                                                               *)

\* Whatever leaves the log's variables alone keeps its invariant.
LEMMA EvalStutters == ASSUME EInv, UNCHANGED <<config, log, lock, pc, made>> PROVE EInv'
<1>1. config' = config /\ log' = log /\ lock' = lock /\ pc' = pc /\ made' = made
  OBVIOUS
<1> QED
  BY <1>1 DEF EInv

LEMMA SessionCrashes ==
  ASSUME EInv, NEW s \in Sessions, CrashSession(s)
  PROVE  EInv'
  BY Died DEF CrashSession, Procs

LEMMA OneMore ==
  ASSUME memories \in Seq(Sessions), NEW s \in Sessions, memories' = Append(memories, s)
  PROVE  /\ memories' \in Seq(Sessions) /\ DOMAIN memories' = 1 .. Len(memories) + 1
         /\ memories'[Len(memories) + 1] = s
         /\ \A i \in 1 .. Len(memories) : memories'[i] = memories[i]
<1>1. memories' \in Seq(Sessions)
  OBVIOUS
<1>2. Len(memories') = Len(memories) + 1 /\ DOMAIN memories' = 1 .. Len(memories')
  BY <1>1
<1>3. memories'[Len(memories) + 1] = s
  OBVIOUS
<1>4. \A i \in 1 .. Len(memories) : memories'[i] = memories[i]
  OBVIOUS
<1> QED
  BY <1>1, <1>2, <1>3, <1>4

LEMMA SummaryAdded ==
  ASSUME HInv, NEW s \in Sessions, memories' = memories \/ AddLoopSummary(s)
  PROVE  memories' \in Seq(Sessions) /\ OneSummary'
<1>1. memories \in Seq(Sessions) /\ DOMAIN memories = 1 .. Len(memories) /\ Len(memories) \in Nat /\ OneSummary
  BY DEF HInv
<1>2. CASE memories' = memories
  BY <1>1, <1>2 DEF OneSummary
<1>3. CASE memories' = Append(memories, s) /\ \A i \in DOMAIN memories : memories[i] # s
  <2>1. memories' \in Seq(Sessions) /\ DOMAIN memories' = 1 .. Len(memories) + 1
        /\ memories'[Len(memories) + 1] = s /\ \A i \in 1 .. Len(memories) : memories'[i] = memories[i]
    <3>1. memories \in Seq(Sessions) /\ memories' = Append(memories, s)
      BY <1>1, <1>3
    <3> QED
      BY <3>1, OneMore
  <2>2. \A i \in 1 .. Len(memories) : memories[i] # s
    BY <1>1, <1>3
  <2>3. \A i, j \in 1 .. Len(memories) + 1 : memories'[i] = memories'[j] => i = j
    <3> SUFFICES ASSUME NEW i \in 1 .. Len(memories) + 1, NEW j \in 1 .. Len(memories) + 1,
                        memories'[i] = memories'[j]
                 PROVE  i = j
      OBVIOUS
    <3>1. /\ i \in 1 .. Len(memories) \/ i = Len(memories) + 1
          /\ j \in 1 .. Len(memories) \/ j = Len(memories) + 1
      BY <1>1
    <3> QED
      BY <1>1, <2>1, <2>2, <3>1 DEF OneSummary
  <2> QED
    BY <2>1, <2>3 DEF OneSummary
<1> QED
  BY <1>2, <1>3 DEF AddLoopSummary

LEMMA TurnKept ==
  ASSUME HInv, NEW s \in Sessions, NEW at \in Stages, NEW active \in BOOLEAN, NEW blocks \in BOOLEAN,
         \/ turn' = turn \/ To(s, at)
         \/ turn' = [turn EXCEPT ![s] = [at |-> at, active |-> active, blocks |-> blocks]]
  PROVE  turn' \in [Sessions -> [at : Stages, active : BOOLEAN, blocks : BOOLEAN]]
  BY DEF HInv, To

\* The baseline is the repository at the first start: both are set once.
LEMMA StartKeeps ==
  ASSUME HInv, NEW s \in Sessions, SessionStart(s)
  PROVE  HInv'
<1> DEFINE began == [Off EXCEPT !.at = "working"]
<1>1. began \in [at : Stages, active : BOOLEAN, blocks : BOOLEAN]
  BY DEF Off, Stages
<1>2. turn' = [turn EXCEPT ![s] = began] /\ memories' = memories
  BY DEF SessionStart
<1> HIDE DEF began
<1>3. turn' \in [Sessions -> [at : Stages, active : BOOLEAN, blocks : BOOLEAN]]
  BY <1>1, <1>2 DEF HInv
<1>4. baseline' = first' /\ DOMAIN first' = Sessions
  BY DEF SessionStart, Guarded, HInv
<1> QED
  BY <1>2, <1>3, <1>4, SummaryAdded DEF HInv

LEMMA StopKeeps ==
  ASSUME HInv, NEW s \in Sessions, Stop(s)
  PROVE  HInv'
<1>1. memories' = memories /\ baseline' = baseline /\ first' = first
  BY DEF Stop
<1>2. turn' \in [Sessions -> [at : Stages, active : BOOLEAN, blocks : BOOLEAN]]
  <2>1. "source" \in Stages /\ turn \in [Sessions -> [at : Stages, active : BOOLEAN, blocks : BOOLEAN]]
    BY DEF HInv, Stages
  <2>2. \/ turn' = [turn EXCEPT ![s].at = "source"]
        \/ turn' = [turn EXCEPT ![s].at = "source", ![s].active = TRUE, ![s].blocks = FALSE]
    BY DEF Stop
  <2> QED
    BY <2>1, <2>2
<1> QED
  BY <1>1, <1>2, SummaryAdded DEF HInv

LEMMA SourceKeeps ==
  ASSUME HInv, NEW s \in Sessions, SourceStop(s)
  PROVE  HInv'
<1>1. memories' = memories /\ baseline' = baseline /\ first' = first
  BY DEF SourceStop
<1>2. turn' \in [Sessions -> [at : Stages, active : BOOLEAN, blocks : BOOLEAN]]
  <2> DEFINE asks == ~turn[s].active /\ Unsynchronised(s)
  <2>1. "evaluation" \in Stages /\ turn \in [Sessions -> [at : Stages, active : BOOLEAN, blocks : BOOLEAN]]
    BY DEF HInv, Stages
  <2>2. turn' = [turn EXCEPT ![s].at = "evaluation", ![s].blocks = asks] /\ asks \in BOOLEAN
    BY DEF SourceStop
  <2> HIDE DEF asks
  <2> QED
    BY <2>1, <2>2
<1> QED
  BY <1>1, <1>2, SummaryAdded DEF HInv

LEMMA OtherHooksKeep ==
  ASSUME HInv, NEW s \in Sessions, MemoryStop(s) \/ LocalStop(s) \/ RemoveState(s) \/ LocalFails(s) \/ CrashSession(s)
  PROVE  HInv'
<1>1. baseline' = baseline /\ first' = first
  BY DEF MemoryStop, LocalStop, RemoveState, LocalFails, CrashSession
<1>2. memories' = memories \/ AddLoopSummary(s)
  BY DEF MemoryStop, LocalStop, RemoveState, LocalFails, CrashSession
<1>3. \/ \E at \in Stages : To(s, at)
      \/ turn' = [turn EXCEPT ![s] = [at |-> "off", active |-> FALSE, blocks |-> FALSE]]
  <2>1. {"blocked", "local", "stopped", "remove"} \subseteq Stages
    BY DEF Stages
  <2>2. CASE MemoryStop(s)
    BY <2>1, <2>2 DEF MemoryStop
  <2>3. CASE LocalStop(s)
    BY <2>1, <2>3 DEF LocalStop
  <2>4. CASE RemoveState(s) \/ LocalFails(s)
    BY <2>1, <2>4 DEF RemoveState, LocalFails
  <2>5. CASE CrashSession(s)
    BY <2>5 DEF CrashSession, Off
  <2> QED
    BY <2>2, <2>3, <2>4, <2>5
<1>4. turn' \in [Sessions -> [at : Stages, active : BOOLEAN, blocks : BOOLEAN]]
  <2>1. "off" \in Stages
    BY DEF Stages
  <2> QED
    BY <1>3, <2>1, TurnKept
<1> QED
  BY <1>1, <1>2, <1>4, SummaryAdded DEF HInv

LEMMA HooksStutter == ASSUME HInv, UNCHANGED <<baseline, memories, turn, first>> PROVE HInv'
<1>1. baseline' = baseline /\ memories' = memories /\ turn' = turn /\ first' = first
  OBVIOUS
<1> QED
  BY <1>1 DEF HInv, OneSummary

-----------------------------------------------------------------------------
(* The theorems.                                                            *)

LEMMA InitHolds == ASSUME Init PROVE SInv
<1>1. made \in Nat /\ config \in Configuration /\ log = <<>> /\ pc = [p \in Procs |-> Idle]
  BY EvaluationAssumption DEF Init, EvalInit, Configuration, Modes
<1>2. log \in Seq(Entries) /\ LogWhole(log, made) /\ SlotsOK(log, config.counter)
  BY <1>1 DEF LogWhole, SlotsOK
<1>3. Commanded(pc, lock) /\ \A p \in Procs : Pending(pc[p], log, made, config.counter)
  BY <1>1, OpsAre, QuietOps DEF Commanded
<1>4. turn \in [Sessions -> [at : Stages, active : BOOLEAN, blocks : BOOLEAN]]
  BY DEF Init, Off, Stages
<1>5. DOMAIN first = Sessions /\ baseline = first /\ memories \in Seq(Sessions) /\ OneSummary
  BY DEF Init, OneSummary
<1> QED
  BY <1>1, <1>2, <1>3, <1>4, <1>5 DEF SInv, EInv, HInv

\* Nothing undoes that a process was overtaken.
LEMMA OvertakenStays ==
  ASSUME [Next]_vars, ~overtaken'
  PROVE  ~overtaken
<1>1. CASE UNCHANGED evalVars
  BY <1>1 DEF evalVars
<1>2. CASE \E p \in Procs : CommandStep(p) \/ Command(p)
  BY <1>2 DEF CommandStep, Command, Enter, Look, Clear, Refuse, SaveConfig, WriteSession, AppendStart, AppendEvent,
              UnlinkFinished, WriteFails, CrashCommand, Configure, StartTask, RecordRecall, FinishTask, Begins
<1>3. CASE \E s \in Sessions : SessionStart(s) \/ Stop(s) \/ HookStep(s) \/ LocalFails(s) \/ CrashSession(s)
  BY <1>3 DEF SessionStart, Stop, HookStep, SourceStop, MemoryStop, LocalStop, RemoveState, LocalFails, CrashSession, evalVars
<1>4. CASE (\E change \in LoopConfigs : ConfigureLoop(change)) \/ Edit \/ Revert \/ Commit \/ Push \/ Fetch \/ Pull
  BY <1>4 DEF ConfigureLoop, Edit, Revert, Commit, Push, Fetch, Pull, Git, evalVars
<1> QED
  BY <1>1, <1>2, <1>3, <1>4 DEF Next, vars

LEMMA NextHolds == ASSUME SInv, [Next]_vars PROVE SInv'
<1>1. ASSUME ~overtaken' PROVE EInv'
  <2> USE <1>1
  <2>0. EInv
    BY OvertakenStays DEF SInv
  <2>1. CASE UNCHANGED evalVars
    BY <2>0, <2>1, EvalStutters DEF evalVars
  <2>2. CASE \E p \in Procs : CommandStep(p) \/ Command(p)
    BY <2>0, <2>2, CommandBegins, CommandGoesOn
  <2>3. CASE \E s \in Sessions : CrashSession(s)
    BY <2>0, <2>3, SessionCrashes
  <2>4. CASE \E s \in Sessions : MemoryStop(s) \/ LocalFails(s)
    <3>1. UNCHANGED <<config, log, lock, pc, made>>
      BY <2>4 DEF MemoryStop, LocalFails
    <3> QED
      BY <2>0, <3>1, EvalStutters
  <2>5. CASE \E s \in Sessions : SessionStart(s) \/ Stop(s) \/ SourceStop(s) \/ LocalStop(s) \/ RemoveState(s)
    <3>1. UNCHANGED evalVars
      BY <2>5 DEF SessionStart, Stop, SourceStop, LocalStop, RemoveState
    <3> QED
      BY <2>1, <3>1
  <2>6. CASE (\E change \in LoopConfigs : ConfigureLoop(change)) \/ Edit \/ Revert \/ Commit \/ Push \/ Fetch \/ Pull
    <3>1. UNCHANGED evalVars
      BY <2>6 DEF ConfigureLoop, Edit, Revert, Commit, Push, Fetch, Pull, Git
    <3> QED
      BY <2>1, <3>1
  <2> QED
    BY <2>1, <2>2, <2>3, <2>4, <2>5, <2>6 DEF Next, HookStep, vars
<1>2. HInv'
  <2>1. CASE UNCHANGED <<baseline, memories, turn, first>>
    BY <2>1, HooksStutter DEF SInv
  <2>2. CASE UNCHANGED hookVars
    BY <2>1, <2>2 DEF hookVars
  <2>3. CASE \E s \in Sessions : SessionStart(s) \/ Stop(s) \/ HookStep(s) \/ LocalFails(s) \/ CrashSession(s)
    BY <2>3, StartKeeps, StopKeeps, SourceKeeps, OtherHooksKeep DEF SInv, HookStep
  <2>4. CASE (\E change \in LoopConfigs : ConfigureLoop(change)) \/ Edit \/ Revert \/ Commit \/ Push \/ Fetch \/ Pull
    <3>1. UNCHANGED <<baseline, memories, turn, first>>
      BY <2>4 DEF ConfigureLoop, Edit, Revert, Commit, Push, Fetch, Pull, Git
    <3> QED
      BY <2>1, <3>1
  <2> QED
    BY <2>2, <2>3, <2>4 DEF Next, vars
<1> QED
  BY <1>1, <1>2 DEF SInv

LEMMA SInvHolds == Spec => []SInv
<1>1. Init => SInv
  BY InitHolds
<1>2. SInv /\ [Next]_vars => SInv'
  BY NextHolds
<1> QED
  BY <1>1, <1>2, PTL DEF Spec

LEMMA LoopsClosed == ASSUME EInv PROVE LoopClosed
<1> SUFFICES ASSUME NEW i \in DOMAIN log, log[i].event = "finish", NEW t, t = log[i].task
             PROVE  /\ Cardinality(Events("start", t)) = 1 /\ Events("finish", t) = {i}
                    /\ Cardinality(Events("recall", t)) = (IF ModeOf(t) = "off" THEN 0 ELSE 1)
                    /\ \A j \in Events("start", t) \cup Events("recall", t) : j < i
                    /\ log[i].learned => ModeOf(t) = "full"
  BY DEF LoopClosed
<1>1. i \in 1 .. Len(log) /\ ClosesLoop(log, i)
  BY LogDomain DEF EInv, LogWhole
<1>2. PICK k \in 1 .. Len(log) :
        /\ k < i /\ EntryAt(log, "start", k, t) /\ (log[i].learned => log[k].mode = "full")
        /\ log[k].mode = "off" \/ \E j \in 1 .. Len(log) : EntryAt(log, "recall", j, t)
  BY <1>1 DEF ClosesLoop
<1>3. Events("start", t) = {k} /\ ModeOf(t) = log[k].mode
  BY <1>2, ModeIsStarts
<1>4. Events("finish", t) = {i}
  BY <1>1, EventsAre DEF EntryAt
<1>5. \A j \in Events("recall", t) : j < i
  BY <1>1, EventsAre DEF ClosesLoop
<1>6. Cardinality(Events("recall", t)) = (IF ModeOf(t) = "off" THEN 0 ELSE 1)
  <2>1. CASE Events("recall", t) = {}
    <3>1. log[k].mode = "off"
      BY <1>2, <2>1, EventsAre
    <3> QED
      BY <1>3, <2>1, <3>1, FS_EmptySet
  <2>2. CASE Events("recall", t) # {}
    <3>1. PICK j \in Events("recall", t) : Events("recall", t) = {j}
      BY <2>2, EventsAre
    <3>2. j \in 1 .. Len(log) /\ EntryAt(log, "recall", j, t)
      BY <3>1, EventsAre
    <3>3. FollowsStart(log, j)
      BY <3>2 DEF EInv, LogWhole, EntryAt
    <3>4. PICK h \in 1 .. Len(log) : EntryAt(log, "start", h, t) /\ log[h].mode # "off"
      BY <3>2, <3>3 DEF FollowsStart, EntryAt
    <3>5. ModeOf(t) # "off"
      BY <3>4, ModeIsStarts
    <3> QED
      BY <3>1, <3>5, FS_Singleton
  <2> QED
    BY <2>1, <2>2
<1>7. Cardinality(Events("start", t)) = 1
  BY <1>3, FS_Singleton
<1> QED
  BY <1>2, <1>3, <1>4, <1>5, <1>6, <1>7

\* In every execution, whatever the number of sessions, tasks, crashes and failed
\* writes, Local holds one summary for a session and, as long as no process at
\* work lost its lock file to one that cleared a dead process's away, a slot of the
\* experiment is given to one task and a finished loop is closed as its mode asks.
THEOREM SessionsAreSound == Spec => []SessionSound
<1>1. SInv => SessionSound
  <2> SUFFICES ASSUME SInv PROVE SessionSound
    OBVIOUS
  <2>1. EInv => AssignedOnce
    BY LogDomain DEF EInv, SlotsOK, AssignedOnce
  <2> QED
    BY <2>1, LoopsClosed DEF SInv, HInv, SessionSound
<1> QED
  BY <1>1, SInvHolds, PTL

\* Only the source guard's Stop goes on from "source".
LEMMA OnlySourceStop ==
  ASSUME HInv, NEW s \in Sessions, Next, At(s, "source"), At(s, "evaluation")'
  PROVE  SourceStop(s)
<1>1. turn \in [Sessions -> [at : Stages, active : BOOLEAN, blocks : BOOLEAN]]
  BY DEF HInv
<1>2. turn[s].at = "source" /\ turn'[s].at = "evaluation"
  BY DEF At
<1>3. ~(turn' = turn)
  BY <1>2
<1>4. \E q \in Sessions : SessionStart(q) \/ Stop(q) \/ HookStep(q) \/ LocalFails(q) \/ CrashSession(q)
  BY <1>3 DEF Next, hookVars, ConfigureLoop, Edit, Revert, Commit, Push, Fetch, Pull, Git
<1>5. PICK q \in Sessions : SessionStart(q) \/ Stop(q) \/ HookStep(q) \/ LocalFails(q) \/ CrashSession(q)
  BY <1>4
<1>6. ~SessionStart(q)
  BY <1>1, <1>2 DEF SessionStart, Off
<1>7. ~Stop(q)
  BY <1>1, <1>2 DEF Stop
<1>8. ~MemoryStop(q) /\ ~LocalStop(q) /\ ~RemoveState(q) /\ ~LocalFails(q)
  BY <1>1, <1>2 DEF MemoryStop, LocalStop, RemoveState, LocalFails, To
<1>9. ~CrashSession(q)
  BY <1>1, <1>2 DEF CrashSession, Off
<1>10. SourceStop(q)
  BY <1>5, <1>6, <1>7, <1>8, <1>9 DEF HookStep
<1>11. q = s
  BY <1>1, <1>2, <1>10 DEF SourceStop
<1> QED
  BY <1>10, <1>11

\* No session, first started or resumed, ends a turn unasked while it leaves
\* the repository different from what it first found and not synchronised.
THEOREM WorkIsAskedFor == Spec => WorkAskedFor
<1> DEFINE Asked == \A s \in Sessions :
       (At(s, "source") /\ At(s, "evaluation")' /\ ~turn[s].active /\ ~turn'[s].blocks)
         => Seen = first[s] \/ (repo.tree = "clean" /\ repo.head = repo.upstream)
<1>1. SInv /\ [Next]_vars => [Asked]_vars
  <2> SUFFICES ASSUME SInv, Next, NEW s \in Sessions, At(s, "source"), At(s, "evaluation")',
                      ~turn[s].active, ~turn'[s].blocks
               PROVE  Seen = first[s] \/ (repo.tree = "clean" /\ repo.head = repo.upstream)
    OBVIOUS
  <2>1. SourceStop(s)
    BY OnlySourceStop DEF SInv
  <2>2. turn'[s].blocks = (~turn[s].active /\ Unsynchronised(s))
    BY <2>1 DEF SourceStop, SInv, HInv
  <2>3. ~Unsynchronised(s)
    BY <2>2
  <2> QED
    BY <2>3 DEF Unsynchronised, SInv, HInv
<1> QED
  BY <1>1, SInvHolds, PTL DEF Spec, WorkAskedFor
--------------------------------------------------------------------------------
(* What the summary makes of the log.  Nothing is known of the tasks but    *)
(* that there are finitely many kinds.                                      *)
Counted == finished \in [Kinds -> Nat] /\ malformed \in Nat

LEMMA KindFacts ==
  /\ IsFiniteSet(Kinds) /\ Missing \notin Int
  /\ \A k \in Kinds :
       /\ TaskKinds[k].mode \in {"off", "recall", "full"} /\ TaskKinds[k].success \in BOOLEAN
       /\ TaskKinds[k].elapsed \in Nat /\ TaskKinds[k].hypotheses \in Nat \cup {Missing}
       /\ TaskKinds[k].source \in Nat /\ TaskKinds[k].kept \in Nat /\ IsFiniteSet(TaskKinds[k].records)
       /\ TaskKinds[k].mode = "off" => TaskKinds[k].records = {}
       /\ \A r \in TaskKinds[k].records : r.rank \in Nat \ {0} /\ r.verdict \in {"useful", "misleading", "stale", Missing}
<1>1. IsFiniteSet(Kinds)
  BY SummaryAssumption, FS_Interval DEF Kinds
<1> QED BY <1>1, SummaryAssumption DEF Kinds

LEMMA TotalIsSum ==
  ASSUME NEW f, NEW S
  PROVE  Total(f, S) = SumOver(f, S)
BY DEF Total, SumOver

LEMMA TallyFacts ==
  ASSUME Counted, NEW S \in SUBSET Kinds
  PROVE  /\ IsFiniteSet(S) /\ Tally(S) \in Nat /\ Tally(S) = SumOver(finished, S)
         /\ \A T \in SUBSET S : Tally(T) \in Nat /\ Tally(T) <= Tally(S)
         /\ \A k \in S : finished[k] \in Nat /\ finished[k] <= Tally(S)
         /\ Tally(S) > 0 => S # {}
<1>1. IsFiniteSet(S) /\ \A k \in S : finished[k] \in Nat
  BY KindFacts, FS_Subset DEF Counted
<1>2. \A T \in SUBSET S : Tally(T) = SumOver(finished, T)
  BY TotalIsSum DEF Tally
<1>3. \A T \in SUBSET S : SumOver(finished, T) \in Nat /\ SumOver(finished, T) <= SumOver(finished, S)
  <2> TAKE T \in SUBSET S
  <2>1. \A k \in T : finished[k] \in Nat /\ finished[k] <= finished[k]
    BY <1>1
  <2> QED BY <1>1, <2>1, SumGrows
<1>4. \A k \in S : finished[k] <= SumOver(finished, S)
  BY <1>1, SumTerm
<1>5. S \in SUBSET S /\ Tally(S) = SumOver(finished, S)
  BY <1>2
<1>6. SumOver(finished, {}) = 0
  BY SumEmpty
<1> QED BY <1>1, <1>2, <1>3, <1>4, <1>5, <1>6

(* A kind that is logged counts.                                            *)
LEMMA LoggedFacts ==
  ASSUME Counted
  PROVE  /\ Logged \in SUBSET Kinds /\ \A k \in Logged : finished[k] \in Nat /\ finished[k] > 0
         /\ \A S \in SUBSET Logged : S # {} => Tally(S) > 0
<1>1. Logged \in SUBSET Kinds /\ \A k \in Logged : finished[k] \in Nat /\ finished[k] > 0
  BY DEF Logged, Counted
<1>2. ASSUME NEW S \in SUBSET Logged, S # {} PROVE Tally(S) > 0
  <2>1. PICK k \in S : TRUE
    BY <1>2
  <2>2. finished[k] \in Nat /\ finished[k] > 0 /\ finished[k] <= Tally(S) /\ Tally(S) \in Nat
    BY <1>1, TallyFacts
  <2> QED BY <2>2
<1> QED BY <1>1, <1>2

LEMMA ProductGrows ==
  ASSUME NEW n \in Nat, NEW m \in Nat, n <= m, NEW a \in Nat, NEW b \in Nat, a <= b
  PROVE  n * a \in Nat /\ n * a <= m * b
<1>1. n * a \in Nat /\ n * b \in Nat /\ m * b \in Nat
  OBVIOUS
<1>2. n * b = n * a + n * (b - a) /\ n * (b - a) \in Nat
  OBVIOUS
<1>3. m * b = n * b + (m - n) * b /\ (m - n) * b \in Nat
  OBVIOUS
<1> QED BY <1>1, <1>2, <1>3

(* What is summed of the tasks.                                             *)
LEMMA TallyOfFacts ==
  ASSUME Counted, NEW S \in SUBSET Kinds, NEW a, \A k \in S : a[k] \in Nat
  PROVE  /\ TallyOf(S, a) \in Nat
         /\ TallyOf(S, a) > 0 => \E k \in S : finished[k] > 0 /\ a[k] > 0
         /\ \A T \in SUBSET S : \A b :
              (\A k \in T : b[k] \in Nat /\ b[k] <= a[k]) => TallyOf(T, b) \in Nat /\ TallyOf(T, b) <= TallyOf(S, a)
<1> DEFINE f == [k \in S |-> finished[k] * a[k]]
<1>1. IsFiniteSet(S) /\ \A k \in S : finished[k] \in Nat
  BY TallyFacts
<1>2. \A k \in S : f[k] = finished[k] * a[k] /\ f[k] \in Nat
  BY <1>1, ProductGrows
<1>3. TallyOf(S, a) = SumOver(f, S)
  BY TotalIsSum DEF TallyOf
<1> HIDE DEF f
<1>4. SumOver(f, S) \in Nat
  BY <1>1, <1>2, SumNatural
<1>5. ASSUME TallyOf(S, a) > 0 PROVE \E k \in S : finished[k] > 0 /\ a[k] > 0
  <2>1. PICK k \in S : f[k] > 0
    BY <1>1, <1>2, <1>3, <1>5, SumPositive
  <2>2. finished[k] \in Nat /\ a[k] \in Nat /\ finished[k] * a[k] > 0
    BY <1>1, <1>2, <2>1
  <2>3. \A n, m \in Nat : n * m > 0 => n > 0 /\ m > 0
    OBVIOUS
  <2> QED BY <2>2, <2>3
<1>6. ASSUME NEW T \in SUBSET S, NEW b, \A k \in T : b[k] \in Nat /\ b[k] <= a[k]
      PROVE  TallyOf(T, b) \in Nat /\ TallyOf(T, b) <= TallyOf(S, a)
  <2> DEFINE g == [k \in T |-> finished[k] * b[k]]
  <2>1. \A k \in T : g[k] \in Nat /\ g[k] <= f[k]
    <3> TAKE k \in T
    <3>1. finished[k] \in Nat /\ a[k] \in Nat /\ b[k] \in Nat /\ b[k] <= a[k] /\ finished[k] <= finished[k]
      BY <1>1, <1>6
    <3>2. finished[k] * b[k] \in Nat /\ finished[k] * b[k] <= finished[k] * a[k]
      BY <3>1, ProductGrows
    <3> QED BY <1>2, <3>2
  <2>2. TallyOf(T, b) = SumOver(g, T)
    BY TotalIsSum DEF TallyOf
  <2> HIDE DEF g
  <2> QED BY <1>1, <1>2, <1>3, <2>1, <2>2, SumGrows
<1> QED BY <1>3, <1>4, <1>5, <1>6

(* A mean is no more than the most that is summed; where it is as much, all *)
(* are.                                                                     *)
LEMMA TallyOfBounded ==
  ASSUME Counted, NEW S \in SUBSET Logged, NEW a, NEW c \in Nat, \A k \in S : a[k] \in Nat /\ a[k] <= c
  PROVE  /\ TallyOf(S, a) \in Nat /\ TallyOf(S, a) <= c * Tally(S)
         /\ \A k \in S : TallyOf(S, a) + (c - a[k]) <= c * Tally(S)
<1> DEFINE f == [k \in S |-> finished[k] * a[k]]
           g == [k \in S |-> c * finished[k]]
<1>1. S \in SUBSET Kinds /\ IsFiniteSet(S) /\ \A k \in S : finished[k] \in Nat /\ finished[k] > 0
  BY LoggedFacts, TallyFacts
<1>2. \A k \in S : f[k] \in Nat /\ g[k] \in Nat /\ f[k] <= g[k]
  <2> TAKE k \in S
  <2>1. finished[k] * a[k] \in Nat /\ finished[k] * a[k] <= finished[k] * c
    BY <1>1, ProductGrows
  <2>2. finished[k] * c = c * finished[k] /\ c * finished[k] \in Nat
    BY <1>1
  <2> QED BY <2>1, <2>2
<1>3. TallyOf(S, a) = SumOver(f, S)
  BY TotalIsSum DEF TallyOf
<1>4. SumOver(g, S) = c * SumOver(finished, S)
  <2>1. \A k \in S : g[k] = c * finished[k]
    OBVIOUS
  <2> HIDE DEF g
  <2> QED BY <1>1, <2>1, SumScaled
<1>5. SumOver(g, S) = c * Tally(S)
  BY <1>1, <1>4, TallyFacts
<1>6. SumOver(f, S) \in Nat /\ SumOver(f, S) <= SumOver(g, S)
  <2> HIDE DEF f, g
  <2>1. S \in SUBSET S
    OBVIOUS
  <2> QED BY <1>1, <1>2, <2>1, SumGrows
<1>7. ASSUME NEW k \in S PROVE TallyOf(S, a) + (c - a[k]) <= c * Tally(S)
  <2>1. finished[k] \in Nat /\ finished[k] > 0 /\ a[k] \in Nat /\ a[k] <= c
    BY <1>1
  <2>2. \A n, x, y \in Nat : n > 0 /\ x <= y => n * x + (y - x) <= y * n
    <3> TAKE n, x, y \in Nat
    <3> HAVE n > 0 /\ x <= y
    <3>1. /\ y * n = n * x + (y - x) + (n - 1) * (y - x) /\ (n - 1) * (y - x) \in Nat
          /\ n * x \in Nat /\ y * n \in Nat
      OBVIOUS
    <3> QED BY <3>1
  <2>3. f[k] + (c - a[k]) <= g[k]
    BY <2>1, <2>2
  <2> HIDE DEF f, g
  <2>4. SumOver(f, S) = f[k] + SumOver(f, S \ {k}) /\ SumOver(g, S) = g[k] + SumOver(g, S \ {k})
    <3>1. Summable(f, S) /\ Summable(g, S)
      BY <1>1, <1>2 DEF Summable
    <3> QED BY <3>1, SumRemove
  <2>5. SumOver(f, S \ {k}) \in Nat /\ SumOver(g, S \ {k}) \in Nat /\ SumOver(f, S \ {k}) <= SumOver(g, S \ {k})
    <3>1. IsFiniteSet(S \ {k}) /\ S \ {k} \in SUBSET (S \ {k})
      BY <1>1, FS_Subset
    <3> QED BY <1>2, <3>1, SumGrows
  <2>6. f[k] \in Nat /\ g[k] \in Nat /\ a[k] \in Nat
    BY <1>2, <2>1
  <2>7. TallyOf(S, a) = SumOver(f, S) /\ c * Tally(S) = SumOver(g, S)
    BY <1>3, <1>5
  <2>8. SumOver(f, S) + (c - a[k]) <= SumOver(g, S)
    BY <2>3, <2>4, <2>5, <2>6
  <2> QED BY <2>7, <2>8
<1> QED BY <1>3, <1>5, <1>6, <1>7

\* A quotient that is at most w is at most w when it is rounded.
LEMMA RoundedFacts ==
  ASSUME NEW n \in Nat, NEW d \in Nat \ {0}, NEW w \in Nat, n <= w * d
  PROVE  Rounded(n, d) \in 0 .. w
<1>1. PICK q \in Int : q = (2 * n + d) \div (2 * d)
  OBVIOUS
<1>2. q * (2 * d) <= 2 * n + d /\ 2 * n + d < q * (2 * d) + 2 * d
  BY <1>1
<1>3. PICK e \in Nat : e = w * d
  OBVIOUS
<1>4. ASSUME q > w PROVE FALSE
  <2>1. q * (2 * d) = 2 * e + (q - w) * (2 * d) /\ (q - w) * (2 * d) >= 2 * d
    <3>1. (q - w) * (2 * d) = 2 * d + (q - w - 1) * (2 * d) /\ (q - w - 1) * (2 * d) >= 0
      BY <1>4
    <3>2. q * (2 * d) = w * (2 * d) + (q - w) * (2 * d) /\ w * (2 * d) = 2 * (w * d)
      OBVIOUS
    <3>3. (q - w) * (2 * d) \in Int /\ q * (2 * d) \in Int
      OBVIOUS
    <3> QED BY <1>3, <3>1, <3>2, <3>3
  <2>2. (q - w) * (2 * d) \in Int /\ q * (2 * d) \in Int
    OBVIOUS
  <2> QED BY <1>2, <1>3, <2>1, <2>2
<1>5. ASSUME q < 0 PROVE FALSE
  <2>1. q * (2 * d) + 2 * d = (q + 1) * (2 * d) /\ (q + 1) * (2 * d) <= 0
    BY <1>5
  <2> QED BY <1>2, <2>1
<1> QED BY <1>1, <1>4, <1>5 DEF Rounded

\* What is rounded to q is at least q less a half.
LEMMA RoundedFrom ==
  ASSUME NEW n \in Nat, NEW d \in Nat \ {0}
  PROVE  Rounded(n, d) * (2 * d) <= 2 * n + d
BY DEF Rounded

LEMMA Share ==
  ASSUME NEW w \in Nat, NEW d \in Nat \ {0}, NEW c \in 0 .. d
  PROVE  Rounded(w * c, d) \in 0 .. w
<1>1. w * c \in Nat /\ w * c <= w * d
  BY ProductGrows
<1> QED BY <1>1, RoundedFacts

LEMMA ClampFacts ==
  ASSUME NEW n \in Int, NEW d \in Nat
  PROVE  Clamp(n, d) \in 0 .. d
BY DEF Clamp

LEMMA LeastMember ==
  ASSUME NEW S \in SUBSET Nat, S # {}
  PROVE  Min(S) \in S /\ \A y \in S : Min(S) <= y
BY LeastNatural DEF Min

LEMMA MiddleFacts ==
  ASSUME Counted, NEW S \in SUBSET Kinds, NEW field, \A k \in S : field[k] \in Nat,
         NEW i \in Nat, i <= Tally(S), S # {}
  PROVE  Middle(S, i, field) \in {field[k] : k \in S}
<1> DEFINE Values == {field[k] : k \in S}
           Reached == {v \in Values : Below(S, v, field) >= i}
<1>1. IsFiniteSet(Values) /\ Values \in SUBSET Nat /\ Values # {}
  BY TallyFacts, FiniteImage
<1>2. PICK m \in Values : \A v \in Values : v <= m
  <2> HIDE DEF Values
  <2> QED BY <1>1, LargestNatural
<1>3. {k \in S : field[k] <= m} = S
  BY <1>2
<1>4. m \in Reached
  <2>1. Below(S, m, field) = Tally(S) /\ Tally(S) \in Nat
    BY <1>3, TallyFacts DEF Below
  <2> QED BY <1>2, <2>1
<1>5. Reached \in SUBSET Nat /\ Reached \subseteq Values
  BY <1>1
<1>6. Min(Reached) \in Reached
  <2> HIDE DEF Reached
  <2> QED BY <1>4, <1>5, LeastMember
<1> QED BY <1>5, <1>6 DEF Middle

LEMMA MedianFacts ==
  ASSUME Counted, NEW S \in SUBSET Logged, NEW field, \A k \in S : field[k] \in Nat
  PROVE  /\ S = {} => Median(S, field) = Missing
         /\ S # {} => \E k, l \in S : Median(S, field) = field[k] + field[l]
<1>1. S \in SUBSET Kinds
  BY LoggedFacts
<1>2. ASSUME S # {} PROVE \E k, l \in S : Median(S, field) = field[k] + field[l]
  <2>1. PICK n : n = Tally(S)
    OBVIOUS
  <2>2. n \in Nat /\ n > 0
    BY <1>1, <1>2, <2>1, TallyFacts, LoggedFacts
  <2>3. (n + 1) \div 2 \in Nat /\ (n + 1) \div 2 <= n /\ n \div 2 + 1 \in Nat /\ n \div 2 + 1 <= n
    BY <2>2
  <2>4. PICK k \in S : Middle(S, (n + 1) \div 2, field) = field[k]
    BY <1>1, <1>2, <2>1, <2>3, MiddleFacts
  <2>5. PICK l \in S : Middle(S, n \div 2 + 1, field) = field[l]
    BY <1>1, <1>2, <2>1, <2>3, MiddleFacts
  <2>6. Median(S, field) = field[k] + field[l]
    BY <1>2, <2>1, <2>4, <2>5 DEF Median
  <2> QED BY <2>6
<1> QED BY <1>2 DEF Median

Telling(S, field) == {k \in S : field[k] # Missing}

LEMMA MeanFacts ==
  ASSUME Counted, NEW S \in SUBSET Logged, NEW field, \A k \in S : field[k] \in Nat \cup {Missing}
  PROVE  /\ Telling(S, field) = {} => Mean(S, field) = Missing
         /\ Telling(S, field) # {} => Mean(S, field) \in Nat
<1>1. PICK T : T = Telling(S, field)
  OBVIOUS
<1>2. T \in SUBSET Logged /\ T \in SUBSET Kinds /\ \A k \in T : field[k] \in Nat
  BY <1>1, LoggedFacts DEF Telling
<1>3. Mean(S, field) = IF T = {} THEN Missing ELSE Rounded(1000 * TallyOf(T, field), Tally(T))
  BY <1>1 DEF Mean, Telling
<1>4. ASSUME T # {} PROVE Rounded(1000 * TallyOf(T, field), Tally(T)) \in Nat
  <2>1. Tally(T) \in Nat \ {0} /\ TallyOf(T, field) \in Nat
    BY <1>2, <1>4, TallyFacts, TallyOfFacts, LoggedFacts
  <2>2. PICK n : n = 1000 * TallyOf(T, field)
    OBVIOUS
  <2>3. n \in Nat /\ n <= n * Tally(T)
    <3>1. n \in Nat
      BY <2>1, <2>2
    <3>2. n * Tally(T) = n + n * (Tally(T) - 1) /\ n * (Tally(T) - 1) \in Nat
      BY <2>1, <3>1
    <3> QED BY <3>1, <3>2
  <2> QED BY <2>1, <2>2, <2>3, RoundedFacts
<1> QED BY <1>1, <1>3, <1>4

LEMMA ReductionFacts ==
  ASSUME NEW b \in Nat \cup {Missing}, NEW n \in Nat \cup {Missing}
  PROVE  /\ Reduction(b, n) \in Int \cup {Missing}
         /\ Reduction(b, n) # Missing <=> b # Missing /\ n # Missing /\ b > 0
<1>1. Missing \notin Int
  BY KindFacts
<1>2. ASSUME b \in Nat, n \in Nat, b > 0 PROVE Rounded((b - n) * 10000, b) \in Int
  BY <1>2 DEF Rounded
<1> QED BY <1>1, <1>2 DEF Reduction


(* A part is worth something between nothing and its maximum, and then has  *)
(* evidence; or it is worth nothing to speak of.                            *)
Worth(p, max) ==
  /\ p.max = max /\ p.score \in (0 .. 100 * max) \cup {Missing}
  /\ p.score # Missing => p.sample > 0

LEMMA PartWorth ==
  ASSUME NEW max \in Nat, NEW available \in BOOLEAN, NEW score, NEW sample,
         available => score \in 0 .. 100 * max /\ sample > 0
  PROVE  /\ Worth(Part(max, available, score, sample), max)
         /\ Part(max, available, score, sample).score # Missing <=> available
<1>1. \A s \in 0 .. 100 * max : s # Missing
  BY KindFacts
<1> QED BY <1>1 DEF Worth, Part

LEMMA ModeFacts ==
  ASSUME Counted, NEW mode \in {"recall", "full"}
  PROVE  /\ InMode(mode) \in SUBSET Recalling /\ InMode("off") \in SUBSET Logged
         /\ Recalling \in SUBSET Logged /\ InMode(mode) \in SUBSET Logged
         /\ Tally(InMode(mode)) <= Tally(Recalling) /\ Tally(InMode(mode)) \in Nat
         /\ Tally(Recalling) \in Nat /\ Tally(InMode("off")) \in Nat
<1>1. InMode(mode) \in SUBSET Recalling /\ InMode("off") \in SUBSET Logged /\ Recalling \in SUBSET Logged
  BY DEF InMode, Recalling
<1>2. Recalling \in SUBSET Kinds /\ InMode("off") \in SUBSET Kinds
  BY <1>1, LoggedFacts
<1> QED BY <1>1, <1>2, TallyFacts

LEMMA TargetIsMode == TargetMode \in {"recall", "full"}
BY DEF TargetMode

\* What a comparison with this mode rests on.
TimeComparable(mode) == ComparisonReady(mode) /\ Median(InMode("off"), Elapsed) > 0
HypothesesComparable(mode) ==
  /\ ComparisonReady(mode) /\ Telling(InMode("off"), Hypotheses) # {} /\ Telling(InMode(mode), Hypotheses) # {}
  /\ Mean(InMode("off"), Hypotheses) > 0

LEMMA ReadyFacts ==
  ASSUME Counted, NEW mode \in {"recall", "full"}, ComparisonReady(mode)
  PROVE  /\ InMode("off") # {} /\ InMode(mode) # {}
         /\ Tally(InMode("off")) >= 3 /\ Tally(InMode(mode)) >= 3 /\ Tally(Recalling) >= 3
<1>1. InMode("off") \in SUBSET Kinds /\ InMode(mode) \in SUBSET Kinds
  BY ModeFacts, LoggedFacts
<1> QED BY <1>1, ModeFacts, TallyFacts DEF ComparisonReady

LEMMA FieldFacts ==
  ASSUME NEW S \in SUBSET Kinds
  PROVE  /\ \A k \in S : Elapsed[k] \in Nat /\ Elapsed[k] = TaskKinds[k].elapsed
         /\ \A k \in S : Hypotheses[k] \in Nat \cup {Missing}
BY KindFacts DEF Elapsed, Hypotheses

LEMMA TimeFacts ==
  ASSUME Counted, NEW mode \in {"recall", "full"}
  PROVE  /\ TimeReduction(mode) \in Int \cup {Missing}
         /\ TimeReduction(mode) # Missing <=> TimeComparable(mode)
<1>1. ASSUME NEW S \in SUBSET Logged
      PROVE  /\ Median(S, Elapsed) \in Nat \cup {Missing}
             /\ S # {} => Median(S, Elapsed) \in Nat
  <2>1. \A k \in S : Elapsed[k] \in Nat
    BY LoggedFacts, FieldFacts
  <2>2. CASE S = {}
    BY <2>1, <2>2, MedianFacts
  <2>3. CASE S # {}
    <3>1. PICK k, l \in S : Median(S, Elapsed) = Elapsed[k] + Elapsed[l]
      BY <2>1, <2>3, MedianFacts
    <3> QED BY <2>1, <3>1
  <2> QED BY <2>2, <2>3
<1>2. PICK b : b = Median(InMode("off"), Elapsed)
  OBVIOUS
<1>3. PICK n : n = Median(InMode(mode), Elapsed)
  OBVIOUS
<1>4. b \in Nat \cup {Missing} /\ n \in Nat \cup {Missing}
  BY <1>1, <1>2, <1>3, ModeFacts
<1>5. TimeReduction(mode) = IF ComparisonReady(mode) THEN Reduction(b, n) ELSE Missing
  BY <1>2, <1>3 DEF TimeReduction, Compared
<1>6. ComparisonReady(mode) => b \in Nat /\ n \in Nat
  BY <1>1, <1>2, <1>3, ModeFacts, ReadyFacts
<1>7. ComparisonReady(mode) => (Reduction(b, n) # Missing <=> b > 0)
  BY <1>4, <1>6, ReductionFacts, KindFacts
<1> QED BY <1>2, <1>4, <1>5, <1>7, ReductionFacts DEF TimeComparable

LEMMA HypothesisFacts ==
  ASSUME Counted, NEW mode \in {"recall", "full"}
  PROVE  /\ HypothesisReduction(mode) \in Int \cup {Missing}
         /\ HypothesisReduction(mode) # Missing <=> HypothesesComparable(mode)
<1>1. ASSUME NEW S \in SUBSET Logged
      PROVE  /\ Mean(S, Hypotheses) \in Nat \cup {Missing}
             /\ Mean(S, Hypotheses) # Missing <=> Telling(S, Hypotheses) # {}
  <2>1. \A k \in S : Hypotheses[k] \in Nat \cup {Missing}
    BY LoggedFacts, FieldFacts
  <2>2. Telling(S, Hypotheses) = {} => Mean(S, Hypotheses) = Missing
    BY <2>1, MeanFacts
  <2>3. Telling(S, Hypotheses) # {} => Mean(S, Hypotheses) \in Nat
    BY <2>1, MeanFacts
  <2>4. \A x \in Nat : x # Missing
    BY KindFacts
  <2> QED BY <2>2, <2>3, <2>4
<1>2. PICK b : b = Mean(InMode("off"), Hypotheses)
  OBVIOUS
<1>3. PICK n : n = Mean(InMode(mode), Hypotheses)
  OBVIOUS
<1>4. b \in Nat \cup {Missing} /\ n \in Nat \cup {Missing}
  BY <1>1, <1>2, <1>3, ModeFacts
<1>5. HypothesisReduction(mode) = IF ComparisonReady(mode) THEN Reduction(b, n) ELSE Missing
  BY <1>2, <1>3 DEF HypothesisReduction, Compared
<1>6. /\ b # Missing <=> Telling(InMode("off"), Hypotheses) # {}
      /\ n # Missing <=> Telling(InMode(mode), Hypotheses) # {}
  BY <1>1, <1>2, <1>3, ModeFacts
<1>7. Reduction(b, n) # Missing <=> b # Missing /\ n # Missing /\ b > 0
  BY <1>4, ReductionFacts
<1> QED BY <1>2, <1>4, <1>5, <1>6, <1>7, ReductionFacts DEF HypothesesComparable

LEMMA ReducedWorth ==
  ASSUME NEW r \in Int \cup {Missing}, NEW w \in Nat, NEW sample, r # Missing => sample > 0
  PROVE  /\ Worth(Part(w, r # Missing, IF r = Missing THEN 0 ELSE Rounded(100 * w * Clamp(r, 4000), 4000), sample), w)
         /\ Part(w, r # Missing, IF r = Missing THEN 0 ELSE Rounded(100 * w * Clamp(r, 4000), 4000), sample).score # Missing
              <=> r # Missing
<1>1. PICK score : score = IF r = Missing THEN 0 ELSE Rounded(100 * w * Clamp(r, 4000), 4000)
  OBVIOUS
<1>2. r # Missing => score \in 0 .. 100 * w
  <2> SUFFICES ASSUME r # Missing PROVE score \in 0 .. 100 * w
    OBVIOUS
  <2>0. r # Missing
    OBVIOUS
  <2>1. PICK d \in Nat \ {0} : d = 4000
    OBVIOUS
  <2>2. PICK i \in Int : i = r
    BY <2>0
  <2>3. PICK c : c = Clamp(i, d)
    OBVIOUS
  <2>4. c \in 0 .. d
    BY <2>3, ClampFacts
  <2>5. PICK v \in Nat : v = 100 * w
    OBVIOUS
  <2>6. Rounded(v * c, d) \in 0 .. v
    BY <2>4, Share
  <2> QED BY <1>1, <2>0, <2>1, <2>2, <2>3, <2>5, <2>6
<1>3. (r # Missing) \in BOOLEAN
  OBVIOUS
<1>4. /\ Worth(Part(w, r # Missing, score, sample), w)
      /\ Part(w, r # Missing, score, sample).score # Missing <=> r # Missing
  BY <1>2, <1>3, PartWorth
<1> QED BY <1>1, <1>4

LEMMA TimeWorth ==
  ASSUME Counted
  PROVE  /\ Worth(TaskTimeReduction, 20)
         /\ TaskTimeReduction.score # Missing <=> TimeComparable(TargetMode)
<1>1. PICK m \in {"recall", "full"} : m = TargetMode
  BY TargetIsMode
<1>2. PICK r : r = TimeReduction(m)
  OBVIOUS
<1>3. r \in Int \cup {Missing} /\ (r # Missing <=> TimeComparable(m))
  BY <1>1, <1>2, TimeFacts
<1>4. r # Missing => Tally(InMode(m)) > 0
  <2> HAVE r # Missing
  <2>1. Tally(InMode(m)) >= 3 /\ Tally(InMode(m)) \in Nat
    BY <1>3, ReadyFacts, ModeFacts DEF TimeComparable
  <2> QED BY <2>1
<1>5. TaskTimeReduction = Part(20, r # Missing, IF r = Missing THEN 0 ELSE Rounded(100 * 20 * Clamp(r, 4000), 4000), Tally(InMode(m)))
  <2>1. 100 * 20 = 2000
    OBVIOUS
  <2> QED BY <1>1, <1>2, <2>1 DEF TaskTimeReduction
<1> QED BY <1>1, <1>3, <1>4, <1>5, ReducedWorth

LEMMA HypothesisWorth ==
  ASSUME Counted
  PROVE  /\ Worth(FailedHypothesisReduction, 15)
         /\ FailedHypothesisReduction.score # Missing <=> HypothesesComparable(TargetMode)
<1>1. PICK m \in {"recall", "full"} : m = TargetMode
  BY TargetIsMode
<1>2. PICK r : r = HypothesisReduction(m)
  OBVIOUS
<1>3. r \in Int \cup {Missing} /\ (r # Missing <=> HypothesesComparable(m))
  BY <1>1, <1>2, HypothesisFacts
<1>4. r # Missing => Tally(InMode(m)) > 0
  <2> HAVE r # Missing
  <2>1. Tally(InMode(m)) >= 3 /\ Tally(InMode(m)) \in Nat
    BY <1>3, ReadyFacts, ModeFacts DEF HypothesesComparable
  <2> QED BY <2>1
<1>5. FailedHypothesisReduction = Part(15, r # Missing, IF r = Missing THEN 0 ELSE Rounded(100 * 15 * Clamp(r, 4000), 4000), Tally(InMode(m)))
  <2>1. 100 * 15 = 1500
    OBVIOUS
  <2> QED BY <1>1, <1>2, <2>1 DEF FailedHypothesisReduction
<1> QED BY <1>1, <1>3, <1>4, <1>5, ReducedWorth


LEMMA RankFacts ==
  ASSUME NEW k \in Kinds
  PROVE  /\ ReciprocalRank(k) \in 0 .. 10000
         /\ (\E r \in Verdicts(k, "useful") : r.rank = 1) \/ ReciprocalRank(k) <= 5000
<1> DEFINE Ranks == {r.rank : r \in Verdicts(k, "useful")}
<1>1. CASE k \in UsefulTasks
  <2>1. Ranks \in SUBSET Nat /\ Ranks # {} /\ \A n \in Ranks : n # 0
    <3>1. Verdicts(k, "useful") # {}
      BY <1>1 DEF UsefulTasks
    <3>2. \A r \in Verdicts(k, "useful") : r.rank \in Nat \ {0}
      BY KindFacts DEF Verdicts
    <3> QED BY <3>1, <3>2
  <2>2. PICK m \in Ranks : m = Min(Ranks)
    <3> HIDE DEF Ranks
    <3> QED BY <2>1, LeastMember
  <2>3. ReciprocalRank(k) = Rounded(10000, m)
    BY <1>1, <2>2 DEF ReciprocalRank
  <2>4. m \in Nat \ {0}
    BY <2>1
  <2>5. PICK w, h \in Nat : w = 10000 /\ h = 5000
    OBVIOUS
  <2>6. w <= w * m /\ (m = 1 \/ w <= h * m)
    BY <2>4, <2>5
  <2>7. PICK q : q = Rounded(w, m)
    OBVIOUS
  <2>8. ReciprocalRank(k) = q
    <3>1. Rounded(10000, m) = Rounded(w, m)
      BY <2>5
    <3> QED BY <2>3, <2>7, <3>1
  <2>9. q \in 0 .. 10000
    <3>1. q \in 0 .. w
      BY <2>4, <2>6, <2>7, RoundedFacts
    <3> QED BY <2>5, <3>1
  <2>10. CASE m = 1
    <3>1. \E r \in Verdicts(k, "useful") : r.rank = 1
      BY <2>2, <2>10
    <3> QED BY <2>8, <2>9, <3>1
  <2>11. CASE m # 1
    <3>1. w <= h * m
      BY <2>6, <2>11
    <3>2. q \in 0 .. h
      BY <2>4, <2>7, <3>1, RoundedFacts
    <3>3. q <= 5000
      BY <2>5, <3>2
    <3> QED BY <2>8, <2>9, <3>3
  <2> QED BY <2>10, <2>11
<1>2. CASE k \notin UsefulTasks
  BY <1>2 DEF ReciprocalRank
<1> QED BY <1>1, <1>2

LEMMA RecallFacts ==
  ASSUME Counted
  PROVE  /\ UsefulTasks \in SUBSET RankedTasks /\ RankedTasks \in SUBSET Recalling
         /\ Recalling \in SUBSET Logged /\ RankedTasks \in SUBSET Logged /\ UsefulTasks \in SUBSET Logged
         /\ Tally(UsefulTasks) \in Nat /\ RecallTasks \in Nat /\ Tally(UsefulTasks) <= RecallTasks
<1>1. UsefulTasks \in SUBSET RankedTasks
  BY DEF UsefulTasks, RankedTasks, Verdicts
<1>2. RankedTasks \in SUBSET Recalling
  BY KindFacts, LoggedFacts DEF RankedTasks, Recalling, InMode
<1>3. Recalling \in SUBSET Logged
  BY DEF Recalling
<1>4. Recalling \in SUBSET Kinds /\ UsefulTasks \in SUBSET Recalling
  BY <1>1, <1>2, <1>3, LoggedFacts
<1> QED BY <1>1, <1>2, <1>3, <1>4, TallyFacts DEF RecallTasks

(* A mean that is all but one is that of tasks whose best record came first, *)
(* where they are few enough for one of them to show.                        *)
LEMMA MeanRankFacts ==
  ASSUME Counted
  PROVE  /\ MeanReciprocalRank # Missing <=> RankedTasks # {}
         /\ RankedTasks # {} =>
              /\ MeanReciprocalRank \in 0 .. 10000
              /\ MeanReciprocalRank >= 9994 /\ Tally(RankedTasks) <= 500 =>
                   \A k \in RankedTasks : \E r \in Verdicts(k, "useful") : r.rank = 1
<1>1. PICK S : S = RankedTasks
  OBVIOUS
<1>2. PICK a : a = [k \in S |-> ReciprocalRank(k)]
  OBVIOUS
<1>3. MeanReciprocalRank = IF S = {} THEN Missing ELSE Rounded(TallyOf(S, a), Tally(S))
  BY <1>1, <1>2 DEF MeanReciprocalRank
<1>4. S \in SUBSET Logged /\ S \in SUBSET Kinds
  BY <1>1, RecallFacts, LoggedFacts
<1>5. PICK w \in Nat : w = 10000
  OBVIOUS
<1>6. \A k \in S : a[k] \in 0 .. w /\ ((\E r \in Verdicts(k, "useful") : r.rank = 1) \/ a[k] <= 5000)
  BY <1>2, <1>4, <1>5, RankFacts
<1>7. /\ TallyOf(S, a) \in Nat /\ TallyOf(S, a) <= w * Tally(S)
      /\ \A k \in S : TallyOf(S, a) + (w - a[k]) <= w * Tally(S)
  <2>1. \A k \in S : a[k] \in Nat /\ a[k] <= w
    BY <1>6
  <2> QED BY <1>4, <2>1, TallyOfBounded
<1>8. S # {} => Tally(S) \in Nat \ {0}
  BY <1>4, TallyFacts, LoggedFacts
<1>9. \A x \in 0 .. w : x # Missing
  BY KindFacts
<1>10. CASE S = {}
  BY <1>1, <1>3, <1>10
<1>11. CASE S # {}
  <2>1. PICK t, d : t = TallyOf(S, a) /\ d = Tally(S)
    OBVIOUS
  <2>2. t \in Nat /\ d \in Nat \ {0} /\ t <= w * d
    BY <1>7, <1>8, <1>11, <2>1
  <2>3. PICK m : m = Rounded(t, d)
    OBVIOUS
  <2>4. m \in 0 .. w /\ m * (2 * d) <= 2 * t + d
    BY <2>2, <2>3, RoundedFacts, RoundedFrom
  <2>5. MeanReciprocalRank = m
    BY <1>3, <1>11, <2>1, <2>3
  <2>6. ASSUME m >= 9994, d <= 500, NEW k \in S PROVE \E r \in Verdicts(k, "useful") : r.rank = 1
    <3>1. SUFFICES ASSUME a[k] <= 5000 PROVE FALSE
      BY <1>6
    <3>2. t + (w - a[k]) <= w * d /\ a[k] \in Nat
      BY <1>6, <1>7, <2>1
    <3>3. t + 5000 <= 10000 * d
      <4>1. w * d = 10000 * d /\ w * d \in Nat
        BY <1>5, <2>2
      <4> QED BY <1>5, <2>2, <3>1, <3>2, <4>1
    <3>4. 19988 * d <= m * (2 * d)
      <4>1. m * (2 * d) = 19988 * d + (m - 9994) * (2 * d) /\ (m - 9994) * (2 * d) >= 0
        BY <2>2, <2>4, <2>6
      <4>2. m * (2 * d) \in Int /\ (m - 9994) * (2 * d) \in Int
        BY <2>2, <2>4
      <4> QED BY <2>2, <4>1, <4>2
    <3>5. m * (2 * d) \in Int
      BY <2>2, <2>4
    <3> QED BY <2>2, <2>4, <2>6, <3>3, <3>4, <3>5
  <2>7. MeanReciprocalRank # Missing
    BY <1>9, <2>4, <2>5
  <2>8. MeanReciprocalRank \in 0 .. 10000
    BY <1>5, <2>4, <2>5
  <2>9. MeanReciprocalRank >= 9994 /\ Tally(RankedTasks) <= 500 =>
          \A k \in RankedTasks : \E r \in Verdicts(k, "useful") : r.rank = 1
    BY <1>1, <2>1, <2>5, <2>6
  <2> QED BY <1>1, <1>11, <2>7, <2>8, <2>9
<1> QED BY <1>10, <1>11

LEMMA RetrievalWorth ==
  ASSUME Counted
  PROVE  /\ Worth(RetrievalQuality, 20)
         /\ RetrievalQuality.score # Missing <=> RecallTasks >= 3 /\ RankedTasks # {}
         /\ RetrievalQuality.score = 2000 /\ RecallTasks <= 500 =>
              \A k \in Recalling : \E r \in Verdicts(k, "useful") : r.rank = 1
<1> DEFINE able == RecallTasks >= 3 /\ MeanReciprocalRank # Missing
<1>2. PICK u, n, m : u = Tally(UsefulTasks) /\ n = RecallTasks /\ m = MeanReciprocalRank
  OBVIOUS
<1>3. PICK score : score = IF able THEN Rounded(30000 * u + 2 * m * n, 25 * n) ELSE 0
  OBVIOUS
<1>4. RetrievalQuality = Part(20, able, score, n)
  BY <1>2, <1>3 DEF RetrievalQuality
<1>5. able \in BOOLEAN /\ (able <=> n >= 3 /\ RankedTasks # {})
  BY <1>2, MeanRankFacts
<1> HIDE DEF able
<1>6. u \in Nat /\ n \in Nat /\ u <= n
  BY <1>2, RecallFacts
<1>7. ASSUME able
      PROVE  /\ score \in 0 .. 2000 /\ n > 0
             /\ score = 2000 /\ n <= 500 => u = n /\ m >= 9994
  <2>1. n \in Nat \ {0} /\ u \in 0 .. n /\ m \in 0 .. 10000
    BY <1>2, <1>5, <1>6, <1>7, MeanRankFacts
  <2>2. PICK p \in Nat : p = m * n
    BY <2>1
  <2>3. p \in Nat /\ p <= 10000 * n
    <3>1. 10000 * n = m * n + (10000 - m) * n /\ (10000 - m) * n >= 0
      BY <2>1
    <3>2. (10000 - m) * n \in Int
      BY <2>1
    <3> QED BY <2>1, <2>2, <3>1, <3>2
  <2>4. PICK e, d, w : e = 30000 * u + 2 * p /\ d = 25 * n /\ w = 2000
    OBVIOUS
  <2>5. 2 * m * n = 2 * p
    BY <2>1, <2>2
  <2>6. score = Rounded(e, d)
    BY <1>3, <1>7, <2>4, <2>5
  <2>7. /\ e \in Nat /\ e <= 50000 * n
        /\ d \in Nat \ {0} /\ w \in Nat /\ w * d = 50000 * n
    <3>1. u \in Nat /\ u <= n
      BY <2>1
    <3>2. e \in Nat
      BY <2>2, <2>4, <3>1
    <3>3. e <= 50000 * n
      <4>1. 30000 * u + 2 * p <= 50000 * n
        BY <2>1, <2>3, <3>1
      <4> QED BY <2>4, <4>1
    <3>4. d \in Nat \ {0} /\ w \in Nat
      BY <2>1, <2>4
    <3>5. w * d = 50000 * n
      BY <2>1, <2>4
    <3> QED BY <3>2, <3>3, <3>4, <3>5
  <2>8. e <= w * d
    BY <2>7
  <2>9. score \in 0 .. w /\ score * (2 * d) <= 2 * e + d
    <3>1. e \in Nat /\ d \in Nat \ {0} /\ w \in Nat
      BY <2>7
    <3>2. Rounded(e, d) \in 0 .. w
      BY <2>8, <3>1, RoundedFacts
    <3>3. Rounded(e, d) * (2 * d) <= 2 * e + d
      BY <3>1, RoundedFrom
    <3> QED BY <2>6, <3>2, <3>3
  <2>10. ASSUME score = 2000, n <= 500 PROVE u = n /\ m >= 9994
    <3>1. 100000 * n <= 60000 * u + 4 * p + 25 * n
      <4>1. score * (2 * d) = 100000 * n
        BY <2>1, <2>4, <2>10
      <4> QED BY <2>1, <2>4, <2>9, <4>1
    <3>2. u = n
      BY <2>1, <2>3, <2>10, <3>1
    <3>3. ASSUME m <= 9993 PROVE FALSE
      <4>1. 9993 * n = m * n + (9993 - m) * n /\ (9993 - m) * n >= 0 /\ (9993 - m) * n \in Int
        BY <2>1, <3>3
      <4>2. p <= 9993 * n
        BY <2>1, <2>2, <4>1
      <4> QED BY <2>1, <2>2, <3>1, <3>2, <4>2
    <3> QED BY <2>1, <3>2, <3>3
  <2> QED BY <2>1, <2>4, <2>9, <2>10
<1>8. PICK max \in Nat : max = 20
  OBVIOUS
<1>9. able => score \in 0 .. 100 * max /\ n > 0
  BY <1>7, <1>8
<1>10. /\ Worth(Part(max, able, score, n), max)
       /\ Part(max, able, score, n).score # Missing <=> able
  BY <1>5, <1>9, PartWorth
<1>11. ASSUME RetrievalQuality.score = 2000, RecallTasks <= 500
       PROVE  \A k \in Recalling : \E r \in Verdicts(k, "useful") : r.rank = 1
  <2>1. able
    <3>1. RetrievalQuality.score # Missing
      BY <1>11, KindFacts
    <3> QED BY <1>4, <1>8, <1>10, <3>1
  <2>2. score = 2000
    BY <1>4, <1>11, <2>1 DEF Part
  <2>3. u = n /\ m >= 9994 /\ RankedTasks # {}
    BY <1>2, <1>5, <1>7, <1>11, <2>1, <2>2
  <2>4. Recalling \subseteq UsefulTasks
    <3> SUFFICES ASSUME NEW k \in Recalling, k \notin UsefulTasks PROVE FALSE
      OBVIOUS
    <3>1. UsefulTasks \in SUBSET (Recalling \ {k}) /\ Recalling \ {k} \in SUBSET Kinds /\ Recalling \in SUBSET Kinds
      BY RecallFacts, LoggedFacts
    <3>2. Tally(UsefulTasks) <= Tally(Recalling \ {k}) /\ Tally(Recalling \ {k}) \in Nat
      BY <3>1, TallyFacts
    <3>3. Tally(Recalling) = finished[k] + Tally(Recalling \ {k})
      <4>1. Summable(finished, Recalling)
        BY <3>1, TallyFacts DEF Summable
      <4>2. SumOver(finished, Recalling) = finished[k] + SumOver(finished, Recalling \ {k})
        BY <4>1, SumRemove
      <4> QED BY <3>1, <4>2, TallyFacts
    <3>4. finished[k] \in Nat /\ finished[k] > 0
      BY RecallFacts, LoggedFacts
    <3>5. Tally(UsefulTasks) = Tally(Recalling)
      BY <1>2, <2>3 DEF RecallTasks
    <3>6. Tally(UsefulTasks) \in Nat
      BY RecallFacts
    <3> QED BY <3>2, <3>3, <3>4, <3>5, <3>6
  <2>5. Tally(RankedTasks) <= 500
    <3>1. Recalling \in SUBSET Kinds /\ RankedTasks \in SUBSET Recalling
      BY RecallFacts, LoggedFacts
    <3>2. Tally(RankedTasks) \in Nat /\ Tally(RankedTasks) <= RecallTasks /\ RecallTasks \in Nat
      BY <3>1, TallyFacts DEF RecallTasks
    <3> QED BY <1>11, <3>2
  <2>6. \A k \in RankedTasks : \E r \in Verdicts(k, "useful") : r.rank = 1
    BY <1>2, <2>3, <2>5, MeanRankFacts
  <2> QED BY <2>4, <2>6, RecallFacts
<1> QED BY <1>2, <1>4, <1>5, <1>8, <1>10, <1>11


LEMMA RecordFacts ==
  ASSUME NEW k \in Kinds, NEW S \in SUBSET TaskKinds[k].records
  PROVE  Cardinality(S) \in Nat /\ Cardinality(S) <= Cardinality(TaskKinds[k].records)
<1>1. IsFiniteSet(TaskKinds[k].records)
  BY KindFacts
<1> QED BY <1>1, FS_Subset, FS_CardinalityType

LEMMA JudgedFacts ==
  ASSUME Counted, NEW verdict
  PROVE  Judged(verdict) \in Nat /\ RecalledRecords \in Nat /\ Judged(verdict) <= RecalledRecords
<1>1. PICK a : a = [k \in Logged |-> Cardinality(TaskKinds[k].records)]
  OBVIOUS
<1>2. PICK b : b = [k \in Logged |-> Cardinality(Verdicts(k, verdict))]
  OBVIOUS
<1>3. Logged \in SUBSET Kinds /\ Logged \in SUBSET Logged
  BY LoggedFacts
<1>4. \A k \in Logged : a[k] \in Nat /\ b[k] \in Nat /\ b[k] <= a[k]
  <2> TAKE k \in Logged
  <2>1. k \in Kinds /\ Verdicts(k, verdict) \in SUBSET TaskKinds[k].records
    BY <1>3 DEF Verdicts
  <2>2. TaskKinds[k].records \in SUBSET TaskKinds[k].records
    OBVIOUS
  <2>3. Cardinality(TaskKinds[k].records) \in Nat
    BY <2>1, <2>2, RecordFacts
  <2>4. Cardinality(Verdicts(k, verdict)) \in Nat /\ Cardinality(Verdicts(k, verdict)) <= Cardinality(TaskKinds[k].records)
    BY <2>1, RecordFacts
  <2> QED BY <1>1, <1>2, <2>3, <2>4
<1>5. RecalledRecords = TallyOf(Logged, a) /\ Judged(verdict) = TallyOf(Logged, b)
  BY <1>1, <1>2 DEF RecalledRecords, Judged
<1> QED BY <1>3, <1>4, <1>5, TallyOfFacts

LEMMA KnownFacts ==
  ASSUME Counted, NEW place
  PROVE  KnownIn(place) \in Nat /\ CrossIn(place) \in Nat
<1>1. PICK a : a = [k \in Logged |-> Cardinality(Known(k, place))]
  OBVIOUS
<1>2. PICK b : b = [k \in Logged |-> Cardinality({r \in Known(k, place) : r[place] # TaskKinds[k][place]})]
  OBVIOUS
<1>3. Logged \in SUBSET Kinds
  BY LoggedFacts
<1>4. \A k \in Logged : a[k] \in Nat /\ b[k] \in Nat
  <2> TAKE k \in Logged
  <2>1. k \in Kinds /\ Known(k, place) \in SUBSET TaskKinds[k].records
    BY <1>3 DEF Known, Verdicts
  <2>2. {r \in Known(k, place) : r[place] # TaskKinds[k][place]} \in SUBSET TaskKinds[k].records
    BY <2>1
  <2> QED BY <1>1, <1>2, <2>1, <2>2, RecordFacts
<1>5. KnownIn(place) = TallyOf(Logged, a) /\ CrossIn(place) = TallyOf(Logged, b)
  BY <1>1, <1>2 DEF KnownIn, CrossIn
<1> QED BY <1>3, <1>4, <1>5, TallyOfFacts

LEMMA TransferWorth ==
  ASSUME NEW places, NEW cross \in Nat, NEW known \in Nat
  PROVE  /\ Worth(Transfer(places, cross, known), 10)
         /\ Transfer(places, cross, known).score # Missing <=> Cardinality(places) >= 2 /\ known >= 3
<1> DEFINE able == Cardinality(places) >= 2 /\ known >= 3
<1>1. PICK score : score = IF able THEN Rounded(1000 * Clamp(4 * cross, known), known) ELSE 0
  OBVIOUS
<1>2. Transfer(places, cross, known) = Part(10, able, score, known)
  BY <1>1 DEF Transfer
<1>3. able \in BOOLEAN /\ (able => known >= 3)
  OBVIOUS
<1> HIDE DEF able
<1>4. PICK max, v \in Nat : max = 10 /\ v = 1000
  OBVIOUS
<1>5. able => score \in 0 .. v /\ known > 0
  <2> SUFFICES ASSUME able PROVE score \in 0 .. v /\ known > 0
    OBVIOUS
  <2>1. PICK n \in Int : n = 4 * cross
    OBVIOUS
  <2>2. PICK c \in 0 .. known : c = Clamp(n, known)
    BY ClampFacts
  <2>3. known \in Nat \ {0}
    BY <1>3
  <2>4. Rounded(v * c, known) \in 0 .. v
    BY <2>3, Share
  <2> QED BY <1>1, <1>4, <2>1, <2>2, <2>3, <2>4
<1>6. able => score \in 0 .. 100 * max /\ known > 0
  BY <1>4, <1>5
<1>7. /\ Worth(Part(max, able, score, known), max)
      /\ Part(max, able, score, known).score # Missing <=> able
  BY <1>3, <1>6, PartWorth
<1> QED BY <1>2, <1>4, <1>7 DEF able

LEMMA MemoryWorth ==
  ASSUME Counted
  PROVE  /\ Worth(MemoryCorrectness, 10)
         /\ MemoryCorrectness.score # Missing <=> RecalledRecords >= 5
<1> DEFINE able == RecalledRecords >= 5
<1>1. PICK n, m : n = RecalledRecords /\ m = Judged("misleading")
  OBVIOUS
<1>2. PICK score : score = IF able THEN Rounded(1000 * (n - m), n) ELSE 0
  OBVIOUS
<1>3. MemoryCorrectness = Part(10, able, score, n)
  BY <1>1, <1>2 DEF MemoryCorrectness
<1>4. able \in BOOLEAN /\ (able => n >= 5) /\ n \in Nat /\ m \in Nat /\ m <= n
  BY <1>1, JudgedFacts
<1> HIDE DEF able
<1>5. PICK max, v \in Nat : max = 10 /\ v = 1000
  OBVIOUS
<1>6. able => score \in 0 .. v /\ n > 0
  <2> SUFFICES ASSUME able PROVE score \in 0 .. v /\ n > 0
    OBVIOUS
  <2>1. PICK c : c = n - m
    OBVIOUS
  <2>2. n \in Nat \ {0} /\ c \in 0 .. n
    BY <1>4, <2>1
  <2>3. Rounded(v * c, n) \in 0 .. v
    BY <2>2, Share
  <2> QED BY <1>2, <1>5, <2>1, <2>2, <2>3
<1>7. able => score \in 0 .. 100 * max /\ n > 0
  BY <1>5, <1>6
<1>8. /\ Worth(Part(max, able, score, n), max)
      /\ Part(max, able, score, n).score # Missing <=> able
  BY <1>4, <1>7, PartWorth
<1> QED BY <1>3, <1>5, <1>8 DEF able

LEMMA StaleWorth ==
  ASSUME Counted
  PROVE  /\ Worth(StaleResistance, 5)
         /\ StaleResistance.score # Missing <=> Judged("stale") + Judged("misleading") > 0
<1> DEFINE able == Judged("stale") + Judged("misleading") > 0
<1>1. PICK s, n : s = Judged("stale") /\ n = Judged("stale") + Judged("misleading")
  OBVIOUS
<1>2. PICK score : score = IF able THEN Rounded(500 * s, n) ELSE 0
  OBVIOUS
<1>3. StaleResistance = Part(5, able, score, n)
  BY <1>1, <1>2 DEF StaleResistance
<1>4. able \in BOOLEAN /\ (able => n > 0) /\ n \in Nat /\ s \in 0 .. n
  <2>1. Judged("stale") \in Nat /\ Judged("misleading") \in Nat
    BY JudgedFacts
  <2> QED BY <1>1, <2>1
<1> HIDE DEF able
<1>5. PICK max, v \in Nat : max = 5 /\ v = 500
  OBVIOUS
<1>6. able => score \in 0 .. v /\ n > 0
  <2> SUFFICES ASSUME able PROVE score \in 0 .. v /\ n > 0
    OBVIOUS
  <2>1. n \in Nat \ {0}
    BY <1>4
  <2>2. Rounded(v * s, n) \in 0 .. v
    BY <1>4, <2>1, Share
  <2> QED BY <1>2, <1>5, <2>1, <2>2
<1>7. able => score \in 0 .. 100 * max /\ n > 0
  BY <1>5, <1>6
<1>8. /\ Worth(Part(max, able, score, n), max)
      /\ Part(max, able, score, n).score # Missing <=> able
  BY <1>4, <1>7, PartWorth
<1> QED BY <1>3, <1>5, <1>8 DEF able

(* The log is whole or it is not; this part alone needs no task.            *)
LEMMA PrivacyWorth ==
  PrivacyIntegrity.max = 5 /\ PrivacyIntegrity.score \in 0 .. 500 /\ PrivacyIntegrity.score # Missing
BY KindFacts DEF PrivacyIntegrity, Part

LEMMA CharFacts ==
  ASSUME Counted
  PROVE  SourceChars \in Nat /\ KeptChars \in Nat
<1>1. Written \in SUBSET Kinds
  BY LoggedFacts DEF Written
<1>2. \A k \in Written : [j \in Written |-> TaskKinds[j].source][k] \in Nat
  BY <1>1, KindFacts
<1>3. \A k \in Written : [j \in Written |-> TaskKinds[j].kept][k] \in Nat
  BY <1>1, KindFacts
<1> QED BY <1>1, <1>2, <1>3, TallyOfFacts DEF SourceChars, KeptChars

LEMMA CompressionWorth ==
  ASSUME Counted
  PROVE  /\ Worth(DecisionCompression, 5)
         /\ DecisionCompression.score # Missing <=> SourceChars > 0
<1> DEFINE able == SourceChars > 0
<1>1. PICK n, m : n = SourceChars /\ m = KeptChars
  OBVIOUS
<1>2. PICK score : score = IF able THEN Rounded(500 * Clamp(10 * (n - m), 9 * n), 9 * n) ELSE 0
  OBVIOUS
<1>3. DecisionCompression = Part(5, able, score, n)
  BY <1>1, <1>2 DEF DecisionCompression
<1>4. able \in BOOLEAN /\ (able => n > 0) /\ n \in Nat /\ m \in Nat
  BY <1>1, CharFacts
<1> HIDE DEF able
<1>5. PICK max, v \in Nat : max = 5 /\ v = 500
  OBVIOUS
<1>6. able => score \in 0 .. v /\ n > 0
  <2> SUFFICES ASSUME able PROVE score \in 0 .. v /\ n > 0
    OBVIOUS
  <2>1. PICK d \in Nat \ {0} : d = 9 * n
    BY <1>4
  <2>2. PICK i \in Int : i = 10 * (n - m)
    BY <1>4
  <2>3. PICK c \in 0 .. d : c = Clamp(i, d)
    BY ClampFacts
  <2>4. Rounded(v * c, d) \in 0 .. v
    BY Share
  <2> QED BY <1>2, <1>4, <1>5, <2>1, <2>2, <2>3, <2>4
<1>7. able => score \in 0 .. 100 * max /\ n > 0
  BY <1>5, <1>6
<1>8. /\ Worth(Part(max, able, score, n), max)
      /\ Part(max, able, score, n).score # Missing <=> able
  BY <1>4, <1>7, PartWorth
<1> QED BY <1>3, <1>5, <1>8 DEF able


LEMMA ComponentPlaces ==
  /\ DOMAIN Components = 1 .. 9
  /\ Components[1] = RetrievalQuality /\ Components[2] = TaskTimeReduction /\ Components[3] = FailedHypothesisReduction
  /\ Components[4] = Transfer(Repositories, CrossIn("repository"), KnownIn("repository"))
  /\ Components[5] = Transfer(Devices, CrossIn("device"), KnownIn("device"))
  /\ Components[6] = MemoryCorrectness /\ Components[7] = StaleResistance
  /\ Components[8] = PrivacyIntegrity /\ Components[9] = DecisionCompression
BY DEF Components

LEMMA WorthOf ==
  ASSUME NEW p, NEW max \in Nat \ {0}, Worth(p, max)
  PROVE  /\ p.max \in Nat \ {0} /\ p.score \in (0 .. 100 * p.max) \cup {Missing}
         /\ p.score # Missing => p.sample > 0
BY DEF Worth

LEMMA ComponentsWorth ==
  ASSUME Counted, NEW parts, parts = Components
  PROVE  /\ DOMAIN parts = 1 .. 9
         /\ \A i \in 1 .. 9 :
              /\ parts[i].max \in Nat \ {0} /\ parts[i].score \in (0 .. 100 * parts[i].max) \cup {Missing}
              /\ i # 8 /\ parts[i].score # Missing => parts[i].sample > 0
<1> DEFINE Good(p) == p.max \in Nat \ {0} /\ p.score \in (0 .. 100 * p.max) \cup {Missing}
           Told(p) == p.score # Missing => p.sample > 0
<1>1. PICK a, b, c, d \in Nat \ {0} : a = 20 /\ b = 15 /\ c = 10 /\ d = 5
  OBVIOUS
<1>2. \A p : Worth(p, a) \/ Worth(p, b) \/ Worth(p, c) \/ Worth(p, d) => Good(p) /\ Told(p)
  BY WorthOf
<1>3. Worth(parts[1], a) /\ Worth(parts[2], a) /\ Worth(parts[3], b)
  BY <1>1, ComponentPlaces, RetrievalWorth, TimeWorth, HypothesisWorth
<1>4. Worth(parts[4], c) /\ Worth(parts[5], c) /\ Worth(parts[6], c)
  BY <1>1, ComponentPlaces, TransferWorth, KnownFacts, MemoryWorth
<1>5. Worth(parts[7], d) /\ Worth(parts[9], d)
  BY <1>1, ComponentPlaces, StaleWorth, CompressionWorth
<1>6. Good(parts[8])
  <2>1. parts[8].max = 5 /\ parts[8].score \in 0 .. 500
    BY ComponentPlaces, PrivacyWorth
  <2> QED BY <2>1
<1> HIDE DEF Good, Told
<1>7. Good(parts[1]) /\ Good(parts[2]) /\ Good(parts[3]) /\ Good(parts[4]) /\ Good(parts[5])
      /\ Good(parts[6]) /\ Good(parts[7]) /\ Good(parts[8]) /\ Good(parts[9])
  BY <1>2, <1>3, <1>4, <1>5, <1>6
<1>8. Told(parts[1]) /\ Told(parts[2]) /\ Told(parts[3]) /\ Told(parts[4]) /\ Told(parts[5])
      /\ Told(parts[6]) /\ Told(parts[7]) /\ Told(parts[9])
  BY <1>2, <1>3, <1>4, <1>5
<1>9. \A i \in 1 .. 9 : i = 1 \/ i = 2 \/ i = 3 \/ i = 4 \/ i = 5 \/ i = 6 \/ i = 7 \/ i = 8 \/ i = 9
  OBVIOUS
<1>10. \A i \in 1 .. 9 : Good(parts[i]) /\ (i # 8 => Told(parts[i]))
  BY <1>7, <1>8, <1>9
<1> QED BY <1>10, ComponentPlaces DEF Good, Told

LEMMA ScoreWhole ==
  ASSUME Counted, NEW parts, parts = Components, Score(parts) # Missing
  PROVE  Score(parts) \in 0 .. 1000 /\ Coverage(parts) >= 50
<1>1. PICK S : S = Scored(parts)
  OBVIOUS
<1>2. PICK m, s, g : m = [i \in S |-> parts[i].max] /\ s = [i \in S |-> parts[i].score] /\ g = [i \in S |-> 100 * parts[i].max]
  OBVIOUS
<1>3. S \in SUBSET (1 .. 9) /\ IsFiniteSet(S)
  <2>1. DOMAIN parts = 1 .. 9
    BY ComponentPlaces
  <2>2. S \in SUBSET (1 .. 9)
    BY <1>1, <2>1 DEF Scored
  <2>3. IsFiniteSet(1 .. 9)
    <3>1. PICK n \in Int : n = 9
      OBVIOUS
    <3>2. IsFiniteSet(1 .. n)
      BY FS_Interval
    <3> QED BY <3>1, <3>2
  <2> QED BY <2>2, <2>3, FS_Subset
<1>4. \A i \in S : m[i] \in Nat /\ s[i] \in Nat /\ g[i] = 100 * m[i] /\ g[i] \in Nat /\ s[i] <= g[i]
  <2> TAKE i \in S
  <2>1. parts[i].max \in Nat /\ parts[i].score \in 0 .. 100 * parts[i].max
    BY <1>1, <1>3, ComponentsWorth DEF Scored
  <2> QED BY <1>2, <2>1
<1>5. Coverage(parts) = SumOver(m, S) /\ Provisional(parts) = Rounded(10 * SumOver(s, S), SumOver(m, S))
  BY <1>1, <1>2, TotalIsSum DEF Coverage, Provisional
<1>6. PICK w \in Nat : w = 100
  OBVIOUS
<1>7. SumOver(g, S) = w * SumOver(m, S) /\ SumOver(m, S) \in Nat
  <2>1. \A i \in S : g[i] = w * m[i]
    BY <1>4, <1>6
  <2> QED BY <1>3, <1>4, <2>1, SumScaled, SumNatural
<1>8. SumOver(s, S) \in Nat /\ SumOver(s, S) <= SumOver(g, S)
  <2>1. S \in SUBSET S
    OBVIOUS
  <2> QED BY <1>3, <1>4, <2>1, SumGrows
<1>9. Score(parts) = Provisional(parts) /\ ~(Coverage(parts) < 50)
  <2>1. ScoreStatus(parts) # "insufficient-data"
    BY DEF Score
  <2> QED BY <2>1 DEF Score, ScoreStatus
<1>10. SumOver(m, S) \in Nat \ {0} /\ SumOver(m, S) >= 50
  BY <1>5, <1>7, <1>9
<1>11. PICK n, d, x \in Nat : n = SumOver(s, S) /\ d = SumOver(m, S) /\ x = 1000
  BY <1>7, <1>8
<1>12. 10 * n <= x * d /\ d # 0
  <2>1. n <= 100 * d
    BY <1>6, <1>7, <1>8, <1>11
  <2> QED BY <1>10, <1>11, <2>1
<1>13. Rounded(10 * n, d) \in 0 .. x
  BY <1>12, RoundedFacts
<1> QED BY <1>5, <1>9, <1>10, <1>11, <1>13

(* Time is saved where a task ended sooner than one like it without memory. *)
LEMMA SavedFacts ==
  ASSUME Counted, EstimatedSaved > 0
  PROVE  \E k \in Recalling, b \in InMode("off") :
            TaskKinds[k].class = TaskKinds[b].class /\ TaskKinds[k].elapsed < TaskKinds[b].elapsed
<1>1. PICK a : a = [k \in Comparable |-> Saved(k)]
  OBVIOUS
<1>2. Comparable \in SUBSET Kinds /\ Comparable \in SUBSET Recalling
  BY RecallFacts, LoggedFacts DEF Comparable
<1>3. ASSUME NEW k \in Comparable
      PROVE  /\ Saved(k) \in Nat
             /\ Saved(k) > 0 => \E b \in Baseline(TaskKinds[k].class) : TaskKinds[k].elapsed < TaskKinds[b].elapsed
  <2>1. PICK S : S = Baseline(TaskKinds[k].class)
    OBVIOUS
  <2>2. S \in SUBSET Logged /\ S \in SUBSET Kinds
    BY <2>1, LoggedFacts DEF Baseline, InMode
  <2>3. S # {}
    <3>1. Tally(S) >= 2 /\ Tally(S) \in Nat
      BY <2>1, <2>2, TallyFacts DEF Comparable
    <3> QED BY <2>2, <3>1, TallyFacts
  <2>4. \A b \in S : Elapsed[b] \in Nat /\ Elapsed[b] = TaskKinds[b].elapsed
    BY <2>2, FieldFacts
  <2>5. PICK b, c \in S : Median(S, Elapsed) = Elapsed[b] + Elapsed[c]
    BY <2>2, <2>3, <2>4, MedianFacts
  <2>6. PICK e, f, t \in Nat : e = Elapsed[b] /\ f = Elapsed[c] /\ t = TaskKinds[k].elapsed
    BY <1>2, <2>4, KindFacts
  <2>7. Saved(k) = Max({0, (e + f) - 2 * t})
    BY <2>1, <2>5, <2>6 DEF Saved
  <2>8. PICK x \in Int : x = (e + f) - 2 * t
    OBVIOUS
  <2>9. Max({0, x}) = IF x > 0 THEN x ELSE 0
    <3> DEFINE n == IF x > 0 THEN x ELSE 0
    <3>1. n \in {0, x} /\ \A y \in {0, x} : n >= y
      OBVIOUS
    <3>2. \A z \in {0, x} : (\A y \in {0, x} : z >= y) => z = n
      OBVIOUS
    <3> QED BY <3>1, <3>2 DEF Max
  <2>10. Saved(k) \in Nat /\ (Saved(k) > 0 => t < e \/ t < f)
    BY <2>7, <2>8, <2>9
  <2> QED BY <2>1, <2>4, <2>5, <2>6, <2>10
<1>4. \A k \in Comparable : a[k] \in Nat
  BY <1>1, <1>3
<1>5. TallyOf(Comparable, a) > 0
  BY <1>1 DEF EstimatedSaved
<1>6. PICK k \in Comparable : a[k] > 0
  BY <1>2, <1>4, <1>5, TallyOfFacts
<1>7. PICK b \in Baseline(TaskKinds[k].class) : TaskKinds[k].elapsed < TaskKinds[b].elapsed
  BY <1>1, <1>3, <1>6
<1>8. b \in InMode("off") /\ TaskKinds[b].class = TaskKinds[k].class /\ k \in Recalling
  BY <1>2 DEF Baseline
<1> QED BY <1>7, <1>8

LEMMA CountedIsEarned == Counted => ScoreEarned
<1> SUFFICES ASSUME Counted PROVE ScoreEarned
  OBVIOUS
<1>1. PICK parts : parts = Components
  OBVIOUS
<1>2. \A i \in Scored(parts) : parts[i].score \in 0 .. 100 * parts[i].max /\ (i # 8 => parts[i].sample > 0)
  BY <1>1, ComponentsWorth DEF Scored
<1>3. Score(parts) # Missing => Score(parts) \in 0 .. 1000 /\ Coverage(parts) >= 50
  BY <1>1, ScoreWhole
<1>4. ASSUME {2, 3} \cap Scored(parts) # {} PROVE Tally(InMode("off")) >= 3 /\ Tally(Recalling) >= 3
  <2>1. TimeComparable(TargetMode) \/ HypothesesComparable(TargetMode)
    BY <1>1, <1>4, ComponentPlaces, TimeWorth, HypothesisWorth DEF Scored
  <2>2. ComparisonReady(TargetMode)
    BY <2>1 DEF TimeComparable, HypothesesComparable
  <2> QED BY <2>2, TargetIsMode, ReadyFacts
<1>5. parts[1].score = 2000 /\ RecallTasks <= 500 => \A k \in Recalling : \E r \in Verdicts(k, "useful") : r.rank = 1
  BY <1>1, ComponentPlaces, RetrievalWorth
<1> QED BY <1>1, <1>2, <1>3, <1>4, <1>5, SavedFacts DEF ScoreEarned

--------------------------------------------------------------------------------
(* What is found once stays found.                                          *)
Later == finished' \in [Kinds -> Nat] /\ \A k \in Kinds : finished[k] <= finished'[k]

LEMMA LaterSets ==
  ASSUME Counted, Later, NEW mode, NEW field
  PROVE  /\ Logged \in SUBSET Logged' /\ Logged' \in SUBSET Kinds
         /\ InMode(mode) \in SUBSET InMode(mode)' /\ InMode(mode)' \in SUBSET Kinds
         /\ Telling(InMode(mode), field) \in SUBSET Telling(InMode(mode), field)'
         /\ Recalling \in SUBSET Recalling' /\ Recalling' \in SUBSET Kinds
         /\ RankedTasks \in SUBSET RankedTasks' /\ Written \in SUBSET Written' /\ Written' \in SUBSET Kinds
<1>1. \A k \in Kinds : finished[k] \in Nat /\ finished'[k] \in Nat /\ finished[k] <= finished'[k]
  BY DEF Counted, Later
<1>2. Logged \in SUBSET Logged' /\ Logged' \in SUBSET Kinds
  BY <1>1 DEF Logged
<1> QED BY <1>2 DEF InMode, Telling, Recalling, RankedTasks, Written

LEMMA LaterTally ==
  ASSUME Counted, Later
  PROVE  \A S \in SUBSET Kinds : \A T \in SUBSET S :
           /\ Total(finished, T) \in Nat /\ Total(finished', S) \in Nat
           /\ Total(finished, T) <= Total(finished', S)
<1> TAKE S \in SUBSET Kinds
<1> TAKE T \in SUBSET S
<1>1. IsFiniteSet(S)
  BY KindFacts, FS_Subset
<1>2. \A k \in S : finished[k] \in Nat /\ finished'[k] \in Nat /\ finished[k] <= finished'[k]
  BY DEF Counted, Later
<1>3. PICK f, g : f = finished /\ g = finished'
  OBVIOUS
<1>4. SumOver(f, T) \in Nat /\ SumOver(g, S) \in Nat /\ SumOver(f, T) <= SumOver(g, S)
  BY <1>1, <1>2, <1>3, SumGrows
<1> QED BY <1>3, <1>4, TotalIsSum

LEMMA LaterTallyOf ==
  ASSUME Counted, Later
  PROVE  \A S \in SUBSET Kinds : \A T \in SUBSET S : \A a, b :
           (\A k \in S : b[k] \in Nat) /\ (\A k \in T : a[k] \in Nat /\ a[k] <= b[k]) =>
             /\ Total([k \in T |-> finished[k] * a[k]], T) \in Nat
             /\ Total([k \in S |-> finished'[k] * b[k]], S) \in Nat
             /\ Total([k \in T |-> finished[k] * a[k]], T) <= Total([k \in S |-> finished'[k] * b[k]], S)
<1> SUFFICES ASSUME NEW S \in SUBSET Kinds, NEW T \in SUBSET S, NEW a, NEW b,
                    \A k \in S : b[k] \in Nat, \A k \in T : a[k] \in Nat /\ a[k] <= b[k]
             PROVE  /\ Total([k \in T |-> finished[k] * a[k]], T) \in Nat
                    /\ Total([k \in S |-> finished'[k] * b[k]], S) \in Nat
                    /\ Total([k \in T |-> finished[k] * a[k]], T) <= Total([k \in S |-> finished'[k] * b[k]], S)
  OBVIOUS
<1>1. IsFiniteSet(S)
  BY KindFacts, FS_Subset
<1>2. PICK f : f = [k \in T |-> finished[k] * a[k]]
  OBVIOUS
<1>3. PICK g : g = [k \in S |-> finished'[k] * b[k]]
  OBVIOUS
<1>4. \A k \in S : g[k] \in Nat
  <2> TAKE k \in S
  <2>1. finished'[k] \in Nat /\ b[k] \in Nat
    BY DEF Later
  <2> QED BY <1>3, <2>1
<1>5. \A k \in T : f[k] \in Nat /\ f[k] <= g[k]
  <2> TAKE k \in T
  <2>1. finished[k] \in Nat /\ finished'[k] \in Nat /\ finished[k] <= finished'[k] /\ a[k] \in Nat /\ b[k] \in Nat /\ a[k] <= b[k]
    BY DEF Counted, Later
  <2>2. finished[k] * a[k] \in Nat /\ finished[k] * a[k] <= finished'[k] * b[k]
    BY <2>1, ProductGrows
  <2>3. f[k] = finished[k] * a[k] /\ g[k] = finished'[k] * b[k]
    BY <1>2, <1>3
  <2> QED BY <2>2, <2>3
<1>6. SumOver(f, T) \in Nat /\ SumOver(g, S) \in Nat /\ SumOver(f, T) <= SumOver(g, S)
  BY <1>1, <1>4, <1>5, SumGrows
<1>7. Total(f, T) = SumOver(f, T) /\ Total(g, S) = SumOver(g, S)
  BY TotalIsSum
<1> QED BY <1>2, <1>3, <1>6, <1>7

LEMMA FinitePlaces ==
  ASSUME NEW L \in SUBSET Kinds
  PROVE  /\ IsFiniteSet({TaskKinds[k].repository : k \in L} \ {Missing})
         /\ IsFiniteSet(({TaskKinds[k].device : k \in L} \cup UNION {{r.device : r \in Verdicts(k, "useful")} : k \in L}) \ {Missing})
<1>1. IsFiniteSet(L)
  BY KindFacts, FS_Subset
<1>2. IsFiniteSet({TaskKinds[k].repository : k \in L})
  <2> DEFINE f == [k \in L |-> TaskKinds[k].repository]
  <2>1. IsFiniteSet({f[k] : k \in L})
    <3> HIDE DEF f
    <3> QED BY <1>1, FiniteImage
  <2>2. {f[k] : k \in L} = {TaskKinds[k].repository : k \in L}
    OBVIOUS
  <2> QED BY <2>1, <2>2
<1>3. IsFiniteSet({TaskKinds[k].device : k \in L})
  <2> DEFINE f == [k \in L |-> TaskKinds[k].device]
  <2>1. IsFiniteSet({f[k] : k \in L})
    <3> HIDE DEF f
    <3> QED BY <1>1, FiniteImage
  <2>2. {f[k] : k \in L} = {TaskKinds[k].device : k \in L}
    OBVIOUS
  <2> QED BY <2>1, <2>2
<1>4. ASSUME NEW k \in L PROVE IsFiniteSet({r.device : r \in Verdicts(k, "useful")})
  <2> DEFINE f == [r \in Verdicts(k, "useful") |-> r.device]
  <2>1. IsFiniteSet(Verdicts(k, "useful"))
    <3>1. IsFiniteSet(TaskKinds[k].records) /\ Verdicts(k, "useful") \in SUBSET TaskKinds[k].records
      BY KindFacts DEF Verdicts
    <3> QED BY <3>1, FS_Subset
  <2>2. IsFiniteSet({f[r] : r \in Verdicts(k, "useful")})
    <3> HIDE DEF f
    <3> QED BY <2>1, FiniteImage
  <2>3. {f[r] : r \in Verdicts(k, "useful")} = {r.device : r \in Verdicts(k, "useful")}
    OBVIOUS
  <2> QED BY <2>2, <2>3
<1>5. IsFiniteSet({{r.device : r \in Verdicts(k, "useful")} : k \in L})
  <2> DEFINE f == [k \in L |-> {r.device : r \in Verdicts(k, "useful")}]
  <2>1. IsFiniteSet({f[k] : k \in L})
    <3> HIDE DEF f
    <3> QED BY <1>1, FiniteImage
  <2>2. {f[k] : k \in L} = {{r.device : r \in Verdicts(k, "useful")} : k \in L}
    OBVIOUS
  <2> QED BY <2>1, <2>2
<1>6. IsFiniteSet(UNION {{r.device : r \in Verdicts(k, "useful")} : k \in L})
  BY <1>4, <1>5, FS_UNION
<1>7. IsFiniteSet({TaskKinds[k].device : k \in L} \cup UNION {{r.device : r \in Verdicts(k, "useful")} : k \in L})
  BY <1>3, <1>6, FS_Union
<1> QED BY <1>2, <1>7, FS_Difference

LEMMA LaterPlaces ==
  ASSUME Counted, Later
  PROVE  /\ Cardinality(Repositories) >= 2 => Cardinality(Repositories') >= 2
         /\ Cardinality(Devices) >= 2 => Cardinality(Devices') >= 2
<1>1. ASSUME NEW A, NEW B, IsFiniteSet(B), A \subseteq B, Cardinality(A) >= 2 PROVE Cardinality(B) >= 2
  <2>1. IsFiniteSet(A) /\ Cardinality(A) <= Cardinality(B)
    BY <1>1, FS_Subset
  <2> QED BY <1>1, <2>1, FS_CardinalityType
<1>2. Logged \subseteq Logged' /\ Logged' \in SUBSET Kinds
  BY LaterSets
<1>3. IsFiniteSet(Repositories') /\ IsFiniteSet(Devices')
  BY <1>2, FinitePlaces DEF Repositories, Devices
<1>4. Repositories \subseteq Repositories'
  BY <1>2 DEF Repositories
<1>5. Devices \subseteq Devices'
  BY <1>2 DEF Devices
<1> QED BY <1>1, <1>3, <1>4, <1>5


(* What a part other than the two comparisons needs of the log.             *)
Evident(i) ==
  \/ i = 1 /\ RecallTasks >= 3 /\ RankedTasks # {}
  \/ i = 4 /\ Cardinality(Repositories) >= 2 /\ KnownIn("repository") >= 3
  \/ i = 5 /\ Cardinality(Devices) >= 2 /\ KnownIn("device") >= 3
  \/ i = 6 /\ RecalledRecords >= 5
  \/ i = 7 /\ Judged("stale") + Judged("misleading") > 0
  \/ i = 8
  \/ i = 9 /\ SourceChars > 0

LEMMA ScoredFacts ==
  ASSUME Counted, NEW now, now = Scored(Components)
  PROVE  /\ now \in SUBSET (1 .. 9)
         /\ \A i \in (1 .. 9) \ {2, 3} : i \in now <=> Evident(i)
         /\ 2 \in now <=> TimeComparable(TargetMode)
         /\ 3 \in now <=> HypothesesComparable(TargetMode)
<1>1. \A i : i \in now <=> i \in 1 .. 9 /\ Components[i].score # Missing
  BY ComponentPlaces DEF Scored
<1>2. 1 \in now <=> RecallTasks >= 3 /\ RankedTasks # {}
  BY <1>1, ComponentPlaces, RetrievalWorth
<1>3. 2 \in now <=> TimeComparable(TargetMode)
  BY <1>1, ComponentPlaces, TimeWorth
<1>4. 3 \in now <=> HypothesesComparable(TargetMode)
  BY <1>1, ComponentPlaces, HypothesisWorth
<1>5. 4 \in now <=> Cardinality(Repositories) >= 2 /\ KnownIn("repository") >= 3
  BY <1>1, ComponentPlaces, TransferWorth, KnownFacts
<1>6. 5 \in now <=> Cardinality(Devices) >= 2 /\ KnownIn("device") >= 3
  BY <1>1, ComponentPlaces, TransferWorth, KnownFacts
<1>7. 6 \in now <=> RecalledRecords >= 5
  BY <1>1, ComponentPlaces, MemoryWorth
<1>8. 7 \in now <=> Judged("stale") + Judged("misleading") > 0
  BY <1>1, ComponentPlaces, StaleWorth
<1>9. 8 \in now
  BY <1>1, ComponentPlaces, PrivacyWorth
<1>10. 9 \in now <=> SourceChars > 0
  BY <1>1, ComponentPlaces, CompressionWorth
<1>11. \A i \in (1 .. 9) \ {2, 3} : i = 1 \/ i = 4 \/ i = 5 \/ i = 6 \/ i = 7 \/ i = 8 \/ i = 9
  OBVIOUS
<1>12. \A i \in (1 .. 9) \ {2, 3} : i \in now <=> Evident(i)
  BY <1>2, <1>5, <1>6, <1>7, <1>8, <1>9, <1>10, <1>11 DEF Evident
<1> QED BY <1>1, <1>3, <1>4, <1>12

LEMMA LaterCounts ==
  ASSUME Counted, Later
  PROVE  /\ RecallTasks >= 3 => RecallTasks' >= 3
         /\ RecalledRecords >= 5 => RecalledRecords' >= 5
         /\ \A verdict : Judged(verdict)' \in Nat /\ Judged(verdict) <= Judged(verdict)'
         /\ \A place : KnownIn(place)' \in Nat /\ KnownIn(place) <= KnownIn(place)'
         /\ SourceChars > 0 => SourceChars' > 0
<1>1. Logged \in SUBSET Logged' /\ Logged' \in SUBSET Kinds
  BY LaterSets
<1>2. \A k \in Kinds : \A S \in SUBSET TaskKinds[k].records : Cardinality(S) \in Nat /\ Cardinality(S) <= Cardinality(S)
  BY RecordFacts
<1>3. RecallTasks >= 3 => RecallTasks' >= 3
  <2>1. Recalling \in SUBSET Recalling' /\ Recalling' \in SUBSET Kinds
    BY LaterSets
  <2>2. RecallTasks = Total(finished, Recalling) /\ RecallTasks' = Total(finished', Recalling')
    BY DEF RecallTasks, Tally
  <2>3. RecallTasks \in Nat /\ RecallTasks' \in Nat /\ RecallTasks <= RecallTasks'
    BY <2>1, <2>2, LaterTally
  <2> QED BY <2>3
<1>4. RecalledRecords >= 5 => RecalledRecords' >= 5
  <2>1. PICK a : a = [k \in Logged |-> Cardinality(TaskKinds[k].records)]
    OBVIOUS
  <2>2. PICK b : b = [k \in Logged' |-> Cardinality(TaskKinds[k].records)]
    OBVIOUS
  <2>3. RecalledRecords = Total([k \in Logged |-> finished[k] * a[k]], Logged)
    BY <2>1 DEF RecalledRecords, TallyOf
  <2>4. RecalledRecords' = Total([k \in Logged' |-> finished'[k] * b[k]], Logged')
    BY <2>2 DEF RecalledRecords, TallyOf
  <2>5. (\A k \in Logged' : b[k] \in Nat) /\ \A k \in Logged : a[k] \in Nat /\ a[k] <= b[k]
    BY <1>1, <1>2, <2>1, <2>2
  <2>6. RecalledRecords \in Nat /\ RecalledRecords' \in Nat /\ RecalledRecords <= RecalledRecords'
    BY <1>1, <2>3, <2>4, <2>5, LaterTallyOf
  <2> QED BY <2>6
<1>5. ASSUME NEW verdict PROVE Judged(verdict)' \in Nat /\ Judged(verdict) <= Judged(verdict)'
  <2>1. PICK a : a = [k \in Logged |-> Cardinality(Verdicts(k, verdict))]
    OBVIOUS
  <2>2. PICK b : b = [k \in Logged' |-> Cardinality(Verdicts(k, verdict))]
    OBVIOUS
  <2>3. Judged(verdict) = Total([k \in Logged |-> finished[k] * a[k]], Logged)
    BY <2>1 DEF Judged, TallyOf
  <2>4. Judged(verdict)' = Total([k \in Logged' |-> finished'[k] * b[k]], Logged')
    BY <2>2 DEF Judged, TallyOf
  <2>5. (\A k \in Logged' : b[k] \in Nat) /\ \A k \in Logged : a[k] \in Nat /\ a[k] <= b[k]
    <3>1. \A k \in Logged' : k \in Kinds /\ Verdicts(k, verdict) \in SUBSET TaskKinds[k].records
      BY <1>1 DEF Verdicts
    <3> QED BY <1>1, <1>2, <2>1, <2>2, <3>1
  <2> QED BY <1>1, <2>3, <2>4, <2>5, LaterTallyOf
<1>6. ASSUME NEW place PROVE KnownIn(place)' \in Nat /\ KnownIn(place) <= KnownIn(place)'
  <2>1. PICK a : a = [k \in Logged |-> Cardinality(Known(k, place))]
    OBVIOUS
  <2>2. PICK b : b = [k \in Logged' |-> Cardinality(Known(k, place))]
    OBVIOUS
  <2>3. KnownIn(place) = Total([k \in Logged |-> finished[k] * a[k]], Logged)
    BY <2>1 DEF KnownIn, TallyOf
  <2>4. KnownIn(place)' = Total([k \in Logged' |-> finished'[k] * b[k]], Logged')
    BY <2>2 DEF KnownIn, TallyOf
  <2>5. (\A k \in Logged' : b[k] \in Nat) /\ \A k \in Logged : a[k] \in Nat /\ a[k] <= b[k]
    <3>1. \A k \in Logged' : k \in Kinds /\ Known(k, place) \in SUBSET TaskKinds[k].records
      BY <1>1 DEF Known, Verdicts
    <3> QED BY <1>1, <1>2, <2>1, <2>2, <3>1
  <2> QED BY <1>1, <2>3, <2>4, <2>5, LaterTallyOf
<1>7. SourceChars > 0 => SourceChars' > 0
  <2>1. PICK a : a = [k \in Written |-> TaskKinds[k].source]
    OBVIOUS
  <2>2. PICK b : b = [k \in Written' |-> TaskKinds[k].source]
    OBVIOUS
  <2>3. SourceChars = Total([k \in Written |-> finished[k] * a[k]], Written)
    BY <2>1 DEF SourceChars, TallyOf
  <2>4. SourceChars' = Total([k \in Written' |-> finished'[k] * b[k]], Written')
    BY <2>2 DEF SourceChars, TallyOf
  <2>5. Written \in SUBSET Written' /\ Written' \in SUBSET Kinds
    BY LaterSets
  <2>6. \A k \in Kinds : TaskKinds[k].source \in Nat /\ TaskKinds[k].source <= TaskKinds[k].source
    BY KindFacts
  <2>7. (\A k \in Written' : b[k] \in Nat) /\ \A k \in Written : a[k] \in Nat /\ a[k] <= b[k]
    BY <2>1, <2>2, <2>5, <2>6
  <2>8. SourceChars \in Nat /\ SourceChars' \in Nat /\ SourceChars <= SourceChars'
    BY <2>3, <2>4, <2>5, <2>7, LaterTallyOf
  <2> QED BY <2>8
<1> QED BY <1>3, <1>4, <1>5, <1>6, <1>7

LEMMA EvidentLater ==
  ASSUME Counted, Later, NEW i, Evident(i)
  PROVE  Evident(i)'
<1>1. RankedTasks # {} => RankedTasks' # {}
  BY LaterSets
<1>2. KnownIn("repository") >= 3 => KnownIn("repository")' >= 3
  BY LaterCounts, KnownFacts
<1>3. KnownIn("device") >= 3 => KnownIn("device")' >= 3
  BY LaterCounts, KnownFacts
<1>4. Judged("stale") + Judged("misleading") > 0 => Judged("stale")' + Judged("misleading")' > 0
  <2>1. Judged("stale") \in Nat /\ Judged("misleading") \in Nat
    BY JudgedFacts
  <2>2. Judged("stale")' \in Nat /\ Judged("misleading")' \in Nat
        /\ Judged("stale") <= Judged("stale")' /\ Judged("misleading") <= Judged("misleading")'
    BY LaterCounts
  <2> QED BY <2>1, <2>2
<1> QED BY <1>1, <1>2, <1>3, <1>4, LaterCounts, LaterPlaces DEF Evident

\* A comparison, once made, could be made again but for what it compares with.
Compares(i, mode) ==
  /\ ComparisonReady(mode)
  /\ i = 3 => Telling(InMode("off"), Hypotheses) # {} /\ Telling(InMode(mode), Hypotheses) # {}

LEMMA ComparesLater ==
  ASSUME Counted, Later, NEW i, NEW mode \in {"recall", "full"}, Compares(i, mode)
  PROVE  Compares(i, mode)'
<1>1. ASSUME NEW m PROVE Tally(InMode(m)) >= 3 => Tally(InMode(m))' >= 3
  <2>1. InMode(m) \in SUBSET InMode(m)' /\ InMode(m)' \in SUBSET Kinds
    BY LaterSets
  <2>2. Tally(InMode(m)) = Total(finished, InMode(m)) /\ Tally(InMode(m))' = Total(finished', InMode(m)')
    BY DEF Tally
  <2>3. Tally(InMode(m)) \in Nat /\ Tally(InMode(m))' \in Nat /\ Tally(InMode(m)) <= Tally(InMode(m))'
    BY <2>1, <2>2, LaterTally
  <2> QED BY <2>3
<1>2. ComparisonReady(mode)'
  BY <1>1 DEF ComparisonReady, Compares
<1>3. ASSUME i = 3 PROVE (Telling(InMode("off"), Hypotheses) # {} /\ Telling(InMode(mode), Hypotheses) # {})'
  <2>1. \A m, field : Telling(InMode(m), field) \in SUBSET Telling(InMode(m), field)'
    BY LaterSets
  <2>2. Hypotheses' = Hypotheses
    BY DEF Hypotheses, Kinds
  <2>3. PICK h : h = Hypotheses
    OBVIOUS
  <2>4. Telling(InMode("off"), h)' # {} /\ Telling(InMode(mode), h)' # {}
    BY <1>3, <2>1, <2>3 DEF Compares
  <2> QED BY <2>2, <2>3, <2>4
<1> QED BY <1>2, <1>3 DEF Compares

(* What the last summary told had evidence, and still has.                  *)
EvidenceInv ==
  /\ Counted
  /\ told.scored \in SUBSET (1 .. 9) /\ told.target \in {"recall", "full"}
  /\ \A i \in told.scored \ {2, 3} : Evident(i)
  /\ \A i \in told.scored \cap {2, 3} : Compares(i, told.target)

LEMMA SummaryProceeds == SummarySpec => []EvidenceInv
<1>1. SummaryInit => EvidenceInv
  BY DEF SummaryInit, EvidenceInv, Counted
<1>2. EvidenceInv /\ [SummaryNext]_summaryVars => EvidenceInv'
  <2> SUFFICES ASSUME EvidenceInv, [SummaryNext]_summaryVars PROVE EvidenceInv'
    OBVIOUS
  <2>1. Counted
    BY DEF EvidenceInv
  <2>2. Later /\ Counted'
    <3>1. CASE finished' = finished
      <4>1. Later
        BY <2>1, <3>1 DEF Later, Counted
      <4>2. malformed' \in Nat
        BY <2>1 DEF SummaryNext, WriteMalformed, Summarize, FinishTasks, summaryVars, Counted
      <4> QED BY <2>1, <3>1, <4>1, <4>2 DEF Counted
    <3>2. ASSUME NEW k \in Kinds, NEW n \in Batches, FinishTasks(k, n) PROVE Later /\ Counted'
      <4>1. n \in Nat
        BY SummaryAssumption
      <4>2. finished' = [finished EXCEPT ![k] = @ + n] /\ malformed' = malformed
        BY <3>2 DEF FinishTasks
      <4> QED BY <2>1, <4>1, <4>2 DEF Later, Counted
    <3> QED BY <3>1, <3>2 DEF SummaryNext, WriteMalformed, Summarize, summaryVars
  <2>3. CASE told' = told
    <3>1. \A i \in told.scored \ {2, 3} : Evident(i)'
      BY <2>1, <2>2, EvidentLater DEF EvidenceInv
    <3>2. PICK mode \in {"recall", "full"} : mode = told.target
      BY DEF EvidenceInv
    <3>3. \A i \in told.scored \cap {2, 3} : Compares(i, mode)'
      BY <2>1, <2>2, <3>2, ComparesLater DEF EvidenceInv
    <3> QED BY <2>2, <2>3, <3>1, <3>2, <3>3 DEF EvidenceInv
  <2>4. CASE Summarize
    <3>1. PICK now, mode : now = Scored(Components) /\ mode = TargetMode
      OBVIOUS
    <3>2. told'.scored = now /\ told'.target = mode /\ mode \in {"recall", "full"}
      BY <2>4, <3>1, TargetIsMode DEF Summarize
    <3>3. now \in SUBSET (1 .. 9)
      BY <2>1, <3>1, ScoredFacts
    <3>4. \A i \in now \ {2, 3} : Evident(i)'
      <4>1. \A i \in now \ {2, 3} : Evident(i)
        BY <2>1, <3>1, <3>3, ScoredFacts
      <4> QED BY <2>1, <2>2, <4>1, EvidentLater
    <3>5. \A i \in now \cap {2, 3} : Compares(i, mode)'
      <4>1. 2 \in now => Compares(2, mode)
        BY <2>1, <3>1, ScoredFacts DEF TimeComparable, Compares
      <4>2. 3 \in now => Compares(3, mode)
        BY <2>1, <3>1, ScoredFacts DEF HypothesesComparable, Compares
      <4>3. \A i \in now \cap {2, 3} : Compares(i, mode)
        BY <4>1, <4>2
      <4> QED BY <2>1, <2>2, <3>2, <4>3, ComparesLater
    <3> QED BY <2>2, <3>2, <3>3, <3>4, <3>5 DEF EvidenceInv
  <2> QED BY <2>3, <2>4 DEF SummaryNext, WriteMalformed, FinishTasks, summaryVars
<1> QED BY <1>1, <1>2, PTL DEF SummarySpec

(* Whatever tasks finished, in whatever modes and numbers, no part of the   *)
(* scorecard is worth less than nothing or more than its maximum, a score   *)
(* is shown only with half of the evidence, and full marks are earned       *)
(* (routecraft_evaluation.py, summarize).                                   *)
THEOREM ScoresAreEarned == SummarySpec => []ScoreEarned
<1>1. EvidenceInv => Counted
  BY DEF EvidenceInv
<1> QED BY <1>1, SummaryProceeds, CountedIsEarned, PTL

(* What a summary scored stays scored while the log grows, but for a        *)
(* comparison with nothing (summarize, comparison).                         *)
THEOREM EvidenceStaysThere == SummarySpec => []EvidenceStays
<1>1. EvidenceInv => EvidenceStays
  <2> SUFFICES ASSUME EvidenceInv PROVE EvidenceStays
    OBVIOUS
  <2>1. Counted
    BY DEF EvidenceInv
  <2>2. PICK now : now = Scored(Components)
    OBVIOUS
  <2>3. told.scored \ {2, 3} \subseteq now
    BY <2>1, <2>2, ScoredFacts DEF EvidenceInv
  <2>4. ASSUME ~(told.scored \subseteq now), told.target = TargetMode
        PROVE  Median(InMode("off"), Elapsed) = 0 \/ Mean(InMode("off"), Hypotheses) = 0
    <3>1. PICK i \in told.scored : i \notin now
      BY <2>4
    <3>2. i \in {2, 3} /\ Compares(i, TargetMode)
      BY <2>3, <2>4, <3>1 DEF EvidenceInv
    <3>3. InMode("off") \in SUBSET Logged /\ InMode("off") # {} /\ InMode("off") \in SUBSET Kinds
      BY <2>1, <3>2, ReadyFacts, TargetIsMode, ModeFacts, LoggedFacts DEF Compares
    <3>4. CASE i = 2
      <4>1. PICK k, l \in InMode("off") : Median(InMode("off"), Elapsed) = Elapsed[k] + Elapsed[l]
        BY <2>1, <3>3, FieldFacts, MedianFacts
      <4>2. Median(InMode("off"), Elapsed) \in Nat
        BY <3>3, <4>1, FieldFacts
      <4>3. ~(Median(InMode("off"), Elapsed) > 0)
        BY <2>1, <2>2, <3>1, <3>2, <3>4, ScoredFacts DEF Compares, TimeComparable
      <4> QED BY <4>2, <4>3
    <3>5. CASE i = 3
      <4>1. Mean(InMode("off"), Hypotheses) \in Nat
        <5>1. \A k \in InMode("off") : Hypotheses[k] \in Nat \cup {Missing}
          BY <3>3, FieldFacts
        <5>2. Telling(InMode("off"), Hypotheses) # {}
          BY <3>2, <3>5 DEF Compares
        <5> QED BY <2>1, <3>3, <5>1, <5>2, MeanFacts
      <4>2. ~(Mean(InMode("off"), Hypotheses) > 0)
        BY <2>1, <2>2, <3>1, <3>2, <3>5, ScoredFacts DEF Compares, HypothesesComparable
      <4> QED BY <4>1, <4>2
    <3> QED BY <3>2, <3>4, <3>5
  <2> QED BY <2>2, <2>3, <2>4 DEF EvidenceStays
<1> QED BY <1>1, SummaryProceeds, PTL
--------------------------------------------------------------------------------
(* What there is to BlockedStopFinalised besides fairness.                  *)
Onward == {"source", "evaluation", "local", "remove", "stopped"}

\* A Stop that was asked again goes its way and asks for nothing more.
StopInv ==
  /\ DOMAIN bridge = Sessions
  /\ \A s \in Sessions : turn[s].active => ~turn[s].blocks /\ turn[s].at \in Onward

\* The turn of one session.
Turned(s, t) == turn' = [turn EXCEPT ![s] = t]

LEMMA OneTurns ==
  ASSUME HInv, StopInv, NEW s \in Sessions, NEW t, Turned(s, t),
         DOMAIN bridge' = DOMAIN bridge, t.active => ~t.blocks /\ t.at \in Onward
  PROVE  StopInv'
<1>1. turn'[s] = t /\ \A q \in Sessions \ {s} : turn'[q] = turn[q]
  BY DEF Turned, HInv
<1>2. ASSUME NEW q \in Sessions, turn'[q].active PROVE ~turn'[q].blocks /\ turn'[q].at \in Onward
  BY <1>1, <1>2 DEF StopInv
<1> QED BY <1>2 DEF StopInv

\* What each step of a session makes of its turn.
LEMMA HooksTurn ==
  ASSUME HInv, StopInv, NEW s \in Sessions,
         SessionStart(s) \/ Stop(s) \/ HookStep(s) \/ LocalFails(s) \/ CrashSession(s)
  PROVE  \E t : /\ Turned(s, t) /\ (t.active => ~t.blocks /\ t.at \in Onward)
               /\ (t.at = "stopped" => LocalStop(s) \/ RemoveState(s) \/ LocalFails(s))
<1>1. turn[s] \in [at : Stages, active : BOOLEAN, blocks : BOOLEAN]
  BY DEF HInv
<1>2. turn[s].active => ~turn[s].blocks /\ turn[s].at \in Onward
  BY DEF StopInv
<1>3. CASE SessionStart(s)
  <2>1. PICK t : t = [Off EXCEPT !.at = "working"]
    OBVIOUS
  <2>2. Turned(s, t) /\ t.at = "working" /\ ~t.active
    BY <1>3, <2>1 DEF SessionStart, Turned, Off
  <2> QED BY <2>2
<1>4. PICK t : t = turn'[s]
  OBVIOUS
<1>5. CASE Stop(s)
  <2>1. Turned(s, t) /\ t.at = "source" /\ (t.active => ~t.blocks)
    BY <1>1, <1>2, <1>4, <1>5 DEF Stop, Turned, At, HInv, Onward
  <2> QED BY <2>1 DEF Onward
<1>6. CASE SourceStop(s)
  <2>1. Turned(s, t) /\ t.at = "evaluation" /\ (t.active => ~t.blocks)
    BY <1>1, <1>4, <1>6 DEF SourceStop, Turned, HInv
  <2> QED BY <2>1 DEF Onward
<1>7. CASE MemoryStop(s)
  <2>1. Turned(s, t) /\ t.at \in {"blocked", "local"} /\ (t.active => ~t.blocks /\ t.at \in Onward)
    BY <1>1, <1>2, <1>4, <1>7 DEF MemoryStop, Turned, HInv, To, Onward
  <2> QED BY <2>1
<1>8. CASE LocalStop(s) \/ RemoveState(s) \/ LocalFails(s)
  <2>1. Turned(s, t) /\ t.active = turn[s].active /\ t.blocks = turn[s].blocks /\ t.at \in {"remove", "stopped"}
    BY <1>1, <1>4, <1>8 DEF LocalStop, RemoveState, LocalFails, Turned, HInv, To
  <2> QED BY <1>2, <1>8, <2>1 DEF Onward
<1>9. CASE CrashSession(s)
  <2>1. PICK off : off = Off
    OBVIOUS
  <2>2. Turned(s, off) /\ off.at = "off" /\ ~off.active
    BY <1>9, <2>1 DEF CrashSession, Turned, Off
  <2> QED BY <2>2
<1> QED BY <1>3, <1>5, <1>6, <1>7, <1>8, <1>9 DEF HookStep

LEMMA StopInitially == Init => StopInv
BY DEF Init, StopInv, Off

LEMMA StopStep ==
  ASSUME HInv, StopInv, [Next]_vars
  PROVE  StopInv'
<1>1. CASE UNCHANGED hookVars
  BY <1>1 DEF hookVars, StopInv
<1>2. ASSUME NEW s \in Sessions,
             SessionStart(s) \/ Stop(s) \/ HookStep(s) \/ LocalFails(s) \/ CrashSession(s)
      PROVE  StopInv'
  <2>1. DOMAIN bridge' = DOMAIN bridge
    BY <1>2 DEF SessionStart, Bridged, Stop, HookStep, SourceStop, MemoryStop, LocalStop, RemoveState, LocalFails, CrashSession
  <2> QED BY <1>2, <2>1, HooksTurn, OneTurns
<1>3. CASE (\E change \in LoopConfigs : ConfigureLoop(change)) \/ Edit \/ Revert \/ Commit \/ Push \/ Fetch \/ Pull
  BY <1>3 DEF ConfigureLoop, Edit, Revert, Commit, Push, Fetch, Pull, Git, StopInv
<1> QED BY <1>1, <1>2, <1>3 DEF Next, vars

LEMMA StopHolds == Spec => []StopInv
<1>1. SInv /\ StopInv /\ [Next]_vars => StopInv'
  BY StopStep DEF SInv
<1> QED BY <1>1, SInvHolds, StopInitially, PTL DEF Spec

\* What BlockedStopFinalised says besides that the hooks run to their end: a
\* Stop that was asked again is not blocked once more, and a turn that ends
\* leaves no state file unless the loop is switched off or session_stop failed.
NotAgain == \A s \in Sessions : turn[s].active => ~At(s, "blocked")
Finalised ==
  [][\A s \in Sessions :
       ~At(s, "stopped") /\ At(s, "stopped")' => bridge'[s] = None \/ ~loopcfg.enabled \/ faults' = faults + 1]_vars

LEMMA EndFinalises ==
  ASSUME HInv, StopInv, Next, NEW s \in Sessions, ~At(s, "stopped"), At(s, "stopped")'
  PROVE  bridge'[s] = None \/ ~loopcfg.enabled \/ faults' = faults + 1
<1>1. turn[s].at # "stopped" /\ turn'[s].at = "stopped"
  BY DEF At
<1>2. turn' # turn
  BY <1>1
<1>3. PICK q \in Sessions : SessionStart(q) \/ Stop(q) \/ HookStep(q) \/ LocalFails(q) \/ CrashSession(q)
  BY <1>2 DEF Next, hookVars, ConfigureLoop, Edit, Revert, Commit, Push, Fetch, Pull, Git
<1>4. PICK t : /\ Turned(q, t) /\ (t.at = "stopped" => LocalStop(q) \/ RemoveState(q) \/ LocalFails(q))
  BY <1>3, HooksTurn
<1>5. q = s /\ t.at = "stopped"
  BY <1>1, <1>4 DEF Turned, HInv
<1>6. CASE LocalStop(s)
  <2>1. ~SummaryWanted(s) /\ bridge' = bridge
    BY <1>1, <1>6 DEF LocalStop, To, HInv
  <2> QED BY <2>1 DEF SummaryWanted
<1>7. CASE RemoveState(s)
  BY <1>7 DEF RemoveState, StopInv
<1>8. CASE LocalFails(s)
  BY <1>8 DEF LocalFails
<1> QED BY <1>4, <1>5, <1>6, <1>7, <1>8

\* A Stop asks once and then finalises the Local bridge (loop_bridge.session_stop).
THEOREM StopsFinalise == Spec => []NotAgain /\ Finalised
<1> DEFINE Ends == \A s \in Sessions :
       ~At(s, "stopped") /\ At(s, "stopped")' => bridge'[s] = None \/ ~loopcfg.enabled \/ faults' = faults + 1
<1>1. StopInv => NotAgain
  BY DEF StopInv, NotAgain, Onward, At
<1>2. SInv /\ StopInv /\ [Next]_vars => [Ends]_vars
  BY EndFinalises DEF SInv
<1> QED BY <1>1, <1>2, SInvHolds, StopHolds, PTL DEF Spec, Finalised
================================================================================
