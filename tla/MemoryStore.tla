------------------------------ MODULE MemoryStore ------------------------------
(***************************************************************************)
(* The Decision Store (routecraft_memory_lib): cases, candidates and rules *)
(* as files of a git working tree on each device, written by learn and     *)
(* promote under a lock file with a rollback, and synchronised with one    *)
(* remote branch by commit, pull --rebase and push with retries.  Writes,  *)
(* the rollback and the network may fail, and a process may be killed, at  *)
(* any step.                                                               *)
(***************************************************************************)
EXTENDS Integers, FiniteSets, Sequences, SequencesExt

CONSTANTS Devices,
          Procs,      \* processes
          On,         \* the device each process runs on
          MaxCases, MaxCandidates, MaxRules,   \* bounds: records made
          Packets,    \* the sets of cases a packet may state as evidence
          MaxFaults,  \* bound: failed writes, failed network calls and kills
          Retries,    \* --retries of sync
          Stale,      \* the lock file of a process that died
          None

Idle == [op |-> "idle"]
Held == [op |-> "held"]
\* A process that has entered StoreLock has another op than these.
Entering == {"idle", "retry", "look", "clear"}
Empty == <<>>
Ids == {<<"case", n>> : n \in 1 .. MaxCases} \cup {<<"candidate", n>> : n \in 1 .. MaxCandidates}
       \cup {<<"rule", n>> : n \in 1 .. MaxRules}
Bound == [case |-> MaxCases, candidate |-> MaxCandidates, rule |-> MaxRules]
\* What the files say that matters here: a case is never looked into.
CandidateRecord == [evidence : SUBSET Ids, rule : Ids \cup {Empty}]
RuleRecord == [source : Ids, evidence : SUBSET Ids, authoritative : BOOLEAN]

ASSUME StoreAssumption ==
  /\ On \in [Procs -> Devices] /\ Packets \subseteq SUBSET Ids
  /\ Stale \notin Procs \cup {None} /\ None \notin Procs \cup {"case"} \cup CandidateRecord \cup RuleRecord
  /\ MaxCases \in Nat /\ MaxCandidates \in Nat /\ MaxRules \in Nat /\ MaxFaults \in Nat /\ Retries \in Nat

VARIABLES
  tree,      \* the records of each working tree
  head,      \* the records of the last local commit
  base,      \* the remote's records the local branch is based on
  rebasing,  \* the remote's records a stopped rebase goes onto, or None
  remote,    \* the records of the remote branch
  lock,      \* the process whose lock file exists, or Stale
  pc,        \* what each process is doing
  made,      \* records made so far, of each kind
  faults,    \* faults so far
  torn,      \* history: records removed by a rollback that restored no others
  overtaken  \* history: the lock file of a process at work was removed

stores == <<tree, head, base, rebasing, remote>>
vars == <<stores, lock, pc, made, faults, torn, overtaken>>

S == INSTANCE SharedStore WITH shared <- remote, lapsed <- overtaken

Get(records, id) == IF id \in DOMAIN records THEN records[id] ELSE None
Put(records, new) == [id \in (DOMAIN records \cup DOMAIN new) |-> IF id \in DOMAIN new THEN new[id] ELSE records[id]]
Drop(records, ids) == [id \in DOMAIN records \ ids |-> records[id]]

Init ==
  /\ tree = [d \in Devices |-> Empty] /\ head = tree /\ base = tree /\ remote = Empty
  /\ rebasing = [d \in Devices |-> None] /\ lock = [d \in Devices |-> None]
  /\ pc = [p \in Procs |-> Idle] /\ made = [k \in DOMAIN Bound |-> 0] /\ faults = 0 /\ torn = {}
  /\ overtaken = FALSE

Doing(p, op) == pc[p].op = op
Goes(p, at) == pc' = [pc EXCEPT ![p] = at]
Goto(p, op) == pc' = [pc EXCEPT ![p].op = op]
Fault == faults < MaxFaults /\ faults' = faults + 1
Again(last) == IF last THEN Idle ELSE [op |-> "retry"]

\* StoreLock.__enter__, twice at most: the file is created if there is none.
Enter(p) ==
  /\ pc[p].op \in {"idle", "retry"}
  /\ \/ lock[On[p]] = None /\ lock' = [lock EXCEPT ![On[p]] = p] /\ Goes(p, Held)
     \/ lock[On[p]] # None /\ UNCHANGED lock /\ Goes(p, [op |-> "look", last |-> Doing(p, "retry")])
  /\ UNCHANGED <<stores, made, faults, torn, overtaken>>

\* Its age is looked at.  Past LOCK_STALE_SECONDS are the file of a dead process
\* and that of a sync whose git commands, which have no timeout, take long.
Old(file) == file = Stale \/ (file \in Procs /\ pc[file].op \in {"pull", "push"})
Look(p) ==
  /\ Doing(p, "look")
  /\ LET file == lock[On[p]] IN
     \/ file = None /\ Goes(p, Again(pc[p].last))
     \/ Old(file) /\ Goes(p, [op |-> "clear", last |-> pc[p].last])
     \/ file \in Procs /\ Goes(p, Idle)
  /\ UNCHANGED <<stores, lock, made, faults, torn, overtaken>>

\* The file is removed: the one that was looked at, or one created since.
Clear(p) ==
  /\ Doing(p, "clear") /\ lock' = [lock EXCEPT ![On[p]] = None]
  /\ overtaken' = (overtaken \/ lock[On[p]] \in Procs)
  /\ Goes(p, Again(pc[p].last)) /\ UNCHANGED <<stores, made, faults, torn>>

\* StoreLock.__exit__ removes the file that is there.
Release(p) == lock' = [lock EXCEPT ![On[p]] = None] /\ Goes(p, Idle)
\* What a command does next, once it has the lock.
Begins(p, command) == Doing(p, "held") /\ UNCHANGED lock /\ Goes(p, command)
\* A command that refuses what it is asked for, or rebuilds the index only.
Refuse(p) == Doing(p, "held") /\ Release(p) /\ UNCHANGED <<stores, made, faults, torn, overtaken>>

\* load_records: the conflict markers of a stopped rebase are no front matter.
Readable(d) == rebasing[d] = None

\* A command writes records one after the other, and then the index.
Writing(p, writes) ==
  /\ Readable(On[p])
  /\ LET ids == {writes[i].id : i \in DOMAIN writes} IN
     Begins(p, [op |-> "write", todo |-> writes, original |-> [id \in ids |-> Get(tree[On[p]], id)]])
New(kind) == made[kind] < Bound[kind]
NextId(kind) == <<kind, made[kind] + 1>>
Write(id, record) == [id |-> id, record |-> record]

\* reinforce_candidate: the case is new evidence; a promoted one stays.
Reinforced(candidate, case) ==
  IF candidate.rule # Empty THEN candidate ELSE [candidate EXCEPT !.evidence = @ \cup {case}]

\* cmd_learn of a case, with a nested candidate or not, reinforcing some.
LearnCase(p, nested, reinforce) ==
  LET case == NextId("case")
      candidate == Write(NextId("candidate"), [evidence |-> {case}, rule |-> Empty])
      updates == [i \in 1 .. Cardinality(reinforce) |->
                    LET id == SetToSeq(reinforce)[i] IN Write(id, Reinforced(tree[On[p]][id], case))]
  IN /\ New("case") /\ (nested => New("candidate")) /\ reinforce \subseteq DOMAIN tree[On[p]]
     /\ Writing(p, <<Write(case, "case")>> \o (IF nested THEN <<candidate>> ELSE <<>>) \o updates)
     /\ made' = [made EXCEPT !["case"] = @ + 1, !["candidate"] = @ + (IF nested THEN 1 ELSE 0)]
     /\ UNCHANGED <<stores, faults, torn, overtaken>>

\* cmd_learn of a candidate: the evidence it states is not looked up.
LearnCandidate(p, evidence) ==
  /\ New("candidate") /\ \A case \in evidence : case[2] <= made["case"]
  /\ Writing(p, <<Write(NextId("candidate"), [evidence |-> evidence, rule |-> Empty])>>)
  /\ made' = [made EXCEPT !["candidate"] = @ + 1]
  /\ UNCHANGED <<stores, faults, torn, overtaken>>

\* Faulty variant of PromotionGate: evidence counts whether captured or not.
PromotionGateUnverified(d, evidence, authoritative) ==
  Cardinality(evidence) >= 2 \/ (authoritative /\ evidence # {})

\* The gate of cmd_promote, with --min-evidence 2; the packet may state the
\* observations it needs.
PromotionGate(d, evidence, authoritative) ==
  \/ Cardinality(evidence \cap S!CaseIds(tree[d])) >= 2
  \/ authoritative /\ evidence # {}

\* cmd_promote: the rule is written first, then the candidate marked.
Promote(p, id, extra, authoritative) ==
  LET d == On[p]
      rule == NextId("rule")
  IN /\ New("rule") /\ id \in DOMAIN tree[d] /\ tree[d][id].rule = Empty
     /\ LET evidence == tree[d][id].evidence \cup extra IN
        /\ PromotionGate(d, evidence, authoritative)
        /\ Writing(p, <<Write(rule, [source |-> id, evidence |-> evidence, authoritative |-> authoritative]),
                        Write(id, [tree[d][id] EXCEPT !.rule = rule])>>)
     /\ made' = [made EXCEPT !["rule"] = @ + 1]
     /\ UNCHANGED <<stores, faults, torn, overtaken>>

\* write_record and update_record
WriteNext(p) ==
  /\ Doing(p, "write") /\ pc[p].todo # <<>>
  /\ LET w == Head(pc[p].todo) IN
     tree' = [tree EXCEPT ![On[p]] = Put(@, [id \in {w.id} |-> w.record])]
  /\ pc' = [pc EXCEPT ![p].todo = Tail(@)]
  /\ UNCHANGED <<head, base, rebasing, remote, lock, made, faults, torn, overtaken>>
\* build_index, and the lock is released
WriteIndex(p) ==
  /\ Doing(p, "write") /\ pc[p].todo = <<>> /\ Release(p)
  /\ UNCHANGED <<stores, made, faults, torn, overtaken>>
\* any of these writes raises: rollback_memory_mutations removes the records
\* created so far, the last one first, then writes the updated ones back.
Created(p) == {id \in DOMAIN pc[p].original : pc[p].original[id] = None}
Left(p) == Created(p) \cap DOMAIN tree[On[p]]
WriteFails(p) ==
  /\ Doing(p, "write") /\ Fault /\ Goto(p, IF Left(p) = {} THEN "restore" ELSE "unlink")
  /\ UNCHANGED <<stores, lock, made, torn, overtaken>>
Unlink(p) ==
  /\ Doing(p, "unlink")
  /\ \E id \in Left(p) :
       /\ id[1] = "candidate" \/ Left(p) = {id}
       /\ tree' = [tree EXCEPT ![On[p]] = Drop(@, {id})]
       /\ Goto(p, IF Left(p) = {id} THEN "restore" ELSE "unlink")
  /\ UNCHANGED <<head, base, rebasing, remote, lock, made, faults, torn, overtaken>>
\* The error of a removal ends the rollback.
UnlinkFails(p) ==
  /\ Doing(p, "unlink") /\ Fault /\ Release(p) /\ UNCHANGED <<stores, made, torn, overtaken>>
\* A record that cannot be written back stays as it is, without an error.
Restore(p) ==
  /\ Doing(p, "restore") /\ Release(p)
  /\ \E lost \in SUBSET (DOMAIN pc[p].original \ Created(p)) :
       /\ tree' = [tree EXCEPT ![On[p]] = Put(@, Drop(pc[p].original, Created(p) \cup lost))]
       /\ IF lost = {} THEN UNCHANGED <<faults, torn, overtaken>> ELSE Fault /\ torn' = torn \cup Created(p)
  /\ UNCHANGED <<head, base, rebasing, remote, made, overtaken>>

\* sync_store: refused while a rebase is stopped; pull needs a clean tree.
Sync(p, mode) ==
  /\ Readable(On[p]) /\ (mode = "pull" => tree[On[p]] = head[On[p]])
  /\ Begins(p, [op |-> IF mode = "pull" THEN "pull" ELSE "commit", mode |-> mode, attempts |-> 0])
  /\ UNCHANGED <<stores, made, faults, torn, overtaken>>
Commit(p) ==
  /\ Doing(p, "commit") /\ head' = [head EXCEPT ![On[p]] = tree[On[p]]]
  /\ Goto(p, IF pc[p].mode = "both" THEN "pull" ELSE "push")
  /\ UNCHANGED <<tree, base, rebasing, remote, lock, made, faults, torn, overtaken>>

\* git pull --rebase: a file both sides changed is a conflict (updated_at is
\* in every record), and stops the rebase.
Changed(d, records) == {id \in DOMAIN records \cup DOMAIN base[d] : Get(records, id) # Get(base[d], id)}
Conflicts(d, theirs) ==
  {id \in Changed(d, head[d]) \cap Changed(d, theirs) : Get(head[d], id) # Get(theirs, id)}
Rebased(d, theirs) ==
  LET mine == Changed(d, head[d]) \ Conflicts(d, theirs)
      dropped == {id \in mine : id \notin DOMAIN head[d]}
  IN Put(Drop(theirs, dropped), [id \in mine \ dropped |-> head[d][id]])
Onto(d, theirs) ==
  /\ tree' = [tree EXCEPT ![d] = Rebased(d, theirs)] /\ head' = [head EXCEPT ![d] = Rebased(d, theirs)]
  /\ base' = [base EXCEPT ![d] = theirs]
Pull(p) ==
  LET d == On[p] IN
  /\ Doing(p, "pull")
  /\ IF Conflicts(d, remote) # {}
     THEN rebasing' = [rebasing EXCEPT ![d] = remote] /\ Release(p) /\ UNCHANGED <<tree, head, base>>
     ELSE /\ Onto(d, remote) /\ UNCHANGED rebasing
          /\ IF pc[p].mode = "pull" THEN Release(p) ELSE Goto(p, "push") /\ UNCHANGED lock
  /\ UNCHANGED <<remote, made, faults, torn, overtaken>>

\* Faulty variant of FastForward: the push is forced.
FastForwardForced(d) == TRUE
\* A push is accepted when the branch is based on the remote's.
FastForward(d) == base[d] = remote
Push(p) ==
  LET d == On[p] IN
  /\ Doing(p, "push") /\ FastForward(d)
  /\ remote' = head[d] /\ base' = [base EXCEPT ![d] = head[d]] /\ Release(p)
  /\ UNCHANGED <<tree, head, rebasing, made, faults, torn, overtaken>>
\* A push is rejected, or the network fails: pull again, up to Retries times.
PushRejected(p) ==
  /\ Doing(p, "push") /\ (IF FastForward(On[p]) THEN Fault ELSE UNCHANGED faults)
  /\ IF pc[p].attempts >= Retries THEN Release(p)
     ELSE pc' = [pc EXCEPT ![p] = [op |-> "pull", mode |-> @.mode, attempts |-> @.attempts + 1]]
          /\ UNCHANGED lock
  /\ UNCHANGED <<stores, made, torn, overtaken>>
PullFails(p) ==
  /\ Doing(p, "pull") /\ Fault /\ Release(p)
  /\ UNCHANGED <<stores, made, torn, overtaken>>

\* The process is killed: its lock file grows stale, what it wrote stays.
Kill(p) ==
  /\ pc[p] # Idle /\ Fault /\ Goes(p, Idle)
  /\ lock' = IF lock[On[p]] = p THEN [lock EXCEPT ![On[p]] = Stale] ELSE lock
  /\ torn' = IF Doing(p, "restore") THEN torn \cup Created(p) ELSE torn
  /\ UNCHANGED <<stores, made, overtaken>>

\* By hand: the stopped rebase is given up, or ended with the published
\* version of the conflicting records.
Abort(d) ==
  /\ rebasing[d] # None /\ rebasing' = [rebasing EXCEPT ![d] = None]
  /\ UNCHANGED <<tree, head, base, remote, lock, pc, made, faults, torn, overtaken>>
Resolve(d) ==
  /\ rebasing[d] # None /\ Onto(d, rebasing[d]) /\ rebasing' = [rebasing EXCEPT ![d] = None]
  /\ UNCHANGED <<remote, lock, pc, made, faults, torn, overtaken>>

Candidates(d) == {id \in DOMAIN tree[d] : id[1] = "candidate"}
Next ==
  \/ \E p \in Procs :
       \/ Enter(p) \/ Look(p) \/ Clear(p) \/ Refuse(p)
       \/ \E nested \in BOOLEAN, reinforce \in SUBSET Candidates(On[p]) : LearnCase(p, nested, reinforce)
       \/ \E evidence \in Packets : LearnCandidate(p, evidence)
       \/ \E id \in Candidates(On[p]), extra \in Packets, a \in BOOLEAN : Promote(p, id, extra, a)
       \/ WriteNext(p) \/ WriteIndex(p) \/ WriteFails(p) \/ Unlink(p) \/ UnlinkFails(p) \/ Restore(p)
       \/ \E mode \in {"pull", "push", "both"} : Sync(p, mode)
       \/ Commit(p) \/ Pull(p) \/ Push(p) \/ PushRejected(p) \/ PullFails(p) \/ Kill(p)
  \/ \E d \in Devices : Abort(d) \/ Resolve(d)
Spec == Init /\ [][Next]_vars
--------------------------------------------------------------------------------
Records(records) ==
  \A id \in DOMAIN records :
    /\ id \in Ids
    /\ CASE id[1] = "case" -> records[id] = "case"
         [] id[1] = "candidate" -> records[id].rule \in Ids \cup {Empty}
         [] id[1] = "rule" -> records[id].source \in Ids

TypeOK ==
  /\ \A d \in Devices : Records(tree[d]) /\ Records(head[d]) /\ Records(base[d])
  /\ Records(remote) /\ lock \in [Devices -> Procs \cup {None, Stale}] /\ overtaken \in BOOLEAN
  /\ \A p \in Procs : pc[p].op \in Entering \/ lock[On[p]] = p \/ overtaken
  /\ torn \subseteq Ids /\ faults \in 0 .. MaxFaults

\* A promoted candidate has its rule, or that was removed by a rollback which
\* then could not restore the candidate.
Linked(records, removed) ==
  \A id \in DOMAIN records :
    id[1] = "candidate" /\ records[id].rule # Empty => records[id].rule \in DOMAIN records \cup removed

\* The records of a device stand up by themselves, over failed writes, kills
\* and merges with other devices: every rule rests on captured cases, and a
\* promoted candidate has its rule, unless a rollback removed the rule and
\* failed or was killed before the candidate was restored
\* (rollback_memory_mutations).  It ends with the removal of the lock file of a
\* process at work.
StoreWhole ==
  ~overtaken =>
    \A d \in Devices :
      /\ S!Founded(tree[d])
      /\ (\A p \in Procs : On[p] = d => ~Doing(p, "restore")) => Linked(tree[d], torn)

\* A rollback takes a promotion back as a whole: once it has ended, no promoted
\* candidate is without its rule (CHANGELOG: "transactional learning/promotion
\* rollback").
RolledBackWhole ==
  \A d \in Devices : (\A p \in Procs : On[p] = d => ~Doing(p, "restore")) => Linked(tree[d], {})

\* The remote branch implements the shared store: what one device published
\* no device takes back, weakens or leaves without its cases, until the lock
\* file of a process at work is removed.
PublishedOnlyGrows == S!Spec
================================================================================
