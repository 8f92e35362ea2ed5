-------------------------- MODULE InstallTransaction --------------------------
(***************************************************************************)
(* The device installer (routecraft_device.py): one process at a time      *)
(* installs, bootstraps or rolls back RouteCraft in CODEX_HOME.  Each      *)
(* write that another process or a restart could observe is a step; any    *)
(* step may raise (an automatic rollback follows) and the process may die  *)
(* between any two of them.  A version stands for the content a release    *)
(* puts in a file or in a cache directory; digests compare contents.       *)
(***************************************************************************)
EXTENDS Integers, Sequences

CONSTANTS AgentOrder,  \* the agent files, in the order install_agents writes them
          Versions,    \* releases the checkout can be at
          MaxTxns,     \* bound: transactions created
          UserFiles,   \* bound: the owned files the user may edit
          Missing,     \* no content, no entry
          Edited,      \* content only the user wrote
          Guarded      \* source-control.json with the source guard enabled

FileOrder == AgentOrder \o <<"device", "srcctl">>
AgentFiles == {AgentOrder[i] : i \in DOMAIN AgentOrder}
OwnedFiles == {FileOrder[i] : i \in DOMAIN FileOrder}
Txns == 1 .. MaxTxns
Content == Versions \cup {Missing, Edited, Guarded}
Sources == {<<"checkout">>} \cup {<<"snapshot", t>> : t \in Txns}
Market == {Missing} \cup Sources
Plugin == {Missing} \cup [v : Versions, from : Sources]

\* the agents have names of their own: no file is written twice
ASSUME InstallAssumption ==
  /\ MaxTxns \in Nat \ {0} /\ Missing \notin Versions \cup {Edited, Guarded} \cup Sources
  /\ Versions \cap {Edited, Guarded} = {}
  /\ AgentOrder \in Seq(AgentFiles)
  /\ \A i, j \in DOMAIN FileOrder : FileOrder[i] = FileOrder[j] => i = j

VARIABLES
  files,    \* owned files of CODEX_HOME: agents, device.json, source-control.json
  market,   \* the registered marketplace
  plugin,   \* the registered plugin, with the marketplace it came from
  cache,    \* versions materialised under the plugin cache
  txns,     \* manifests: sequence of [state, target, pre, post]
  job,      \* the running installer process
  fleet,    \* the fleet section of this device's Decision Store checkout
  shared    \* the fleet section at the memory remote

disk == <<files, market, plugin, cache>>
vars == <<disk, txns, job, fleet, shared>>

Idle == [op |-> "none"]
Capture == [files |-> files, market |-> market, plugin |-> plugin, cache |-> cache]

Init ==
  /\ files = [f \in OwnedFiles |-> Missing] /\ market = Missing /\ plugin = Missing /\ cache = {}
  /\ txns = <<>> /\ job = Idle /\ fleet = Missing /\ shared = Missing

\* inspect_install_state: every required flag is true for version v.
Matches(v, sc) ==
  /\ market = <<"checkout">> /\ plugin = [v |-> v, from |-> <<"checkout">>]
  /\ v \in cache /\ \A f \in AgentFiles \cup {"device"} : files[f] = v
  /\ sc => files["srcctl"] = Guarded

\* _assert_post_state_unchanged: the disk is what the transaction committed.
PostUnchanged(t) ==
  /\ files = txns[t].post.files /\ cache = txns[t].post.cache
  /\ market = <<"checkout">> /\ plugin = [v |-> txns[t].target, from |-> <<"checkout">>]

At(op, s) == job.op = op /\ job.at = s
GoTo(s) == job' = [job EXCEPT !.at = s]
SetState(t, s) == txns' = [txns EXCEPT ![t].state = s]

\* Faulty variant of Begin: a registered plugin of the version is installed.
BeginIfUnregistered(v, sc, boot) ==
  /\ job = Idle /\ Len(txns) < MaxTxns
  /\ job' = IF plugin = Missing \/ plugin.v # v
            THEN [op |-> "apply", at |-> "create", v |-> v, sc |-> sc, boot |-> boot, i |-> 1]
            ELSE IF boot THEN [op |-> "share", at |-> "fleet"] ELSE Idle
  /\ UNCHANGED <<disk, txns, shared>>

\* apply_plugin_transaction up to its plan: a disk that matches is a no-op.
Begin(v, sc, boot) ==
  /\ job = Idle /\ Len(txns) < MaxTxns
  /\ job' = IF ~Matches(v, sc)
            THEN [op |-> "apply", at |-> "create", v |-> v, sc |-> sc, boot |-> boot, i |-> 1]
            ELSE IF boot THEN [op |-> "share", at |-> "fleet"] ELSE Idle
  /\ UNCHANGED <<disk, txns, shared>>

\* `install apply` never manages the source guard; `bootstrap` first clones or
\* pulls the Decision Store and shares the fleet section at its end.
InstallApply(v) == Begin(v, FALSE, FALSE) /\ UNCHANGED fleet
EnsureStore == fleet' = shared
Bootstrap(v, sc) == EnsureStore /\ Begin(v, sc, TRUE)

\* create_install_transaction: nothing is recorded when the backup of a
\* registered plugin cannot be made; a new manifest is PREPARED.
CreateTxn ==
  /\ At("apply", "create")
  /\ IF plugin # Missing /\ (market = Missing \/ plugin.v \notin cache)
     THEN job' = Idle /\ UNCHANGED txns
     ELSE /\ txns' = Append(txns, [state |-> "PREPARED", target |-> job.v,
                                   pre |-> Capture, post |-> Missing])
          /\ GoTo("mark")
  /\ UNCHANGED <<disk, fleet, shared>>

This == Len(txns)

MarkApplying ==
  /\ At("apply", "mark") /\ SetState(This, "APPLYING") /\ GoTo("unplug")
  /\ UNCHANGED <<disk, fleet, shared>>

\* `codex plugin remove` and `marketplace remove`, run with check=False: they
\* may do nothing; removing a plugin may also delete its cache directory.
RemovePlugin ==
  /\ \/ UNCHANGED <<plugin, cache>>
     \/ /\ plugin # Missing /\ plugin' = Missing /\ cache' \in {cache, cache \ {plugin.v}}
  /\ UNCHANGED <<files, market>>
RemoveMarket == market' \in {Missing, market} /\ UNCHANGED <<files, plugin, cache>>
\* `marketplace add` and `plugin add`; the second may not materialise a cache.
AddMarket(m) == market' = m /\ UNCHANGED <<files, plugin, cache>>
AddPlugin(v) ==
  /\ plugin' = [v |-> v, from |-> market] /\ cache' \in {cache, cache \cup {v}}
  /\ UNCHANGED <<files, market>>

\* install_plugin, one registry command at a time.
Unplug == At("apply", "unplug") /\ RemovePlugin /\ GoTo("unmarket") /\ UNCHANGED <<txns, fleet, shared>>
Unmarket == At("apply", "unmarket") /\ RemoveMarket /\ GoTo("market") /\ UNCHANGED <<txns, fleet, shared>>
Remarket == At("apply", "market") /\ AddMarket(<<"checkout">>) /\ GoTo("plugin") /\ UNCHANGED <<txns, fleet, shared>>
Replug == At("apply", "plugin") /\ AddPlugin(job.v) /\ GoTo("agents") /\ UNCHANGED <<txns, fleet, shared>>

WriteFile(f, c) == files' = [files EXCEPT ![f] = c] /\ UNCHANGED <<market, plugin, cache>>

\* install_agents writes one agent after the other; then the cache directory
\* of the version must exist.
WriteAgent ==
  /\ At("apply", "agents")
  /\ IF job.i > Len(AgentOrder)
     THEN job.v \in cache /\ GoTo("device") /\ UNCHANGED disk
     ELSE WriteFile(AgentOrder[job.i], job.v) /\ job' = [job EXCEPT !.i = @ + 1]
  /\ UNCHANGED <<txns, fleet, shared>>

WriteDevice == At("apply", "device") /\ WriteFile("device", job.v) /\ GoTo("srcctl") /\ UNCHANGED <<txns, fleet, shared>>
WriteSrcctl ==
  /\ At("apply", "srcctl") /\ GoTo("commit")
  /\ IF job.sc THEN WriteFile("srcctl", Guarded) ELSE UNCHANGED disk
  /\ UNCHANGED <<txns, fleet, shared>>

\* verification, post-state capture and the COMMITTED manifest
Commit ==
  /\ At("apply", "commit") /\ Matches(job.v, job.sc)
  /\ txns' = [txns EXCEPT ![This].state = "COMMITTED", ![This].post = Capture]
  /\ job' = IF job.boot THEN [op |-> "share", at |-> "fleet"] ELSE Idle
  /\ UNCHANGED <<disk, fleet, shared>>

\* An exception inside the transaction: automatic rollback of this transaction.
ApplyFails ==
  /\ job.op = "apply" /\ job.at # "create"
  /\ job' = [op |-> "undo", at |-> "check", t |-> This, auto |-> TRUE, i |-> 1, old |-> {}]
  /\ UNCHANGED <<disk, txns, fleet, shared>>

\* rollback --transaction-id: starts a manual rollback of any transaction.
Rollback(t) ==
  /\ job = Idle /\ t \in DOMAIN txns
  /\ job' = [op |-> "undo", at |-> "check", t |-> t, auto |-> FALSE, i |-> 1, old |-> {}]
  /\ UNCHANGED <<disk, txns, fleet, shared>>

\* Faulty variant of RollbackAllowed: the disk may have changed since.
RollbackAllowedAnyDisk(t, auto) ==
  txns[t].state \in IF auto THEN {"PREPARED", "APPLYING"} ELSE {"COMMITTED"}

\* rollback_installation: the states it accepts, and the post-state guard of a
\* rollback somebody asked for.
RollbackAllowed(t, auto) ==
  IF auto THEN txns[t].state \in {"PREPARED", "APPLYING"}
  ELSE txns[t].state = "COMMITTED" /\ PostUnchanged(t)

\* the state, the post-state guard and the backups, before the first write
CheckRollback ==
  /\ At("undo", "check") /\ RollbackAllowed(job.t, job.auto) /\ GoTo("files")
  /\ UNCHANGED <<disk, txns, fleet, shared>>

\* Faulty variant of RestoreFile: the last file is left as it is.
RestoreFileShort ==
  /\ At("undo", "files") /\ UNCHANGED <<txns, fleet, shared>>
  /\ IF job.i >= Len(FileOrder) THEN GoTo("unplug") /\ UNCHANGED disk
     ELSE /\ WriteFile(FileOrder[job.i], txns[job.t].pre.files[FileOrder[job.i]])
          /\ job' = [job EXCEPT !.i = @ + 1]

Pre == txns[job.t].pre

\* _restore_file, one owned file after the other; a file that was not there
\* before is removed.
RestoreFile ==
  /\ At("undo", "files")
  /\ IF job.i > Len(FileOrder) THEN GoTo("unplug") /\ UNCHANGED disk
     ELSE /\ WriteFile(FileOrder[job.i], Pre.files[FileOrder[job.i]])
          /\ job' = [job EXCEPT !.i = @ + 1]
  /\ UNCHANGED <<txns, fleet, shared>>

\* _restore_registry: a previous plugin comes back from the snapshot the
\* transaction made, not from its original marketplace.
UndoUnplug == At("undo", "unplug") /\ RemovePlugin /\ GoTo("unmarket") /\ UNCHANGED <<txns, fleet, shared>>
UndoUnmarket == At("undo", "unmarket") /\ RemoveMarket /\ GoTo("market") /\ UNCHANGED <<txns, fleet, shared>>

\* Faulty variant of UndoMarket: the snapshot marketplace is not added.
UndoMarketOnlyPlain ==
  /\ At("undo", "market") /\ GoTo("plugin") /\ UNCHANGED <<txns, fleet, shared>>
  /\ IF Pre.market = Missing \/ Pre.plugin # Missing THEN UNCHANGED disk ELSE AddMarket(Pre.market)

UndoMarket ==
  /\ At("undo", "market") /\ GoTo("plugin")
  /\ IF Pre.market = Missing THEN UNCHANGED disk
     ELSE AddMarket(IF Pre.plugin = Missing THEN Pre.market ELSE <<"snapshot", job.t>>)
  /\ UNCHANGED <<txns, fleet, shared>>
UndoPlugin ==
  /\ At("undo", "plugin") /\ GoTo("verify")
  /\ IF Pre.plugin = Missing THEN UNCHANGED disk ELSE AddPlugin(Pre.plugin.v)
  /\ UNCHANGED <<txns, fleet, shared>>
UndoVerify ==
  /\ At("undo", "verify") /\ GoTo("cacheout")
  /\ (market = Missing) = (Pre.market = Missing) /\ (plugin = Missing) = (Pre.plugin = Missing)
  /\ plugin # Missing => plugin.v = Pre.plugin.v
  /\ UNCHANGED <<disk, txns, fleet, shared>>

\* _restore_cache: the current cache is moved aside, then the staged copy of
\* the backup is moved in; an exception moves the displaced cache back.
CacheOut ==
  /\ At("undo", "cacheout") /\ job' = [job EXCEPT !.at = "cachein", !.old = cache] /\ cache' = {}
  /\ UNCHANGED <<files, market, plugin, txns, fleet, shared>>
CacheIn ==
  /\ At("undo", "cachein") /\ cache' = Pre.cache /\ GoTo("done")
  /\ UNCHANGED <<files, market, plugin, txns, fleet, shared>>
RollbackDone ==
  /\ At("undo", "done") /\ SetState(job.t, IF job.auto THEN "AUTO_ROLLED_BACK" ELSE "ROLLED_BACK")
  /\ job' = Idle /\ UNCHANGED <<disk, fleet, shared>>

\* Any exception of rollback_installation once the manifest is loaded, a
\* refusal included, writes ROLLBACK_FAILED (or fails to). A cache that was
\* displaced is moved back, whole or as far as it was removed; or the removal of
\* the copy that took its place stops half-way, and what is left of that stays.
RollbackFails ==
  /\ job.op = "undo" /\ job' = Idle
  /\ SetState(job.t, "ROLLBACK_FAILED") \/ UNCHANGED txns
  /\ cache' \in IF job.at = "cachein" THEN (SUBSET job.old) \cup (SUBSET Pre.cache) ELSE {cache}
  /\ UNCHANGED <<files, market, plugin, fleet, shared>>

\* bootstrap after the transaction: the sentinel, then sync (pull and push).
ShareFleet ==
  /\ At("share", "fleet") /\ fleet \in {Missing, "own"} /\ fleet' = "own" /\ GoTo("sync")
  /\ UNCHANGED <<disk, txns, shared>>
SyncFleet ==
  /\ At("share", "sync") /\ shared \in {Missing, fleet} /\ shared' = fleet /\ job' = Idle
  /\ UNCHANGED <<disk, txns, fleet>>
ShareFails == job.op = "share" /\ job' = Idle /\ UNCHANGED <<disk, txns, fleet, shared>>

\* The process dies (or is interrupted): nothing it planned happens.
Crash == job # Idle /\ job' = Idle /\ UNCHANGED <<disk, txns, fleet, shared>>

\* The user edits an owned file while no installer runs; another device of
\* the fleet publishes a different fleet section.
UserEdit(f) == job = Idle /\ WriteFile(f, Edited) /\ UNCHANGED <<txns, job, fleet, shared>>
OtherDevice == shared = Missing /\ shared' = "other" /\ UNCHANGED <<disk, txns, job, fleet>>

Work ==
  \/ CreateTxn \/ MarkApplying \/ Unplug \/ Unmarket \/ Remarket \/ Replug \/ WriteAgent
  \/ WriteDevice \/ WriteSrcctl \/ Commit \/ CheckRollback \/ RestoreFile \/ UndoUnplug
  \/ UndoUnmarket \/ UndoMarket \/ UndoPlugin \/ UndoVerify \/ CacheOut \/ CacheIn
  \/ RollbackDone \/ ShareFleet \/ SyncFleet
Failures == ApplyFails \/ RollbackFails \/ ShareFails
Next ==
  \/ Work \/ Failures \/ Crash \/ OtherDevice
  \/ \E v \in Versions : InstallApply(v)
  \/ \E v \in Versions, sc \in BOOLEAN : Bootstrap(v, sc)
  \/ \E t \in Txns : Rollback(t)
  \/ \E f \in UserFiles : UserEdit(f)
InstallSpec == Init /\ [][Next]_vars
-------------------------------------------------------------------------------
Captures == [files : [OwnedFiles -> Content], market : Market, plugin : Plugin, cache : SUBSET Versions]
TxnStates == {"PREPARED", "APPLYING", "COMMITTED", "ROLLED_BACK", "AUTO_ROLLED_BACK", "ROLLBACK_FAILED"}
TxnManifests == [state : TxnStates, target : Versions, pre : Captures, post : Captures \cup {Missing}]

ApplySteps == {"create", "mark", "unplug", "unmarket", "market", "plugin", "agents", "device", "srcctl", "commit"}
UndoSteps == {"check", "files", "unplug", "unmarket", "market", "plugin", "verify", "cacheout", "cachein", "done"}
Jobs ==
  {Idle} \cup [op : {"share"}, at : {"fleet", "sync"}]
  \cup [op : {"apply"}, at : ApplySteps, v : Versions, sc : BOOLEAN, boot : BOOLEAN, i : 1 .. Len(AgentOrder) + 1]
  \cup [op : {"undo"}, at : UndoSteps, t : DOMAIN txns, auto : BOOLEAN, i : 1 .. Len(FileOrder) + 1, old : SUBSET Versions]

TypeOK ==
  /\ files \in [OwnedFiles -> Content] /\ market \in Market /\ plugin \in Plugin /\ cache \subseteq Versions
  /\ txns \in Seq(TxnManifests) /\ Len(txns) <= MaxTxns
  /\ job \in Jobs
  /\ fleet \in {Missing, "own", "other"} /\ shared \in {Missing, "own", "other"}

RolledBack(t) == txns[t].state \in {"ROLLED_BACK", "AUTO_ROLLED_BACK"}

\* A rollback that reports success put back every owned file, the plugin, its
\* version and the plugin cache as they were before the transaction, whatever
\* step of the installation had failed (rollback_installation).
RollbackRestores ==
  [][\A t \in DOMAIN txns : (~RolledBack(t) /\ RolledBack(t)') =>
       LET pre == txns[t].pre IN
       /\ files' = pre.files /\ cache' = pre.cache
       /\ (market' = Missing) = (pre.market = Missing) /\ (plugin' = Missing) = (pre.plugin = Missing)
       /\ plugin' # Missing => plugin'.v = pre.plugin.v]_vars

\* A rollback somebody asks for overwrites nothing but what its transaction
\* committed: no later edit of the user and no newer installation is lost
\* (_assert_post_state_unchanged, taken before the first write).
UndoesOnlyItsOwn ==
  (job.op = "undo" /\ job.at # "check" /\ ~job.auto) =>
    /\ \A i \in job.i .. Len(FileOrder) :
         files[FileOrder[i]] = txns[job.t].post.files[FileOrder[i]]
    /\ job.at = "files" => PostUnchanged(job.t) \/ job.i > 1

\* This device publishes fleet metadata only while its own installation is
\* whole (bootstrap: the sentinel is touched after the transaction committed).
FleetAfterInstall ==
  [][(shared' # shared /\ job' # job) => \E v \in Versions : Matches(v, FALSE)]_vars

\* Together: what a command reports, to its user or to the fleet, is on the disk.
ReportsTrue == RollbackRestores /\ FleetAfterInstall
===============================================================================
