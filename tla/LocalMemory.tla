------------------------------ MODULE LocalMemory ------------------------------
(***************************************************************************)
(* Memory Local (routecraft_local/service.py): the memories of one project *)
(* in a SQLite database, imports of files, packages and the Decision Store *)
(* into it, deletion, backup and restore, and the migration of both stores *)
(* to Praxis Memory (praxis_memory/store.py).  Every transaction takes the *)
(* operation lock; a restore and a deleted project hold it over several    *)
(* steps.  A killed process leaves no lock, as the system frees it.        *)
(***************************************************************************)
EXTENDS Integers, FiniteSets

CONSTANTS Procs, Refs,  \* processes, and ids of the Decision Store's records
          Files,        \* the import files: sets of records with an id or None
          MaxRows,      \* bound: memory ids made
          MaxVersion,   \* bound: contents of one record of the Decision Store
          MaxArchives,  \* bound: backups and safety copies made
          MaxKills,     \* bound: killed processes and failed activations
          None

ASSUME LocalAssumption ==
  /\ None \notin Procs \cup Refs /\ None \notin Int
  /\ MaxRows \in Nat /\ MaxVersion \in Nat /\ MaxArchives \in Nat /\ MaxKills \in Nat
  /\ \A f \in Files :
       /\ f \subseteq [id : Int \cup {None}, ref : Refs \cup {None}, hash : Nat]
       /\ \A r1, r2 \in f : r1.id = None /\ r2.id = None => r1 = r2

VARIABLES
  db,         \* the database: [project, rows]
  conflicts,  \* import_conflicts: [ref, old, new]
  archives,   \* backups and safety packages: [kind, data]
  oplock,     \* the process that holds the operation lock over several steps
  pc,         \* what each process is doing
  store,      \* the Decision Store's records: ref -> content, 0 for none
  praxis,     \* Praxis Memory: the records, [identity, hash]
  made, kills,
  written,    \* history: ids of the memories ever committed
  deleted,    \* history: ids of the memories deleted one by one
  raced       \* history: refs inserted twice by overlapping imports

vars == <<db, conflicts, archives, oplock, pc, store, praxis, made, kills, written, deleted, raced>>

Idle == [op |-> "idle"]
Row(id, ref, hash) == [id |-> id, ref |-> ref, hash |-> hash]
IdsOf(rows) == {r.id : r \in rows}
Doing(p, op) == pc[p].op = op
Goto(p, command) == pc' = [pc EXCEPT ![p] = command]

Init ==
  /\ db = [project |-> TRUE, rows |-> {}] /\ conflicts = {} /\ archives = {} /\ oplock = None
  /\ pc = [p \in Procs |-> Idle] /\ store = [r \in Refs |-> 0] /\ praxis = {}
  /\ made = 0 /\ kills = 0 /\ written = {} /\ deleted = {} /\ raced = {}

\* Faulty variant of Free: a transaction looks at SQLite's own lock only.
FreeAlways(p) == TRUE

\* Database.connect: a transaction waits for the operation lock.
Free(p) == oplock \in {None, p}

\* A transaction that leaves these memories.
Commits(p, rows) ==
  /\ Free(p) /\ db' = [db EXCEPT !.rows = rows] /\ written' = written \cup IdsOf(rows)
\* the rows a record meets: by its id, else by its source reference
ById(rows, id) == {r \in rows : r.id = id}
ByRef(rows, ref) == {r \in rows : ref # None /\ r.ref = ref}
\* Faulty variant of Existing: only ids are looked up.
ExistingById(rows, record) == ById(rows, record.id)
Existing(rows, record) ==
  IF ById(rows, record.id) # {} THEN ById(rows, record.id) ELSE ByRef(rows, record.ref)
Met(rows, record) == CHOOSE r \in Existing(rows, record) : TRUE
Fresh(rows, records) == {r \in records : Existing(rows, r) = {}}
Differing(rows, records) ==
  {[ref |-> r.ref, old |-> Met(rows, r).hash, new |-> r.hash] :
     r \in {x \in records : Existing(rows, x) # {} /\ Met(rows, x).hash # x.hash}}

\* _prepare_memory: a record without an id gets a new one.
Prepared(records) == {IF r.id = None THEN [r EXCEPT !.id = made + 1] ELSE r : r \in records}

\* import_file: one transaction; what differs from a memory is a conflict.  A
\* file that states an id or a reference twice is refused, and none states an
\* id that is yet to be made here.
StatedOnce(file) ==
  \A r1, r2 \in file :
    (r1.id # None /\ r1.id = r2.id) \/ (r1.ref # None /\ r1.ref = r2.ref) => r1 = r2
ImportFile(p, file) ==
  /\ pc[p] = Idle /\ db.project /\ StatedOnce(file) /\ \A r \in file : r.id \notin made + 1 .. MaxRows
  /\ made' = (IF \E r \in file : r.id = None THEN made + 1 ELSE made) /\ made' <= MaxRows
  /\ Commits(p, db.rows \cup Fresh(db.rows, Prepared(file)))
  /\ conflicts' = conflicts \cup Differing(db.rows, Prepared(file))
  /\ UNCHANGED <<archives, oplock, pc, store, praxis, kills, deleted, raced>>

\* import_project_package: a project that is there is a conflict, unless
\* conflict = "skip"; one that is not is created.
ImportPackage(p, package, skip) ==
  /\ pc[p] = Idle /\ package \in archives /\ package.kind = "package" /\ Free(p)
  /\ IF db.project /\ ~skip
     THEN conflicts' = conflicts \cup {[ref |-> None, old |-> 0, new |-> 0]} /\ UNCHANGED <<db, written>>
     ELSE LET rows == Fresh(db.rows, package.data.rows) IN
          /\ db' = [project |-> TRUE, rows |-> db.rows \cup rows] /\ written' = written \cup IdsOf(rows)
          /\ conflicts' = conflicts \cup Differing(db.rows, package.data.rows)
  /\ UNCHANGED <<archives, oplock, pc, store, praxis, made, kills, deleted, raced>>

\* import_routecraft_store: file by file; one transaction looks the record up
\* by its reference, another inserts it or its conflict.
ImportStore(p) ==
  /\ pc[p] = Idle /\ db.project /\ Goto(p, [op |-> "files", todo |-> {r \in Refs : store[r] # 0}])
  /\ UNCHANGED <<db, conflicts, archives, oplock, store, praxis, made, kills, written, deleted, raced>>
CheckFile(p) ==
  /\ Doing(p, "files") /\ Free(p)
  /\ IF pc[p].todo = {} THEN Goto(p, Idle)
     ELSE \E ref \in pc[p].todo :
            LET met == ByRef(db.rows, ref)
                rest == pc[p].todo \ {ref}
                hash == store[ref]
            IN IF met = {} THEN Goto(p, [op |-> "add", todo |-> rest, ref |-> ref, hash |-> hash])
               ELSE \E r \in met :
                      Goto(p, IF r.hash = hash THEN [op |-> "files", todo |-> rest]
                              ELSE [op |-> "conflict", todo |-> rest, new |-> [ref |-> ref, old |-> r.hash, new |-> hash]])
  /\ UNCHANGED <<db, conflicts, archives, oplock, store, praxis, made, kills, written, deleted, raced>>
AddFile(p) ==
  /\ Doing(p, "add") /\ made < MaxRows
  /\ IF db.project
     THEN /\ Commits(p, db.rows \cup {Row(made + 1, pc[p].ref, pc[p].hash)}) /\ made' = made + 1
          /\ raced' = IF ByRef(db.rows, pc[p].ref) # {} THEN raced \cup {pc[p].ref} ELSE raced
          /\ Goto(p, [op |-> "files", todo |-> pc[p].todo])
     ELSE Goto(p, Idle) /\ UNCHANGED <<db, made, written, raced>>
  /\ UNCHANGED <<conflicts, archives, oplock, store, praxis, kills, deleted>>
AddConflict(p) ==
  /\ Doing(p, "conflict") /\ Free(p) /\ conflicts' = conflicts \cup {pc[p].new}
  /\ Goto(p, [op |-> "files", todo |-> pc[p].todo])
  /\ UNCHANGED <<db, archives, oplock, store, praxis, made, kills, written, deleted, raced>>

\* delete_memory, confirmed
DeleteMemory(p, r) ==
  /\ pc[p] = Idle /\ r \in db.rows /\ Commits(p, db.rows \ {r}) /\ deleted' = deleted \cup {r.id}
  /\ UNCHANGED <<conflicts, archives, oplock, pc, store, praxis, made, kills, raced>>

\* backup, and export_project_package
Archive(kind) == archives' = archives \cup {[kind |-> kind, data |-> db]} /\ Cardinality(archives') <= MaxArchives
Backup(p) ==
  /\ pc[p] = Idle /\ Free(p) /\ Archive("backup")
  /\ UNCHANGED <<db, conflicts, oplock, pc, store, praxis, made, kills, written, deleted, raced>>
ExportPackage(p) ==
  /\ pc[p] = Idle /\ Free(p) /\ db.project /\ Archive("package")
  /\ UNCHANGED <<db, conflicts, oplock, pc, store, praxis, made, kills, written, deleted, raced>>

\* delete_project: under the lock, a safety copy and then the deletion.
DeleteProject(p) ==
  /\ pc[p] = Idle /\ oplock = None /\ db.project /\ Archive("package")
  /\ oplock' = p /\ Goto(p, [op |-> "delete"])
  /\ UNCHANGED <<db, conflicts, store, praxis, made, kills, written, deleted, raced>>
DropProject(p) ==
  /\ Doing(p, "delete") /\ db' = [project |-> FALSE, rows |-> {}] /\ oplock' = None /\ Goto(p, Idle)
  /\ UNCHANGED <<conflicts, archives, store, praxis, made, kills, written, deleted, raced>>

\* restore: the archive is staged and verified; under the lock the database
\* is backed up, replaced, and initialised; a failure puts it back, and if
\* that fails too the backup is retained.
Restore(p, archive) ==
  /\ pc[p] = Idle /\ archive \in archives /\ archive.kind = "backup"
  /\ Goto(p, [op |-> "staged", data |-> archive.data])
  /\ UNCHANGED <<db, conflicts, archives, oplock, store, praxis, made, kills, written, deleted, raced>>
BackupBefore(p) ==
  /\ Doing(p, "staged") /\ oplock = None /\ oplock' = p /\ Archive("backup")
  /\ Goto(p, [op |-> "replace", data |-> pc[p].data, previous |-> db])
  /\ UNCHANGED <<db, conflicts, store, praxis, made, kills, written, deleted, raced>>
Replace(p) ==
  /\ Doing(p, "replace") /\ db' = pc[p].data /\ pc' = [pc EXCEPT ![p].op = "activate"]
  /\ UNCHANGED <<conflicts, archives, oplock, store, praxis, made, kills, written, deleted, raced>>
Activate(p) ==
  /\ Doing(p, "activate") /\ oplock' = None /\ Goto(p, Idle)
  /\ UNCHANGED <<db, conflicts, archives, store, praxis, made, kills, written, deleted, raced>>
ActivateFails(p) ==
  /\ Doing(p, "activate") /\ kills < MaxKills /\ kills' = kills + 1
  /\ db' \in {pc[p].previous, db} /\ oplock' = None /\ Goto(p, Idle)
  /\ UNCHANGED <<conflicts, archives, store, praxis, made, written, deleted, raced>>

\* migrate_from_routecraft_local and migrate_from_decision_store: the source
\* is read first; then one transaction inserts what Praxis does not know.
FromLocal == {[identity |-> <<"local", r.id>>, hash |-> r.hash] : r \in db.rows}
FromStore == {[identity |-> <<"store", r>>, hash |-> store[r]] : r \in {x \in Refs : store[x] # 0}}
Migrate(p, candidates) ==
  /\ pc[p] = Idle /\ Goto(p, [op |-> "migrate", candidates |-> candidates])
  /\ UNCHANGED <<db, conflicts, archives, oplock, store, praxis, made, kills, written, deleted, raced>>
Known(identity) == \E x \in praxis : x.identity = identity
MigrateApply(p) ==
  /\ Doing(p, "migrate") /\ Goto(p, Idle)
  /\ praxis' = praxis \cup {x \in pc[p].candidates : ~Known(x.identity)}
  /\ conflicts' = conflicts \cup
       {[ref |-> x.identity, old |-> (CHOOSE y \in praxis : y.identity = x.identity).hash, new |-> x.hash] :
          x \in {c \in pc[p].candidates : Known(c.identity) /\ c \notin praxis}}
  /\ UNCHANGED <<db, archives, oplock, store, made, kills, written, deleted, raced>>

Kill(p) ==
  /\ pc[p] # Idle /\ kills < MaxKills /\ kills' = kills + 1 /\ Goto(p, Idle)
  /\ oplock' = IF oplock = p THEN None ELSE oplock
  /\ UNCHANGED <<db, conflicts, archives, store, praxis, made, written, deleted, raced>>

\* the Decision Store is written by others
StoreChanges(r) ==
  /\ store[r] < MaxVersion /\ store' = [store EXCEPT ![r] = @ + 1]
  /\ UNCHANGED <<db, conflicts, archives, oplock, pc, praxis, made, kills, written, deleted, raced>>

Next ==
  \/ \E p \in Procs :
       \/ \E file \in Files : ImportFile(p, file)
       \/ \E a \in archives : Restore(p, a) \/ \E skip \in BOOLEAN : ImportPackage(p, a, skip)
       \/ \E r \in db.rows : DeleteMemory(p, r)
       \/ ImportStore(p) \/ CheckFile(p) \/ AddFile(p) \/ AddConflict(p)
       \/ Backup(p) \/ ExportPackage(p) \/ DeleteProject(p) \/ DropProject(p)
       \/ BackupBefore(p) \/ Replace(p) \/ Activate(p) \/ ActivateFails(p)
       \/ Migrate(p, FromLocal) \/ Migrate(p, FromStore) \/ MigrateApply(p) \/ Kill(p)
  \/ \E r \in Refs : StoreChanges(r)
Spec == Init /\ [][Next]_vars
--------------------------------------------------------------------------------
\* Nothing that was committed is gone: a memory is in the database, in a
\* backup or a safety copy, or was deleted by name; over restores, deleted
\* projects, failed activations and kills at any step, while others write.
NothingLost ==
  /\ written \subseteq IdsOf(db.rows) \cup deleted \cup UNION {IdsOf(a.data.rows) : a \in archives}
  /\ IdsOf(db.rows) \subseteq written

\* Imports repeated after a kill, a restore or a changed source add a record
\* once: one memory per source reference, unless two imports overlapped, and
\* one Praxis record per identity.
ImportedOnce ==
  /\ \A r1, r2 \in db.rows : (r1.ref = r2.ref /\ r1.ref \notin raced \cup {None}) => r1 = r2
  /\ \A x, y \in praxis : x.identity = y.identity => x = y
================================================================================
