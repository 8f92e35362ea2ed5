------------------------------- MODULE LocalProofs -------------------------------
(***************************************************************************)
(* Memory Local loses no memory and imports each record once, for every    *)
(* number of processes, records, archives and kills; and what the Unified  *)
(* Collector delivers is coherent, backed and whole.                       *)
(***************************************************************************)
EXTENDS LocalMemory, Collector, SequenceTheorems, FiniteSetTheorems, TLAPS

\* Ids of Local's own making are counted; each id and each reference is there
\* once, references as far as no imports overlapped.
Listed(rows, count, overlapped) ==
  /\ \A r \in rows : r.id \in Int /\ (r.id \in 1 .. MaxRows => r.id <= count)
  /\ \A r1, r2 \in rows : r1.id = r2.id => r1 = r2
  /\ \A r1, r2 \in rows : r1.ref = r2.ref /\ r1.ref \notin overlapped \cup {None} => r1 = r2
\* A database that the process may meet again.
Sound(data, count, overlapped, ever) ==
  DOMAIN data = {"project", "rows"} /\ Listed(data.rows, count, overlapped) /\ IdsOf(data.rows) \subseteq ever

Archived(kept) == UNION {IdsOf(a.data.rows) : a \in kept}
LockedOps == {"delete", "replace", "activate"}
SetsOnce(candidates) == \A x, y \in candidates : x.identity = y.identity => x = y

\* What a process holds between its steps; under the operation lock all that
\* was ever written is archived or was deleted by name.
Holds(p, c) ==
  /\ c.op \in LockedOps => oplock = p /\ written \subseteq deleted \cup Archived(archives)
  /\ c.op \in {"files", "add", "conflict"} => c.todo \subseteq Refs
  /\ c.op = "add" => c.ref \in Refs
  /\ c.op = "staged" => Sound(c.data, made, raced, written)
  /\ c.op \in {"replace", "activate"} =>
       /\ DOMAIN c = {"op", "data", "previous"}
       /\ Sound(c.data, made, raced, written) /\ Sound(c.previous, made, raced, written)
  /\ c.op = "migrate" => SetsOnce(c.candidates)
LInv ==
  /\ made \in 0 .. MaxRows /\ DOMAIN pc = Procs
  /\ Sound(db, made, raced, written)
  /\ \A a \in archives : Sound(a.data, made, raced, written)
  /\ \A p \in Procs : Holds(p, pc[p])
  /\ written \subseteq IdsOf(db.rows) \cup deleted \cup Archived(archives)
  /\ SetsOnce(praxis)

(***************************************************************************)
(* Rows that are listed once stay so.                                      *)
(***************************************************************************)
LEMMA SoundLater ==
  ASSUME NEW count \in Int, NEW later \in Int, count <= later,
         NEW overlapped, NEW more, overlapped \subseteq more, NEW ever, NEW now, ever \subseteq now,
         NEW data, Sound(data, count, overlapped, ever)
  PROVE  Sound(data, later, more, now)
BY DEF Sound, Listed, IdsOf

LEMMA FreshListed ==
  ASSUME NEW count \in Int, NEW overlapped, NEW rows, NEW records,
         Listed(rows, count, overlapped), Listed(records, count, overlapped)
  PROVE  Listed(rows \cup Fresh(rows, records), count, overlapped)
<1>1. Fresh(rows, records) \subseteq records
  BY DEF Fresh
<1>2. ASSUME NEW r \in Fresh(rows, records), NEW x \in rows
      PROVE  r.id # x.id /\ (r.ref = x.ref => r.ref = None)
  BY DEF Fresh, Existing, ById, ByRef
<1> QED
  BY <1>1, <1>2 DEF Listed

LEMMA SoundNow ==
  ASSUME LInv, NEW count \in Int, made <= count, NEW more, raced \subseteq more,
         NEW now, written \subseteq now
  PROVE  /\ Sound(db, count, more, now)
         /\ \A a \in archives : Sound(a.data, count, more, now)
BY SoundLater DEF LInv

\* Every step: what it may change, and what it may leave another process.
LEMMA LStep ==
  ASSUME LInv, NEW p \in Procs,
         made' \in 0 .. MaxRows, made <= made', raced \subseteq raced', written \subseteq written',
         deleted \subseteq deleted', archives \subseteq archives',
         DOMAIN pc' = Procs, \A q \in Procs : q # p => pc'[q] = pc[q],
         oplock' = oplock \/ oplock \in {None, p}, written' = written \/ oplock \in {None, p},
         Sound(db', made', raced', written'),
         \A a \in archives' \ archives : Sound(a.data, made', raced', written'),
         Holds(p, pc[p])',
         written' \subseteq IdsOf(db'.rows) \cup deleted' \cup Archived(archives'),
         SetsOnce(praxis')
  PROVE  LInv'
<1>1. made \in Int /\ made' \in Int
  BY LocalAssumption DEF LInv
<1>2. \A data : Sound(data, made, raced, written) => Sound(data, made', raced', written')
  BY <1>1, SoundLater
<1>3. \A a \in archives' : Sound(a.data, made', raced', written')
  BY <1>2 DEF LInv
<1>4. Archived(archives) \subseteq Archived(archives')
  BY DEF Archived
<1>5. ASSUME NEW q \in Procs, q # p
      PROVE  Holds(q, pc[q])'
  <2>1. Holds(q, pc[q]) /\ pc'[q] = pc[q]
    BY <1>5 DEF LInv
  <2>2. pc[q].op \in LockedOps => oplock' = q /\ written' \subseteq deleted' \cup Archived(archives')
    BY <1>4, <1>5, <2>1, LocalAssumption DEF Holds
  <2> QED
    BY <1>2, <2>1, <2>2 DEF Holds
<1>6. \A q \in Procs : Holds(q, pc[q])'
  BY <1>5
<1> QED
  BY <1>3, <1>6 DEF LInv

\* A step after which the process is idle or unchanged, of the database only.
LEMMA IdleHolds ==
  ASSUME NEW p \in Procs, pc'[p] = Idle
  PROVE  Holds(p, pc[p])'
BY DEF Holds, Idle, LockedOps

LEMMA Went ==
  ASSUME LInv, NEW p \in Procs, NEW command, Goto(p, command)
  PROVE  DOMAIN pc' = Procs /\ pc'[p] = command /\ \A q \in Procs : q # p => pc'[q] = pc[q]
BY DEF LInv, Goto

(***************************************************************************)
(* Imports and deletions.                                                  *)
(***************************************************************************)
LEMMA PreparedListed ==
  ASSUME LInv, NEW file \in Files, StatedOnce(file), NEW count \in 0 .. MaxRows, made <= count,
         \A r \in file : r.id \notin made + 1 .. MaxRows,
         (\E r \in file : r.id = None) => count = made + 1
  PROVE  Listed(Prepared(file), count, raced)
<1> DEFINE P(r) == IF r.id = None THEN [r EXCEPT !.id = made + 1] ELSE r
<1>1. made \in Nat /\ MaxRows \in Nat /\ None \notin Int
  BY LocalAssumption DEF LInv
<1>2. ASSUME NEW r \in file
      PROVE  /\ r \in [id : Int \cup {None}, ref : Refs \cup {None}, hash : Nat]
             /\ P(r).ref = r.ref
             /\ P(r).id = IF r.id = None THEN made + 1 ELSE r.id
             /\ r.id = None => made + 1 = count
             /\ P(r).id \in Int /\ (P(r).id \in 1 .. MaxRows => r.id = None \/ r.id <= made)
  BY <1>1, <1>2, LocalAssumption
<1>3. \A r \in file : P(r).id \in 1 .. MaxRows => P(r).id <= count
  BY <1>1, <1>2
<1>4. ASSUME NEW r1 \in file, NEW r2 \in file, P(r1).id = P(r2).id
      PROVE  r1 = r2
  <2>1. made + 1 \in 1 .. MaxRows \/ (r1.id # None /\ r2.id # None)
    BY <1>1, <1>2
  <2>2. r1.id = None <=> r2.id = None
    BY <1>1, <1>2, <1>4, <2>1
  <2> QED
    BY <1>2, <1>4, <2>2, LocalAssumption DEF StatedOnce
<1>5. ASSUME NEW r1 \in file, NEW r2 \in file, P(r1).ref = P(r2).ref, P(r1).ref # None
      PROVE  r1 = r2
  BY <1>2, <1>5 DEF StatedOnce
<1>6. Prepared(file) = {P(r) : r \in file}
  BY DEF Prepared
<1> HIDE DEF P
<1> QED
  BY <1>2, <1>3, <1>4, <1>5, <1>6 DEF Listed

LEMMA ImportFileStep ==
  ASSUME LInv, NEW p \in Procs, NEW file \in Files, ImportFile(p, file)
  PROVE  LInv'
<1> DEFINE rows == db.rows \cup Fresh(db.rows, Prepared(file))
<1>1. /\ pc[p] = Idle /\ StatedOnce(file) /\ (\A r \in file : r.id \notin made + 1 .. MaxRows) /\ made \in 0 .. MaxRows /\ made' \in 0 .. MaxRows /\ made <= made'
      /\ (\E r \in file : r.id = None) => made' = made + 1
  BY LocalAssumption DEF ImportFile, LInv
<1>2. Commits(p, rows)
  BY DEF ImportFile
<1>3. Listed(Prepared(file), made', raced)
  BY <1>1, PreparedListed
<1>4. Sound(db, made', raced, written)
  BY <1>1, SoundNow, LocalAssumption
<1>5. Listed(rows, made', raced)
  BY <1>1, <1>3, <1>4, FreshListed, LocalAssumption DEF Sound
<1> HIDE DEF rows
<1>6. db' = [db EXCEPT !.rows = rows] /\ written' = written \cup IdsOf(rows) /\ oplock \in {None, p}
  BY <1>2 DEF Commits, Free
<1>7. db'.rows = rows /\ DOMAIN db' = {"project", "rows"}
  BY <1>4, <1>6 DEF Sound
<1>8. Sound(db', made', raced, written')
  BY <1>5, <1>6, <1>7 DEF Sound
<1>9. db.rows \subseteq rows
  BY DEF rows
<1>10. written' \subseteq IdsOf(db'.rows) \cup deleted \cup Archived(archives)
  BY <1>6, <1>7, <1>9 DEF LInv, IdsOf
<1>11. DOMAIN pc' = Procs /\ pc' = pc /\ oplock' = oplock /\ archives' = archives /\ deleted' = deleted
       /\ raced' = raced /\ praxis' = praxis
  BY DEF ImportFile, LInv
<1>12. Holds(p, pc[p])'
  BY <1>1, <1>11, IdleHolds
<1> QED
  BY <1>1, <1>6, <1>8, <1>10, <1>11, <1>12, LStep DEF LInv

LEMMA ImportPackageStep ==
  ASSUME LInv, NEW p \in Procs, NEW package \in archives, NEW skip \in BOOLEAN,
         ImportPackage(p, package, skip)
  PROVE  LInv'
<1>1. /\ pc[p] = Idle /\ pc' = pc /\ oplock' = oplock /\ archives' = archives /\ deleted' = deleted
      /\ raced' = raced /\ praxis' = praxis /\ made' = made /\ oplock \in {None, p}
      /\ made \in 0 .. MaxRows /\ made \in Int /\ DOMAIN pc = Procs
  BY LocalAssumption DEF ImportPackage, Free, LInv
<1>2. Holds(p, pc[p])'
  BY <1>1, IdleHolds
<1>3. CASE db' = db /\ written' = written
  BY <1>1, <1>2, <1>3, LStep DEF LInv
<1>4. CASE ~(db.project /\ ~skip)
  <2> DEFINE fresh == Fresh(db.rows, package.data.rows)
             rows == db.rows \cup fresh
  <2>1. db' = [project |-> TRUE, rows |-> rows] /\ written' = written \cup IdsOf(fresh)
    BY <1>4 DEF ImportPackage
  <2>2. Listed(rows, made, raced)
    BY <1>1, FreshListed DEF LInv, Sound
  <2>3. IdsOf(rows) = IdsOf(db.rows) \cup IdsOf(fresh)
    BY DEF IdsOf
  <2> HIDE DEF fresh, rows
  <2>4. Sound(db', made, raced, written')
    BY <2>1, <2>2, <2>3 DEF Sound, LInv
  <2>5. written' \subseteq IdsOf(db'.rows) \cup deleted \cup Archived(archives)
    BY <2>1, <2>3 DEF LInv
  <2>6. /\ Sound(db', made', raced', written') /\ written \subseteq written' /\ SetsOnce(praxis')
        /\ written' \subseteq IdsOf(db'.rows) \cup deleted' \cup Archived(archives') /\ made <= made'
    BY <1>1, <2>1, <2>4, <2>5 DEF LInv
  <2>7. archives' \ archives = {} /\ made' \in 0 .. MaxRows /\ DOMAIN pc' = Procs
    BY <1>1
  <2> QED
    BY <1>1, <1>2, <2>6, <2>7, LStep
<1> QED
  BY <1>3, <1>4 DEF ImportPackage

LEMMA DeleteMemoryStep ==
  ASSUME LInv, NEW p \in Procs, NEW r \in db.rows, DeleteMemory(p, r)
  PROVE  LInv'
<1> DEFINE rows == db.rows \ {r}
<1>1. /\ pc[p] = Idle /\ pc' = pc /\ oplock' = oplock /\ archives' = archives /\ deleted' = deleted \cup {r.id}
      /\ raced' = raced /\ praxis' = praxis /\ made' = made /\ oplock \in {None, p}
      /\ db' = [db EXCEPT !.rows = rows] /\ written' = written \cup IdsOf(rows)
      /\ made \in 0 .. MaxRows /\ DOMAIN pc = Procs
  BY DEF DeleteMemory, Commits, Free, LInv
<1>2. Sound(db, made, raced, written)
  BY DEF LInv
<1>3. Listed(rows, made, raced) /\ IdsOf(rows) \subseteq written /\ IdsOf(db.rows) \subseteq IdsOf(rows) \cup {r.id}
  BY <1>2 DEF Sound, Listed, IdsOf
<1>4. db'.rows = rows /\ DOMAIN db' = {"project", "rows"} /\ written' = written
  BY <1>1, <1>2, <1>3 DEF Sound
<1>5. Sound(db', made, raced, written)
  BY <1>3, <1>4 DEF Sound
<1>6. written' \subseteq IdsOf(db'.rows) \cup deleted' \cup Archived(archives)
  BY <1>1, <1>3, <1>4 DEF LInv
<1>7. Holds(p, pc[p])'
  BY <1>1, IdleHolds
<1>8. Sound(db', made', raced', written') /\ SetsOnce(praxis')
  BY <1>1, <1>4, <1>5 DEF LInv
<1>10. deleted \subseteq deleted' /\ written' \subseteq IdsOf(db'.rows) \cup deleted' \cup Archived(archives')
  BY <1>1, <1>6
<1>11. made <= made'
  BY <1>1
<1>9. archives' \ archives = {} /\ made' \in 0 .. MaxRows /\ DOMAIN pc' = Procs
  BY <1>1
<1> QED
  BY <1>1, <1>4, <1>7, <1>8, <1>9, <1>10, <1>11, LStep


\* A step that leaves the database and what was ever written alone, and may
\* add a copy of the database to the archives.
LEMMA QuietStep ==
  ASSUME LInv, NEW p \in Procs, UNCHANGED <<db, made, raced, written, deleted>>,
         archives' = archives \/ (\E kind : Archive(kind)),
         DOMAIN pc' = Procs, \A q \in Procs : q # p => pc'[q] = pc[q],
         oplock' = oplock \/ oplock \in {None, p}, Holds(p, pc[p])', SetsOnce(praxis')
  PROVE  LInv'
<1>1. made \in 0 .. MaxRows /\ made <= made' /\ made' \in 0 .. MaxRows
  BY LocalAssumption DEF LInv
<1>2. archives \subseteq archives' /\ \A a \in archives' \ archives : a.data = db
  BY DEF Archive
<1>3. Sound(db', made', raced', written') /\ \A a \in archives' \ archives : Sound(a.data, made', raced', written')
  BY <1>2 DEF LInv
<1>4. written' \subseteq IdsOf(db'.rows) \cup deleted' \cup Archived(archives')
  BY <1>2 DEF LInv, Archived
<1> QED
  BY <1>1, <1>2, <1>3, <1>4, LStep

LEMMA StoreStep ==
  ASSUME LInv, NEW p \in Procs, ImportStore(p) \/ CheckFile(p) \/ AddConflict(p)
  PROVE  LInv'
<1>1. /\ UNCHANGED <<db, made, raced, written, deleted>> /\ archives' = archives /\ oplock' = oplock
      /\ praxis' = praxis /\ DOMAIN pc = Procs /\ SetsOnce(praxis')
  BY DEF ImportStore, CheckFile, AddConflict, LInv
<1>2. Holds(p, pc[p])
  BY DEF LInv
<1>3. \E command : Goto(p, command)
  BY DEF ImportStore, CheckFile, AddConflict
<1>4. DOMAIN pc' = Procs /\ \A q \in Procs : q # p => pc'[q] = pc[q]
  BY <1>3, Went
<1>5. CASE ImportStore(p)
  <2>1. pc'[p] = [op |-> "files", todo |-> {r \in Refs : store[r] # 0}]
    BY <1>5, Went DEF ImportStore
  <2>2. Holds(p, pc[p])'
    BY <2>1 DEF Holds, LockedOps
  <2> QED
    BY <1>1, <1>4, <2>2, QuietStep
<1>6. CASE CheckFile(p)
  <2>1. pc[p].todo \subseteq Refs
    BY <1>2, <1>6 DEF CheckFile, Doing, Holds
  <2> DEFINE Follows(command) ==
               \/ command = Idle
               \/ command.op \in {"files", "add", "conflict"} /\ command.todo \subseteq Refs
                  /\ (command.op = "add" => command.ref \in Refs)
  <2>2. \E command : Goto(p, command) /\ Follows(command)
    <3>1. CASE pc[p].todo = {}
      BY <1>6, <3>1 DEF CheckFile
    <3>2. CASE pc[p].todo # {}
      <4>1. PICK ref \in pc[p].todo :
              \/ Goto(p, [op |-> "add", todo |-> pc[p].todo \ {ref}, ref |-> ref, hash |-> store[ref]])
              \/ Goto(p, [op |-> "files", todo |-> pc[p].todo \ {ref}])
              \/ \E r : Goto(p, [op |-> "conflict", todo |-> pc[p].todo \ {ref},
                                 new |-> [ref |-> ref, old |-> r.hash, new |-> store[ref]]])
        BY <1>6, <3>2 DEF CheckFile
      <4>2. ref \in Refs /\ pc[p].todo \ {ref} \subseteq Refs
        BY <2>1
      <4>3. CASE Goto(p, [op |-> "add", todo |-> pc[p].todo \ {ref}, ref |-> ref, hash |-> store[ref]])
        BY <4>2, <4>3
      <4>4. CASE Goto(p, [op |-> "files", todo |-> pc[p].todo \ {ref}])
        BY <4>2, <4>4
      <4>5. CASE \E r : Goto(p, [op |-> "conflict", todo |-> pc[p].todo \ {ref},
                                 new |-> [ref |-> ref, old |-> r.hash, new |-> store[ref]]])
        BY <4>2, <4>5
      <4> QED
        BY <4>1, <4>3, <4>4, <4>5
    <3> QED
      BY <3>1, <3>2
  <2>3. Holds(p, pc[p])'
    <3>1. PICK command : Goto(p, command) /\ Follows(command)
      BY <2>2
    <3>2. pc'[p] = command
      BY <3>1, Went
    <3>3. CASE command = Idle
      BY <3>2, <3>3, IdleHolds
    <3>4. CASE command # Idle
      BY <3>1, <3>2, <3>4 DEF Holds, LockedOps
    <3> QED
      BY <3>3, <3>4
  <2> QED
    BY <1>1, <1>4, <2>3, QuietStep
<1>7. CASE AddConflict(p)
  <2>1. pc[p].todo \subseteq Refs
    BY <1>2, <1>7 DEF AddConflict, Doing, Holds
  <2>2. pc'[p] = [op |-> "files", todo |-> pc[p].todo]
    BY <1>7, Went DEF AddConflict
  <2>3. Holds(p, pc[p])'
    BY <2>1, <2>2 DEF Holds, LockedOps
  <2> QED
    BY <1>1, <1>4, <2>3, QuietStep
<1> QED
  BY <1>5, <1>6, <1>7

LEMMA AddFileStep ==
  ASSUME LInv, NEW p \in Procs, AddFile(p)
  PROVE  LInv'
<1>1. pc[p].op = "add" /\ Holds(p, pc[p]) /\ made < MaxRows /\ made \in 0 .. MaxRows /\ DOMAIN pc = Procs
  BY DEF AddFile, Doing, LInv
<1>2. pc[p].todo \subseteq Refs /\ pc[p].ref \in Refs /\ pc[p].ref # None
  BY <1>1, LocalAssumption DEF Holds
<1>3. CASE ~db.project
  <2>1. /\ UNCHANGED <<db, made, raced, written, deleted>> /\ archives' = archives /\ oplock' = oplock
        /\ praxis' = praxis /\ Goto(p, Idle)
    BY <1>3 DEF AddFile
  <2>2. Holds(p, pc[p])' /\ DOMAIN pc' = Procs /\ \A q \in Procs : q # p => pc'[q] = pc[q]
    BY <2>1, Went, IdleHolds
  <2>3. SetsOnce(praxis')
    BY <2>1 DEF LInv
  <2> QED
    BY <2>1, <2>2, <2>3, QuietStep
<1>4. CASE db.project
  <2> DEFINE new == Row(made + 1, pc[p].ref, pc[p].hash)
             rows == db.rows \cup {new}
             overlapped == IF ByRef(db.rows, pc[p].ref) # {} THEN raced \cup {pc[p].ref} ELSE raced
  <2>1. /\ Commits(p, rows) /\ made' = made + 1 /\ raced' = overlapped
        /\ Goto(p, [op |-> "files", todo |-> pc[p].todo])
        /\ archives' = archives /\ oplock' = oplock /\ praxis' = praxis /\ deleted' = deleted
    BY <1>4 DEF AddFile
  <2>2. made' \in 0 .. MaxRows /\ made <= made' /\ made \in Int /\ made' \in Int /\ raced \subseteq raced'
    BY <1>1, <2>1, LocalAssumption
  <2>3. Sound(db, made, raced, written) /\ Sound(db, made', raced', written)
    BY <2>2, SoundNow DEF LInv
  <2>4. new.id = made + 1 /\ new.ref = pc[p].ref
    BY DEF Row
  <2>5. \A x \in db.rows : x.id # made + 1
    BY <1>1, <2>3, LocalAssumption DEF Sound, Listed
  <2>6. \A x \in db.rows : x.ref = pc[p].ref => pc[p].ref \in raced'
    BY <1>2, <2>1 DEF ByRef
  <2>7. Listed(rows, made', raced')
    <3> HIDE DEF new
    <3> QED
      BY <2>1, <2>2, <2>3, <2>4, <2>5, <2>6 DEF Listed, Sound
  <2>8. db.rows \subseteq rows
    OBVIOUS
  <2> HIDE DEF rows, overlapped
  <2>9. db' = [db EXCEPT !.rows = rows] /\ written' = written \cup IdsOf(rows) /\ oplock \in {None, p}
    BY <2>1 DEF Commits, Free
  <2>10. db'.rows = rows /\ DOMAIN db' = {"project", "rows"}
    BY <2>3, <2>9 DEF Sound
  <2>11. Sound(db', made', raced', written')
    BY <2>7, <2>9, <2>10 DEF Sound
  <2>12. IdsOf(db.rows) \subseteq IdsOf(db'.rows) /\ IdsOf(rows) \subseteq IdsOf(db'.rows)
    BY <2>8, <2>10 DEF IdsOf
  <2>13. written \subseteq IdsOf(db.rows) \cup deleted \cup Archived(archives) /\ SetsOnce(praxis)
    BY DEF LInv
  <2>14. written' \subseteq IdsOf(db'.rows) \cup deleted' \cup Archived(archives') /\ written \subseteq written'
    BY <2>1, <2>9, <2>12, <2>13
  <2>15. pc'[p] = [op |-> "files", todo |-> pc[p].todo] /\ DOMAIN pc' = Procs
         /\ \A q \in Procs : q # p => pc'[q] = pc[q]
    BY <2>1, Went
  <2>16. Holds(p, pc[p])'
    BY <1>2, <2>15 DEF Holds, LockedOps
  <2>17. archives' \ archives = {} /\ SetsOnce(praxis')
    BY <2>1, <2>13
  <2> QED
    BY <2>1, <2>2, <2>9, <2>11, <2>14, <2>15, <2>16, <2>17, LStep
<1> QED
  BY <1>3, <1>4

(***************************************************************************)
(* Archives, deletion of the project, and restore.                         *)
(***************************************************************************)
LEMMA ArchiveStep ==
  ASSUME LInv, NEW p \in Procs, Backup(p) \/ ExportPackage(p)
  PROVE  LInv'
<1>1. /\ UNCHANGED <<db, made, raced, written, deleted>> /\ (\E kind : Archive(kind)) /\ oplock' = oplock
      /\ praxis' = praxis /\ pc' = pc /\ pc[p] = Idle /\ DOMAIN pc = Procs /\ SetsOnce(praxis)
  BY DEF Backup, ExportPackage, LInv
<1>2. Holds(p, pc[p])'
  BY <1>1, IdleHolds
<1> QED
  BY <1>1, <1>2, QuietStep

\* Under the lock, and with a copy of the database just made, all that was
\* ever written is archived or was deleted by name.
LEMMA CopyHoldsAll ==
  ASSUME LInv, UNCHANGED <<written, deleted>>, NEW kind, Archive(kind)
  PROVE  written' \subseteq deleted' \cup Archived(archives')
<1>1. [kind |-> kind, data |-> db] \in archives' /\ archives \subseteq archives'
  BY DEF Archive
<1>2. IdsOf(db.rows) \subseteq Archived(archives') /\ Archived(archives) \subseteq Archived(archives')
  BY <1>1 DEF Archived
<1> QED
  BY <1>2 DEF LInv

LEMMA DeleteProjectStep ==
  ASSUME LInv, NEW p \in Procs, DeleteProject(p)
  PROVE  LInv'
<1>1. /\ UNCHANGED <<db, made, raced, written, deleted, praxis>> /\ Archive("package") /\ oplock = None /\ oplock' = p
      /\ Goto(p, [op |-> "delete"]) /\ SetsOnce(praxis')
  BY DEF DeleteProject, LInv
<1>2. pc'[p] = [op |-> "delete"] /\ DOMAIN pc' = Procs /\ \A q \in Procs : q # p => pc'[q] = pc[q]
  BY <1>1, Went
<1>3. written' \subseteq deleted' \cup Archived(archives')
  BY <1>1, CopyHoldsAll
<1>4. Holds(p, pc[p])'
  BY <1>1, <1>2, <1>3 DEF Holds
<1> QED
  BY <1>1, <1>2, <1>4, QuietStep

LEMMA RestoreStep ==
  ASSUME LInv, NEW p \in Procs, (\E archive \in archives : Restore(p, archive)) \/ BackupBefore(p)
  PROVE  LInv'
<1>1. UNCHANGED <<db, made, raced, written, deleted, praxis>> /\ SetsOnce(praxis')
  BY DEF Restore, BackupBefore, LInv
<1>2. ASSUME NEW archive \in archives, Restore(p, archive)
      PROVE  LInv'
  <2>1. Goto(p, [op |-> "staged", data |-> archive.data]) /\ archives' = archives /\ oplock' = oplock
    BY <1>2 DEF Restore
  <2>2. pc'[p] = [op |-> "staged", data |-> archive.data] /\ DOMAIN pc' = Procs
        /\ \A q \in Procs : q # p => pc'[q] = pc[q]
    BY <2>1, Went
  <2>3. Sound(archive.data, made, raced, written)
    BY DEF LInv
  <2>4. Holds(p, pc[p])'
    BY <1>1, <2>2, <2>3 DEF Holds, LockedOps
  <2> QED
    BY <1>1, <2>1, <2>2, <2>4, QuietStep
<1>3. CASE BackupBefore(p)
  <2> DEFINE command == [op |-> "replace", data |-> pc[p].data, previous |-> db]
  <2>1. pc[p].op = "staged" /\ oplock = None /\ oplock' = p /\ Archive("backup") /\ Goto(p, command)
    BY <1>3 DEF BackupBefore, Doing
  <2>2. pc'[p] = command /\ DOMAIN pc' = Procs /\ \A q \in Procs : q # p => pc'[q] = pc[q]
    BY <2>1, Went
  <2>3. Sound(pc[p].data, made, raced, written) /\ Sound(db, made, raced, written)
    BY <2>1 DEF LInv, Holds
  <2>4. written' \subseteq deleted' \cup Archived(archives')
    BY <1>1, <2>1, CopyHoldsAll
  <2>5. Holds(p, pc[p])'
    BY <1>1, <2>1, <2>2, <2>3, <2>4 DEF Holds
  <2> QED
    BY <1>1, <2>1, <2>2, <2>5, QuietStep
<1> QED
  BY <1>2, <1>3

\* The holder of the lock leaves a database of its own choice.
LEMMA DropStep ==
  ASSUME LInv, NEW p \in Procs, DropProject(p) \/ Replace(p) \/ Activate(p) \/ ActivateFails(p)
  PROVE  LInv'
<1>1. /\ UNCHANGED <<made, raced, written, deleted, praxis, archives>> /\ SetsOnce(praxis')
      /\ pc[p].op \in LockedOps /\ Holds(p, pc[p]) /\ made \in 0 .. MaxRows
  BY DEF DropProject, Replace, Activate, ActivateFails, LInv, Doing, LockedOps
<1>2. oplock = p /\ written \subseteq deleted \cup Archived(archives)
  BY <1>1 DEF Holds
<1>3. /\ Sound(db', made, raced, written) /\ Holds(p, pc[p])'
      /\ DOMAIN pc' = Procs /\ \A q \in Procs : q # p => pc'[q] = pc[q]
  <2>1. CASE DropProject(p)
    <3>1. db' = [project |-> FALSE, rows |-> {}] /\ Goto(p, Idle)
      BY <2>1 DEF DropProject
    <3>2. Sound(db', made, raced, written)
      BY <3>1 DEF Sound, Listed, IdsOf
    <3> QED
      BY <3>1, <3>2, Went, IdleHolds
  <2>2. CASE Replace(p)
    <3>1. pc[p].op = "replace" /\ db' = pc[p].data /\ pc' = [pc EXCEPT ![p].op = "activate"] /\ oplock' = oplock
      BY <2>2 DEF Replace, Doing
    <3>2. /\ DOMAIN pc[p] = {"op", "data", "previous"}
          /\ Sound(pc[p].data, made, raced, written) /\ Sound(pc[p].previous, made, raced, written)
      BY <1>1, <3>1 DEF Holds
    <3>3. /\ DOMAIN pc' = Procs /\ \A q \in Procs : q # p => pc'[q] = pc[q]
          /\ pc'[p] = [pc[p] EXCEPT !.op = "activate"]
      BY <3>1 DEF LInv
    <3>4. pc'[p].op = "activate" /\ pc'[p].data = pc[p].data /\ pc'[p].previous = pc[p].previous
          /\ DOMAIN pc'[p] = {"op", "data", "previous"}
      BY <3>2, <3>3
    <3>5. Holds(p, pc[p])'
      BY <1>1, <1>2, <3>1, <3>2, <3>4 DEF Holds
    <3> QED
      BY <3>1, <3>2, <3>3, <3>5
  <2>3. CASE Activate(p)
    <3>1. db' = db /\ Goto(p, Idle)
      BY <2>3 DEF Activate
    <3> QED
      BY <3>1, Went, IdleHolds DEF LInv
  <2>4. CASE ActivateFails(p)
    <3>1. pc[p].op = "activate" /\ db' \in {pc[p].previous, db} /\ Goto(p, Idle)
      BY <2>4 DEF ActivateFails, Doing
    <3>2. Sound(pc[p].previous, made, raced, written) /\ Sound(db, made, raced, written)
      BY <1>1, <3>1 DEF Holds, LInv
    <3> QED
      BY <3>1, <3>2, Went, IdleHolds
  <2> QED
    BY <2>1, <2>2, <2>3, <2>4
<1>4. /\ Sound(db', made', raced', written') /\ written' \subseteq IdsOf(db'.rows) \cup deleted' \cup Archived(archives')
      /\ archives' \ archives = {} /\ made <= made' /\ made' \in 0 .. MaxRows
  BY <1>1, <1>2, <1>3
<1> QED
  BY <1>1, <1>2, <1>3, <1>4, LStep

(***************************************************************************)
(* The migration to Praxis Memory, kills, and the Decision Store.          *)
(***************************************************************************)
LEMMA CandidatesOnce ==
  ASSUME LInv
  PROVE  SetsOnce(FromLocal) /\ SetsOnce(FromStore)
BY DEF LInv, Sound, Listed, SetsOnce, FromLocal, FromStore

LEMMA MigrateStep ==
  ASSUME LInv, NEW p \in Procs, Migrate(p, FromLocal) \/ Migrate(p, FromStore) \/ MigrateApply(p)
  PROVE  LInv'
<1>1. UNCHANGED <<db, made, raced, written, deleted, archives, oplock>>
  BY DEF Migrate, MigrateApply
<1>2. ASSUME NEW candidates, SetsOnce(candidates), Migrate(p, candidates)
      PROVE  LInv'
  <2>1. Goto(p, [op |-> "migrate", candidates |-> candidates]) /\ SetsOnce(praxis')
    BY <1>2 DEF Migrate, LInv
  <2>2. /\ pc'[p] = [op |-> "migrate", candidates |-> candidates]
        /\ DOMAIN pc' = Procs /\ \A q \in Procs : q # p => pc'[q] = pc[q]
    BY <2>1, Went
  <2>3. Holds(p, pc[p])'
    BY <1>2, <2>2 DEF Holds, LockedOps
  <2> QED
    BY <1>1, <2>1, <2>2, <2>3, QuietStep
<1>3. CASE MigrateApply(p)
  <2>1. pc[p].op = "migrate" /\ Goto(p, Idle)
        /\ praxis' = praxis \cup {x \in pc[p].candidates : ~Known(x.identity)}
    BY <1>3 DEF MigrateApply, Doing
  <2>2. SetsOnce(pc[p].candidates) /\ SetsOnce(praxis)
    BY <2>1 DEF LInv, Holds
  <2>3. SetsOnce(praxis')
    BY <2>1, <2>2 DEF SetsOnce, Known
  <2>4. Holds(p, pc[p])' /\ DOMAIN pc' = Procs /\ \A q \in Procs : q # p => pc'[q] = pc[q]
    BY <2>1, Went, IdleHolds
  <2> QED
    BY <1>1, <2>3, <2>4, QuietStep
<1> QED
  BY <1>2, <1>3, CandidatesOnce

LEMMA KillStep ==
  ASSUME LInv, NEW p \in Procs, Kill(p)
  PROVE  LInv'
<1>1. /\ UNCHANGED <<db, made, raced, written, deleted, praxis, archives>> /\ Goto(p, Idle) /\ SetsOnce(praxis')
      /\ oplock' = oplock \/ oplock = p
  BY DEF Kill, LInv
<1>2. Holds(p, pc[p])' /\ DOMAIN pc' = Procs /\ \A q \in Procs : q # p => pc'[q] = pc[q]
  BY <1>1, Went, IdleHolds
<1> QED
  BY <1>1, <1>2, QuietStep

\* The invariant does not depend on the Decision Store, import_conflicts and
\* the count of kills.
LEMMA SameStep ==
  ASSUME LInv, UNCHANGED <<db, made, raced, written, deleted, praxis, archives, oplock, pc>>
  PROVE  LInv'
BY DEF LInv, Holds, Sound, Listed, IdsOf, Archived, SetsOnce

\* Every memory listed once, and every process, archive and copy sound.
THEOREM LocalSound == Spec => []LInv
<1>1. ASSUME Init
      PROVE  LInv
  <2>1. made \in 0 .. MaxRows /\ DOMAIN pc = Procs /\ archives = {} /\ written = {} /\ praxis = {}
    BY <1>1, LocalAssumption DEF Init
  <2>2. Sound(db, made, raced, written)
    BY <1>1 DEF Init, Sound, Listed, IdsOf
  <2>3. \A p \in Procs : Holds(p, pc[p])
    BY <1>1 DEF Init, Holds, Idle, LockedOps
  <2> QED
    BY <2>1, <2>2, <2>3 DEF LInv, SetsOnce
<1>2. ASSUME LInv, Next
      PROVE  LInv'
  <2>1. CASE \E r \in Refs : StoreChanges(r)
    BY <1>2, <2>1, SameStep DEF StoreChanges
  <2>2. ASSUME NEW p \in Procs,
               \/ \E file \in Files : ImportFile(p, file)
               \/ \E a \in archives : \E skip \in BOOLEAN : ImportPackage(p, a, skip)
               \/ \E r \in db.rows : DeleteMemory(p, r)
        PROVE  LInv'
    BY <1>2, <2>2, ImportFileStep, ImportPackageStep, DeleteMemoryStep
  <2>3. ASSUME NEW p \in Procs,
               \/ ImportStore(p) \/ CheckFile(p) \/ AddConflict(p) \/ AddFile(p)
               \/ Backup(p) \/ ExportPackage(p) \/ DeleteProject(p)
               \/ (\E a \in archives : Restore(p, a)) \/ BackupBefore(p)
        PROVE  LInv'
    BY <1>2, <2>3, StoreStep, AddFileStep, ArchiveStep, DeleteProjectStep, RestoreStep
  <2>4. ASSUME NEW p \in Procs,
               \/ DropProject(p) \/ Replace(p) \/ Activate(p) \/ ActivateFails(p) \/ Kill(p)
               \/ Migrate(p, FromLocal) \/ Migrate(p, FromStore) \/ MigrateApply(p)
        PROVE  LInv'
    BY <1>2, <2>4, DropStep, KillStep, MigrateStep
  <2> QED
    BY <1>2, <2>1, <2>2, <2>3, <2>4 DEF Next
<1>3. ASSUME LInv, UNCHANGED vars
      PROVE  LInv'
  BY <1>3, SameStep DEF vars
<1> QED
  BY <1>1, <1>2, <1>3, PTL DEF Spec

\* What a process, a restore, a deleted project or a kill leaves behind: every
\* memory ever committed is in the database or an archive, or was deleted by
\* name, and the database holds no other.
THEOREM LosesNothing == Spec => []NothingLost
<1>1. LInv => NothingLost
  BY DEF LInv, Sound, NothingLost, Archived
<1> QED
  BY <1>1, LocalSound, PTL

\* However often imports and migrations are repeated and interleaved, a source
\* reference is there once as far as no imports overlapped, an identity once.
THEOREM ImportsOnce == Spec => []ImportedOnce
<1>1. LInv => ImportedOnce
  BY DEF LInv, Sound, Listed, ImportedOnce, SetsOnce
<1> QED
  BY <1>1, LocalSound, PTL

-----------------------------------------------------------------------------
(* The Unified Collector.                                                   *)

\* The rows of an observation, and how their ids name it.
Families == {"device", "status", "usage", "memory", "benchmark", "security"}
Numbered(id) == Len(id) \in {3, 4} /\ id[1] \in Families /\ id[3] \in Int
Stamped(id, n) == Numbered(id) /\ id[3] = n
RowIds(rows) == {r.id : r \in rows}
ObservedIds(rows) == RowIds({r \in rows : r.kind \in Families})
FixtureIds == {<<f, "fixture", 0>> : f \in {"device", "security", "status"}}

\* Rows of sessions: finitely many, and nothing that an observation has.
Plain(rows) ==
  /\ IsFiniteSet(rows)
  /\ \A r \in rows : r.kind \in {"run", "task", "check"} /\ ~Numbered(r.id)

GraphsWhole(rows, facts) ==
  LET runs == {r \in rows : r.kind = "graph"}
      details == {r \in rows : r.kind = "detail"} IN
  /\ Cardinality(runs \cup details) <= MaxDetail
  /\ \A d \in details : \E r \in runs : r.id = d.run
  /\ (runs # {} /\ facts.cached) =>
        \E e \in Exports : (\A r \in runs \cup details : r.body.from = e) /\ Cardinality(details) \in {0, e.details}

ClaimsHeld(all, facts) ==
  LET rows == {r \in all : r.kind # "check"}
      Of(kind) == {r \in rows : r.kind = kind}
      Claimed(what) == \E r \in Of("status") : r.body[what] = "healthy" IN
  /\ \A r, q \in rows : r.device = q.device
  /\ Claimed("collector") => Of("usage") # {} /\ Of("memory") # {}
  /\ Claimed("core") => \A r \in Of("device") : r.body.plugin = "healthy" /\ r.body.hooks = "healthy"
  /\ Claimed("local") => facts.local /\ Of("memory") # {}
  /\ Claimed("decision") => facts.decision /\ Of("memory") # {}
  /\ Claimed("security") => \E r \in Of("security") : r.body.status = "clean"
  /\ Claimed("benchmark") => \E r \in Of("benchmark") : r.body.status = "passed" /\ r.body.measured
  /\ Of("usage") # {} => facts.usage

\* The observation's rows carry its number, or are those of the fixture; no
\* other row carries a number.
Marked(rows, n) ==
  /\ (\A r \in rows : r.kind \in Families => Stamped(r.id, n)) \/ ObservedIds(rows) = FixtureIds
  /\ \A r \in rows : r.kind \notin Families => ~Numbered(r.id)
PayloadOK(rows, facts, n) == GraphsWhole(rows, facts) /\ ClaimsHeld(rows, facts) /\ Marked(rows, n)

\* Just measured: rows of one observation only.
Fresher(c) ==
  /\ \A r \in c.rows : r.kind \in Families /\ r.device = c.device /\ Stamped(r.id, c.observed)
  /\ ClaimsHeld(c.rows, c.facts)
CycleOK(c, count) ==
  /\ DOMAIN c = DOMAIN Rest
  /\ c.at # "rest" => c.observed = count + 1 /\ c.device \in Identities
  /\ Plain(c.runs) /\ Plain(c.tasks)
  /\ c.at = "graph" => Fresher(c)
  /\ c.at \in {"checks", "deliver"} => PayloadOK(c.rows, c.facts, c.observed)
  /\ c.at = "deliver" => c.next \in Nat \ {0}

\* What the server has of a payload.
AllOrNone(ids, there) == ids \subseteq there \/ ids \cap there = {}
Arrived(p, k, there) ==
  /\ PayloadOK(p.rows, p.facts, k)
  /\ p.delivered => RowIds(p.rows \cup p.runs \cup p.tasks) \subseteq there
  /\ AllOrNone(ObservedIds(p.rows), there)
Begun(c) == c.at = "deliver" /\ c.next > 1
Sent(rows, next, there) ==
  \A i \in 1 .. Cardinality(rows) : i <= (next - 1) * BatchSize => SetToSeq(rows)[i].id \in there
ServerOK(c, ended, rows) ==
  LET there == RowIds(rows) IN
  /\ \A k \in 1 .. Len(ended) : Arrived(ended[k], k, there)
  /\ AllOrNone(FixtureIds, there)
  /\ \A r \in rows : r.kind = "detail" => r.run \in there
  /\ \A id \in there : Numbered(id) => id[3] <= Len(ended) + (IF Begun(c) THEN 1 ELSE 0)
  /\ Begun(c) => RowIds(c.rows) \subseteq there
  /\ c.at = "deliver" => Sent(c.runs, c.next, there) /\ Sent(c.tasks, c.next, there)

\* The sources: files of known sessions, known identities, and caches that
\* hold an export.
Filed(file) == DOMAIN file = {"export", "open", "mixed"} /\ file.export \in Exports
SourcesOK ==
  /\ files \subseteq DOMAIN Sessions
  /\ DOMAIN config = {"device", "memory"} /\ \A w \in {"device", "memory"} : config[w] \in Identities \cup {Absent}
  /\ cache # Absent => Filed(cache)
  /\ spare # Absent => Filed(spare)
  /\ DOMAIN exporting = Exporters
  /\ \A x \in Exporters : exporting[x].at # "still" =>
       DOMAIN exporting[x] = {"at", "export"} /\ exporting[x].export \in Exports
Ended == cycles \in Seq(Range(cycles))
COInv == SourcesOK /\ Ended /\ CycleOK(cycle, Len(cycles)) /\ ServerOK(cycle, cycles, server)

(***************************************************************************)
(* Ids, and the batches of one payload.                                    *)
(***************************************************************************)
LEMMA Ids3 ==
  ASSUME NEW a, NEW b, NEW c
  PROVE  /\ Numbered(<<a, b, c>>) <=> a \in Families /\ c \in Int
         /\ <<a, b, c>>[3] = c
BY DEF Numbered

LEMMA Ids4 ==
  ASSUME NEW a, NEW b, NEW c, NEW d
  PROVE  /\ Numbered(<<a, b, c, d>>) <=> a \in Families /\ c \in Int
         /\ <<a, b, c, d>>[3] = c
BY DEF Numbered

LEMMA Ids25 ==
  ASSUME NEW a, NEW b, NEW c, NEW d, NEW e
  PROVE  ~Numbered(<<a, b>>) /\ ~Numbered(<<a, b, c, d, e>>)
BY DEF Numbered

LEMMA FixtureNumbers == \A id \in FixtureIds : Stamped(id, 0)
BY Ids3 DEF FixtureIds, Stamped, Families

\* The list a set is sent as holds its elements, all of them.
LEMMA Listing ==
  ASSUME NEW rows, IsFiniteSet(rows)
  PROVE  /\ Cardinality(rows) \in Nat
         /\ SetToSeq(rows) \in [1 .. Cardinality(rows) -> rows]
         /\ \A r \in rows : \E i \in 1 .. Cardinality(rows) : SetToSeq(rows)[i] = r
<1> DEFINE n == Cardinality(rows)
           list == SetToSeq(rows)
<1>1. n \in Nat /\ ExistsBijection(1 .. n, rows)
  BY FS_CardinalityType
<1>2. PICK f \in [1 .. n -> rows] : IsInjective(f)
  BY <1>1 DEF ExistsBijection, Bijection, Injection, IsInjective
<1>3. list \in [1 .. n -> rows] /\ IsInjective(list)
  BY <1>2 DEF SetToSeq
<1>4. list \in Injection(1 .. n, rows)
  BY <1>3 DEF Injection, IsInjective
<1>5. Cardinality(1 .. n) = n
  BY <1>1, FS_Interval
<1> HIDE DEF list
<1>6. list \in Surjection(1 .. n, rows)
  BY <1>4, <1>5, FS_Injection
<1> QED
  BY <1>1, <1>3, <1>6 DEF list, Surjection

LEMMA SliceParts ==
  ASSUME NEW rows, IsFiniteSet(rows), NEW k \in Nat \ {0}
  PROVE  /\ Slice(rows, k) \subseteq rows
         /\ \A i \in 1 .. Cardinality(rows) :
              (k - 1) * BatchSize < i /\ i <= k * BatchSize => SetToSeq(rows)[i] \in Slice(rows, k)
<1> DEFINE n == Cardinality(rows)
           list == SetToSeq(rows)
           first == (k - 1) * BatchSize + 1
           last == Min({k * BatchSize, n})
           part == SubSeq(list, first, last)
<1>1. n \in Nat /\ list \in [1 .. n -> rows]
  BY Listing
<1>2. BatchSize \in Nat \ {0} /\ k * BatchSize \in Nat /\ (k - 1) * BatchSize \in Nat
  BY CollectorAssumption
<1>3. Len(list) = n
  BY <1>1
<1> DEFINE end == k * BatchSize
<1>4. end \in Nat /\ first \in Nat \ {0}
  BY <1>2
<1> HIDE DEF list, first, end, n
<1>5. Min({end, n}) = IF end <= n THEN end ELSE n
  BY <1>1, <1>4 DEF Min
<1>6. last = (IF end <= n THEN end ELSE n) /\ last \in Int /\ last <= n
  BY <1>1, <1>4, <1>5 DEF end
<1> HIDE DEF last
<1>7. \A i \in first .. last : list[i] \in rows
  BY <1>1, <1>4, <1>6
<1>8. /\ part \in Seq(rows)
      /\ Len(part) = IF first <= last THEN last - first + 1 ELSE 0
      /\ \A i \in 1 .. last - first + 1 : part[i] = list[first + i - 1]
  BY <1>4, <1>6, <1>7, SubSeqProperties
<1>9. Slice(rows, k) = Range(part)
  BY <1>3 DEF Slice, list, first, last, n
<1> HIDE DEF part
<1>10. Range(part) \subseteq rows
  BY <1>8 DEF Range
<1>11. ASSUME NEW i \in 1 .. n, first <= i, i <= end
       PROVE  list[i] \in Range(part)
  <2>1. i <= last /\ i - first + 1 \in 1 .. last - first + 1
    BY <1>1, <1>4, <1>6, <1>11
  <2>2. part[i - first + 1] = list[i]
    BY <1>4, <1>8, <2>1
  <2>3. i - first + 1 \in DOMAIN part
    BY <1>4, <1>6, <1>8, <2>1
  <2> QED
    BY <2>2, <2>3 DEF Range
<1>12. ASSUME NEW i \in 1 .. n, (k - 1) * BatchSize < i, i <= k * BatchSize
       PROVE  list[i] \in Slice(rows, k)
  BY <1>2, <1>9, <1>11, <1>12 DEF first, end
<1> QED
  BY <1>9, <1>10, <1>12 DEF list, n

\* One more slice arrives; and the last one completes the list.
LEMMA SentNext ==
  ASSUME NEW rows, IsFiniteSet(rows), NEW k \in Nat \ {0}, NEW there, NEW now, there \subseteq now,
         Sent(rows, k, there), RowIds(Slice(rows, k)) \subseteq now
  PROVE  Sent(rows, k + 1, now)
<1>1. ASSUME NEW i \in 1 .. Cardinality(rows), i <= k * BatchSize
      PROVE  SetToSeq(rows)[i].id \in now
  <2>1. (k - 1) * BatchSize \in Int /\ i \in Int
    BY CollectorAssumption
  <2>2. CASE i <= (k - 1) * BatchSize
    BY <2>2 DEF Sent
  <2>3. CASE (k - 1) * BatchSize < i
    BY <1>1, <2>3, SliceParts DEF RowIds
  <2> QED
    BY <2>1, <2>2, <2>3
<1> QED
  BY <1>1 DEF Sent

LEMMA SentAll ==
  ASSUME NEW rows, IsFiniteSet(rows), NEW k \in Nat \ {0}, NEW there,
         Sent(rows, k + 1, there), Groups(rows) <= k
  PROVE  RowIds(rows) \subseteq there
<1> DEFINE n == Cardinality(rows)
<1>1. n \in Nat /\ BatchSize \in Nat \ {0}
  BY Listing, CollectorAssumption
<1>2. n <= k * BatchSize
  <2> DEFINE m == n + BatchSize - 1
             q == m \div BatchSize
  <2>1. m \in Nat /\ q <= k
    BY <1>1 DEF Groups
  <2>2. q \in Nat /\ m < q * BatchSize + BatchSize
    BY <1>1, <2>1
  <2>3. q * BatchSize <= k * BatchSize
    BY <1>1, <2>1, <2>2
  <2> HIDE DEF q
  <2>4. q * BatchSize \in Int /\ k * BatchSize \in Int
    BY <1>1, <2>2
  <2> QED
    BY <1>1, <2>2, <2>3, <2>4
<1>3. ASSUME NEW r \in rows
      PROVE  r.id \in there
  <2>1. PICK i \in 1 .. n : SetToSeq(rows)[i] = r
    BY Listing
  <2>2. i <= k * BatchSize
    BY <1>1, <1>2
  <2> QED
    BY <2>1, <2>2 DEF Sent
<1> QED
  BY <1>3 DEF RowIds

LEMMA SentNone ==
  ASSUME NEW rows, NEW there, IsFiniteSet(rows)
  PROVE  Sent(rows, 1, there)
BY Listing, CollectorAssumption DEF Sent

LEMMA Batches ==
  ASSUME IsFiniteSet(cycle.runs), IsFiniteSet(cycle.tasks)
  PROVE  BatchCount \in Nat \ {0} /\ Groups(cycle.runs) <= BatchCount /\ Groups(cycle.tasks) <= BatchCount
<1>1. Groups(cycle.runs) \in Int /\ Groups(cycle.tasks) \in Int
  BY Listing, CollectorAssumption DEF Groups
<1>2. \A a, b \in Int : Max({1, a, b}) \in {1, a, b} /\ \A x \in {1, a, b} : x <= Max({1, a, b})
  <2> TAKE a, b \in Int
  <2>1. \E x \in {1, a, b} : \A y \in {1, a, b} : x >= y
    OBVIOUS
  <2> DEFINE P(x) == \A y \in {1, a, b} : x >= y
  <2>2. P(CHOOSE x \in {1, a, b} : P(x)) /\ (CHOOSE x \in {1, a, b} : P(x)) \in {1, a, b}
    <3> HIDE DEF P
    <3> QED
      BY <2>1 DEF P
  <2>3. Max({1, a, b}) = CHOOSE x \in {1, a, b} : P(x)
    BY DEF Max
  <2> QED
    BY <2>2, <2>3
<1> DEFINE a == Groups(cycle.runs)
           b == Groups(cycle.tasks)
<1>3. a \in Int /\ b \in Int /\ BatchCount = Max({1, a, b})
  BY <1>1 DEF BatchCount
<1> HIDE DEF a, b
<1>4. Max({1, a, b}) \in {1, a, b} /\ \A x \in {1, a, b} : x <= Max({1, a, b})
  BY <1>2, <1>3
<1>5. BatchCount \in Int /\ 1 <= BatchCount /\ a <= BatchCount /\ b <= BatchCount
  BY <1>3, <1>4
<1> QED
  BY <1>5 DEF a, b

(***************************************************************************)
(* Delivery: a batch arrives, and a collection ends.                       *)
(***************************************************************************)
LEMMA Unnumbered ==
  ASSUME NEW rows, Plain(rows)
  PROVE  \A id \in RowIds(rows) : ~Numbered(id)
BY DEF Plain, RowIds

LEMMA ObservedNumbers ==
  ASSUME NEW rows, NEW n \in Int, Marked(rows, n)
  PROVE  /\ \A id \in RowIds(rows) : Numbered(id) => id \in ObservedIds(rows)
         /\ ObservedIds(rows) \subseteq RowIds(rows)
         /\ (\A id \in ObservedIds(rows) : Stamped(id, n)) \/ ObservedIds(rows) = FixtureIds
BY DEF Marked, RowIds, ObservedIds

LEMMA IngestedIds ==
  ASSUME NEW rows, Ingest(rows)
  PROVE  RowIds(server') = RowIds(server) \cup RowIds(rows)
BY DEF Ingest, RowIds

\* What the server has of every payload while batch c.next of c arrives, the
\* first with all rows that carry a number.
LEMMA Arrives ==
  ASSUME NEW c, NEW count \in Nat, CycleOK(c, count), c.at = "deliver",
         NEW ended, Len(ended) = count, NEW rows, ServerOK(c, ended, rows),
         NEW batch, NEW now, RowIds(now) = RowIds(rows) \cup RowIds(batch), now \subseteq rows \cup batch,
         batch \subseteq c.runs \cup c.tasks \cup c.rows, c.next = 1 => c.rows \subseteq batch,
         c.next # 1 => batch \subseteq c.runs \cup c.tasks
  PROVE  /\ \A k \in 1 .. count : Arrived(ended[k], k, RowIds(now))
         /\ AllOrNone(FixtureIds, RowIds(now))
         /\ \A r \in now : r.kind = "detail" => r.run \in RowIds(now)
         /\ \A id \in RowIds(now) : Numbered(id) => id[3] <= count + 1
         /\ RowIds(c.rows) \subseteq RowIds(now)
<1> DEFINE n == count + 1
           there == RowIds(rows)
           more == RowIds(batch)
           later == RowIds(now)
           mine == ObservedIds(c.rows)
<1>1. /\ c.observed = n /\ n \in Int /\ Plain(c.runs) /\ Plain(c.tasks) /\ PayloadOK(c.rows, c.facts, n)
      /\ c.next \in Nat \ {0}
  BY DEF CycleOK
<1>2. Marked(c.rows, n)
  BY <1>1 DEF PayloadOK
<1>3. RowIds(c.rows) \subseteq later
  <2>1. CASE c.next = 1
    BY <2>1 DEF RowIds
  <2>2. CASE c.next > 1
    BY <2>2 DEF ServerOK, Begun
  <2> QED
    BY <1>1, <2>1, <2>2
<1>4. \A id \in more : Numbered(id) => c.next = 1 /\ id \in mine
  <2> TAKE id \in more
  <2>1. PICK r \in batch : id = r.id
    BY DEF RowIds
  <2>2. CASE r \in c.runs \cup c.tasks
    BY <1>1, <2>1, <2>2 DEF Plain
  <2>3. CASE r \in c.rows /\ r \notin c.runs \cup c.tasks
    <3>1. c.next = 1
      BY <2>1, <2>3
    <3>2. id \in RowIds(c.rows)
      BY <2>1, <2>3 DEF RowIds
    <3> QED
      BY <1>1, <1>2, <3>1, <3>2, ObservedNumbers
  <2> QED
    BY <2>1, <2>2, <2>3
<1>5. mine \subseteq later /\ ((\A id \in mine : Stamped(id, n)) \/ mine = FixtureIds)
  BY <1>1, <1>2, <1>3, ObservedNumbers
<1>6. /\ \A k \in 1 .. count : Arrived(ended[k], k, there)
      /\ AllOrNone(FixtureIds, there)
      /\ \A r \in rows : r.kind = "detail" => r.run \in there
      /\ \A id \in there : Numbered(id) => id[3] <= n
  <2>1. \A id \in there : Numbered(id) => id[3] \in Int /\ id[3] <= count + (IF Begun(c) THEN 1 ELSE 0)
    BY DEF ServerOK, Numbered
  <2>2. \A id \in there : Numbered(id) => id[3] <= n
    <3>1. CASE Begun(c)
      BY <2>1, <3>1
    <3>2. CASE ~Begun(c)
      BY <2>1, <3>2
    <3> QED
      BY <3>1, <3>2
  <2> QED
    BY <2>2 DEF ServerOK
<1>7. later = there \cup more
  OBVIOUS
<1> HIDE DEF there, more, later, mine
<1>8. AllOrNone(FixtureIds, later)
  <2>1. CASE mine = FixtureIds
    BY <1>5, <2>1 DEF AllOrNone
  <2>2. CASE \A id \in mine : Stamped(id, n)
    <3>1. \A id \in FixtureIds : Numbered(id) /\ ~Stamped(id, n)
      BY FixtureNumbers DEF Stamped
    <3>2. FixtureIds \cap more = {}
      BY <1>4, <2>2, <3>1
    <3> QED
      BY <1>6, <1>7, <3>2 DEF AllOrNone
  <2> QED
    BY <1>5, <2>1, <2>2
<1>9. \A k \in 1 .. count : Arrived(ended[k], k, later)
  <2> TAKE k \in 1 .. count
  <2> DEFINE ids == ObservedIds(ended[k].rows)
  <2>1. Arrived(ended[k], k, there)
    BY <1>6
  <2>2. (\A id \in ids : Stamped(id, k)) \/ ids = FixtureIds
    BY <2>1, ObservedNumbers DEF Arrived, PayloadOK
  <2> HIDE DEF ids
  <2>3. AllOrNone(ids, later)
    <3>1. CASE ids = FixtureIds
      BY <1>8, <3>1
    <3>2. CASE \A id \in ids : Stamped(id, k)
      <4>1. \A id \in ids : Numbered(id) /\ ~Stamped(id, n) /\ ~Stamped(id, 0)
        BY <3>2 DEF Stamped
      <4>2. ids \cap more = {}
        BY <1>4, <1>5, <4>1, FixtureNumbers
      <4>3. AllOrNone(ids, there)
        BY <2>1 DEF Arrived, ids
      <4> QED
        BY <1>7, <4>2, <4>3 DEF AllOrNone
    <3> QED
      BY <2>2, <3>1, <3>2
  <2> QED
    BY <1>7, <2>1, <2>3 DEF Arrived, ids
<1>10. \A r \in now : r.kind = "detail" => r.run \in later
  <2> SUFFICES ASSUME NEW r \in now, r.kind = "detail"
               PROVE  r.run \in later
    OBVIOUS
  <2>1. CASE r \in rows
    BY <1>6, <1>7, <2>1
  <2>2. CASE r \in batch
    <3>1. r \in c.rows
      BY <1>1, <2>2 DEF Plain
    <3>2. \E q \in c.rows : q.id = r.run
      BY <1>1, <3>1 DEF PayloadOK, GraphsWhole
    <3> QED
      BY <1>3, <3>2 DEF RowIds
  <2> QED
    BY <2>1, <2>2
<1>11. \A id \in later : Numbered(id) => id[3] <= n
  <2>1. \A id \in mine : id[3] <= n
    BY <1>1, <1>5, FixtureNumbers DEF Stamped
  <2> QED
    BY <1>4, <1>6, <1>7, <2>1
<1> QED
  BY <1>3, <1>8, <1>9, <1>10, <1>11 DEF later

LEMMA Appended ==
  ASSUME Ended, NEW payload, cycles' = Append(cycles, payload)
  PROVE  /\ Len(cycles) \in Nat /\ Len(cycles') = Len(cycles) + 1 /\ Ended'
         /\ \A k \in 1 .. Len(cycles) : cycles'[k] = cycles[k]
         /\ cycles'[Len(cycles) + 1] = payload
<1> DEFINE S == Range(cycles) \cup {payload}
<1>1. cycles \in Seq(S)
  BY DEF Ended
<1>2. cycles' \in Seq(S)
  BY <1>1, AppendProperties
<1>3. \A i \in 1 .. Len(cycles') : cycles'[i] \in Range(cycles')
  BY <1>2 DEF Range
<1>4. cycles' \in Seq(Range(cycles'))
  BY <1>2, <1>3
<1> HIDE DEF S
<1> QED
  BY <1>1, <1>4, AppendProperties DEF Ended, S

LEMMA CycleEnds ==
  ASSUME Ended, CycleOK(cycle, Len(cycles)), At("deliver"), NEW d \in BOOLEAN, EndCycle(d),
         \A k \in 1 .. Len(cycles) : Arrived(cycles[k], k, RowIds(server')),
         AllOrNone(FixtureIds, RowIds(server')),
         \A r \in server' : r.kind = "detail" => r.run \in RowIds(server'),
         \A id \in RowIds(server') : Numbered(id) => id[3] <= Len(cycles) + 1,
         AllOrNone(ObservedIds(cycle.rows), RowIds(server')),
         d => RowIds(cycle.rows \cup cycle.runs \cup cycle.tasks) \subseteq RowIds(server')
  PROVE  Ended' /\ CycleOK(cycle', Len(cycles')) /\ ServerOK(cycle', cycles', server')
<1> DEFINE p == Payload(d)
<1>1. cycles' = Append(cycles, p) /\ cycle' = Rest
  BY DEF EndCycle
<1>2. /\ Len(cycles) \in Nat /\ Len(cycles') = Len(cycles) + 1 /\ Ended'
      /\ \A k \in 1 .. Len(cycles) : cycles'[k] = cycles[k]
      /\ cycles'[Len(cycles) + 1] = p
  BY <1>1, Appended
<1>3. p.rows = cycle.rows /\ p.runs = cycle.runs /\ p.tasks = cycle.tasks /\ p.facts = cycle.facts /\ p.delivered = d
  BY DEF Payload
<1> HIDE DEF p
<1>4. PayloadOK(cycle.rows, cycle.facts, Len(cycles) + 1)
  BY DEF CycleOK, At
<1>5. Arrived(p, Len(cycles) + 1, RowIds(server'))
  BY <1>3, <1>4 DEF Arrived
<1>6. \A k \in 1 .. Len(cycles') : Arrived(cycles'[k], k, RowIds(server'))
  <2> TAKE k \in 1 .. Len(cycles')
  <2>1. k \in 1 .. Len(cycles) \/ k = Len(cycles) + 1
    BY <1>2
  <2> QED
    BY <1>2, <1>5, <2>1
<1>7. CycleOK(Rest, Len(cycles'))
  BY FS_EmptySet DEF CycleOK, Rest, Plain
<1>8. ~Begun(Rest) /\ Rest.at # "deliver"
  BY DEF Begun, Rest
<1> QED
  BY <1>1, <1>2, <1>6, <1>7, <1>8 DEF ServerOK

LEMMA BatchParts ==
  ASSUME COInv, At("deliver")
  PROVE  /\ Batch(cycle.next) \subseteq cycle.runs \cup cycle.tasks \cup cycle.rows
         /\ cycle.next = 1 => cycle.rows \subseteq Batch(cycle.next)
         /\ cycle.next # 1 => Batch(cycle.next) \subseteq cycle.runs \cup cycle.tasks
         /\ Slice(cycle.runs, cycle.next) \subseteq Batch(cycle.next)
         /\ Slice(cycle.tasks, cycle.next) \subseteq Batch(cycle.next)
<1>1. IsFiniteSet(cycle.runs) /\ IsFiniteSet(cycle.tasks) /\ cycle.next \in Nat \ {0}
  BY DEF COInv, CycleOK, Plain, At
<1>2. Slice(cycle.runs, cycle.next) \subseteq cycle.runs /\ Slice(cycle.tasks, cycle.next) \subseteq cycle.tasks
  BY <1>1, SliceParts
<1> QED
  BY <1>1, <1>2 DEF Batch

LEMMA DeliverStep ==
  ASSUME COInv, Deliver \/ AnswerLost \/ NotDelivered
  PROVE  COInv'
<1>1. /\ At("deliver") /\ SourcesRest /\ Len(cycles) \in Nat /\ cycle.next \in Nat \ {0}
      /\ IsFiniteSet(cycle.runs) /\ IsFiniteSet(cycle.tasks)
  <2>1. At("deliver") /\ SourcesRest
    BY DEF Deliver, AnswerLost, NotDelivered
  <2>2. Len(cycles) \in Nat
    BY LenProperties DEF COInv, Ended
  <2>3. CycleOK(cycle, Len(cycles))
    BY DEF COInv
  <2> QED
    BY <2>1, <2>2, <2>3 DEF CycleOK, At, Plain
<1>2. SourcesOK'
  BY <1>1 DEF SourcesRest, COInv, SourcesOK, Filed
<1>3. CycleOK(cycle, Len(cycles)) /\ ServerOK(cycle, cycles, server) /\ Ended
  BY DEF COInv
<1>4. PayloadOK(cycle.rows, cycle.facts, Len(cycles) + 1)
  BY <1>1, <1>3 DEF CycleOK, At
<1>5. ObservedIds(cycle.rows) \subseteq RowIds(cycle.rows)
  BY DEF ObservedIds, RowIds
<1>6. ASSUME Ingest(Batch(cycle.next))
      PROVE  /\ \A k \in 1 .. Len(cycles) : Arrived(cycles[k], k, RowIds(server'))
             /\ AllOrNone(FixtureIds, RowIds(server'))
             /\ \A r \in server' : r.kind = "detail" => r.run \in RowIds(server')
             /\ \A id \in RowIds(server') : Numbered(id) => id[3] <= Len(cycles) + 1
             /\ RowIds(cycle.rows) \subseteq RowIds(server')
             /\ Sent(cycle.runs, cycle.next + 1, RowIds(server'))
             /\ Sent(cycle.tasks, cycle.next + 1, RowIds(server'))
  <2> DEFINE batch == Batch(cycle.next)
  <2>1. RowIds(server') = RowIds(server) \cup RowIds(batch) /\ server' \subseteq server \cup batch
    BY <1>6, IngestedIds DEF Ingest
  <2>2. /\ batch \subseteq cycle.runs \cup cycle.tasks \cup cycle.rows
        /\ cycle.next = 1 => cycle.rows \subseteq batch
        /\ cycle.next # 1 => batch \subseteq cycle.runs \cup cycle.tasks
        /\ Slice(cycle.runs, cycle.next) \subseteq batch /\ Slice(cycle.tasks, cycle.next) \subseteq batch
    BY <1>1, BatchParts
  <2> HIDE DEF batch
  <2>3. /\ \A k \in 1 .. Len(cycles) : Arrived(cycles[k], k, RowIds(server'))
        /\ AllOrNone(FixtureIds, RowIds(server'))
        /\ \A r \in server' : r.kind = "detail" => r.run \in RowIds(server')
        /\ \A id \in RowIds(server') : Numbered(id) => id[3] <= Len(cycles) + 1
        /\ RowIds(cycle.rows) \subseteq RowIds(server')
    BY <1>1, <1>3, <2>1, <2>2, Arrives DEF At
  <2>4. /\ RowIds(Slice(cycle.runs, cycle.next)) \subseteq RowIds(server')
        /\ RowIds(Slice(cycle.tasks, cycle.next)) \subseteq RowIds(server')
    BY <2>1, <2>2 DEF RowIds
  <2>5. Sent(cycle.runs, cycle.next, RowIds(server)) /\ Sent(cycle.tasks, cycle.next, RowIds(server))
    BY <1>1, <1>3 DEF ServerOK, At
  <2>6. RowIds(server) \subseteq RowIds(server')
    BY <2>1
  <2> QED
    BY <1>1, <2>3, <2>4, <2>5, <2>6, SentNext
<1>7. CASE Deliver /\ cycle.next < BatchCount
  <2>1. Ingest(Batch(cycle.next)) /\ cycle' = [cycle EXCEPT !.next = cycle.next + 1] /\ cycles' = cycles
    BY <1>7 DEF Deliver
  <2>2. /\ cycle'.at = cycle.at /\ cycle'.observed = cycle.observed /\ cycle'.device = cycle.device
        /\ cycle'.runs = cycle.runs /\ cycle'.tasks = cycle.tasks /\ cycle'.rows = cycle.rows
        /\ cycle'.facts = cycle.facts /\ cycle'.next = cycle.next + 1 /\ DOMAIN cycle' = DOMAIN Rest
    BY <1>3, <2>1 DEF CycleOK, Rest
  <2>3. CycleOK(cycle', Len(cycles'))
    BY <1>1, <1>3, <2>1, <2>2 DEF CycleOK, At
  <2>4. Begun(cycle') /\ cycle'.at = "deliver"
    BY <1>1, <2>2 DEF Begun, At
  <2>5. ServerOK(cycle', cycles', server')
    BY <1>6, <2>1, <2>2, <2>4 DEF ServerOK
  <2>6. Ended'
    BY <1>3, <2>1 DEF Ended
  <2> QED
    BY <1>2, <2>3, <2>5, <2>6 DEF COInv
<1>8. CASE Deliver /\ ~(cycle.next < BatchCount)
  <2>1. Ingest(Batch(cycle.next)) /\ EndCycle(TRUE)
    BY <1>8 DEF Deliver
  <2>2. Groups(cycle.runs) <= cycle.next /\ Groups(cycle.tasks) <= cycle.next
    <3>1. Groups(cycle.runs) \in Int /\ Groups(cycle.tasks) \in Int
      BY <1>1, Listing, CollectorAssumption DEF Groups
    <3> QED
      BY <1>1, <1>8, <3>1, Batches
  <2>3. RowIds(cycle.runs) \subseteq RowIds(server') /\ RowIds(cycle.tasks) \subseteq RowIds(server')
    BY <1>1, <1>6, <2>1, <2>2, SentAll
  <2>4. RowIds(cycle.rows \cup cycle.runs \cup cycle.tasks) \subseteq RowIds(server')
    BY <1>6, <2>1, <2>3 DEF RowIds
  <2>5. AllOrNone(ObservedIds(cycle.rows), RowIds(server'))
    BY <1>5, <1>6, <2>1 DEF AllOrNone
  <2>6. Ended' /\ CycleOK(cycle', Len(cycles')) /\ ServerOK(cycle', cycles', server')
    BY <1>1, <1>3, <1>6, <2>1, <2>4, <2>5, CycleEnds
  <2> QED
    BY <1>2, <2>6 DEF COInv
<1>9. CASE AnswerLost
  <2>1. Ingest(Batch(cycle.next)) /\ EndCycle(FALSE)
    BY <1>9 DEF AnswerLost
  <2>2. AllOrNone(ObservedIds(cycle.rows), RowIds(server'))
    BY <1>5, <1>6, <2>1 DEF AllOrNone
  <2>3. Ended' /\ CycleOK(cycle', Len(cycles')) /\ ServerOK(cycle', cycles', server')
    BY <1>1, <1>3, <1>6, <2>1, <2>2, CycleEnds
  <2> QED
    BY <1>2, <2>3 DEF COInv
<1>10. CASE NotDelivered
  <2>1. server' = server /\ EndCycle(FALSE)
    BY <1>10 DEF NotDelivered
  <2>2. AllOrNone(ObservedIds(cycle.rows), RowIds(server))
    <3>1. CASE Begun(cycle)
      BY <1>3, <1>5, <3>1 DEF ServerOK, AllOrNone
    <3>2. CASE ~Begun(cycle) /\ ObservedIds(cycle.rows) = FixtureIds
      BY <1>3, <3>2 DEF ServerOK
    <3>3. CASE ~Begun(cycle) /\ \A id \in ObservedIds(cycle.rows) : Stamped(id, Len(cycles) + 1)
      <4>1. \A id \in RowIds(server) : Numbered(id) => id[3] <= Len(cycles)
        BY <1>1, <1>3, <3>3 DEF ServerOK
      <4> QED
        BY <1>1, <3>3, <4>1 DEF AllOrNone, Stamped
    <3> QED
      BY <1>1, <1>4, <3>1, <3>2, <3>3, ObservedNumbers DEF PayloadOK
  <2>3. /\ \A k \in 1 .. Len(cycles) : Arrived(cycles[k], k, RowIds(server))
        /\ AllOrNone(FixtureIds, RowIds(server))
        /\ \A r \in server : r.kind = "detail" => r.run \in RowIds(server)
    BY <1>3 DEF ServerOK
  <2>4. \A id \in RowIds(server) : Numbered(id) => id[3] <= Len(cycles) + 1
    BY <1>1, <1>3 DEF ServerOK, Numbered
  <2>5. Ended' /\ CycleOK(cycle', Len(cycles')) /\ ServerOK(cycle', cycles', server')
    BY <1>1, <1>3, <2>1, <2>2, <2>3, <2>4, CycleEnds
  <2> QED
    BY <1>2, <2>5 DEF COInv
<1> QED
  BY <1>7, <1>8, <1>9, <1>10

(***************************************************************************)
(* The sources change, and a collection reads the sessions.                *)
(***************************************************************************)
LEMMA SourcesStep ==
  ASSUME COInv, CycleRests, SourcesOK'
  PROVE  COInv'
BY DEF COInv, CycleRests, Ended

LEMMA SessionStep ==
  ASSUME COInv, NEW s \in DOMAIN Sessions, SessionWritten(s) \/ SessionAges(s)
  PROVE  COInv'
<1>1. SourcesOK'
  BY DEF COInv, SourcesOK, Filed, SessionWritten, SessionAges
<1> QED
  BY <1>1, SourcesStep DEF SessionWritten, SessionAges

LEMMA ConfigureStep ==
  ASSUME COInv, NEW which \in {"device", "memory"}, NEW id \in Identities, Configure(which, id)
  PROVE  COInv'
<1>1. SourcesOK'
  BY DEF COInv, SourcesOK, Filed, Configure
<1> QED
  BY <1>1, SourcesStep DEF Configure

LEMMA ClosedFiled ==
  ASSUME NEW x, NEW e \in Exports, NEW file, file # Absent => Filed(file)
  PROVE  Closed(x, e, file) # Absent => Filed(Closed(x, e, file))
BY DEF Closed, Filed

LEMMA ExportStep ==
  ASSUME COInv, NEW x \in Exporters,
         (\E e \in Exports : StartExport(x, e)) \/ FinishWriting(x) \/ ReplaceCache(x) \/ UnlinkSpare(x)
  PROVE  COInv'
<1>1. SourcesOK
  BY DEF COInv
<1>2. CASE \E e \in Exports : StartExport(x, e)
  <2>1. PICK e \in Exports : StartExport(x, e)
    BY <1>2
  <2>2. spare' = Opened(x, e, spare) /\ Filed(spare')
    BY <2>1 DEF StartExport, Opened, Filed
  <2>3. exporting' = [exporting EXCEPT ![x] = [at |-> "writing", export |-> e]]
    BY <2>1 DEF StartExport
  <2>4. /\ DOMAIN exporting' = Exporters
        /\ \A y \in Exporters : exporting'[y].at # "still" =>
             DOMAIN exporting'[y] = {"at", "export"} /\ exporting'[y].export \in Exports
    BY <1>1, <2>3 DEF SourcesOK
  <2>5. SourcesOK'
    BY <1>1, <2>1, <2>2, <2>4 DEF SourcesOK, StartExport, Filed
  <2> QED
    BY <2>1, <2>5, SourcesStep DEF StartExport
<1>3. ASSUME NEW at, exporting[x].at # "still", exporting' = [exporting EXCEPT ![x].at = at]
      PROVE  /\ DOMAIN exporting' = Exporters
             /\ \A y \in Exporters : exporting'[y].at # "still" =>
                  DOMAIN exporting'[y] = {"at", "export"} /\ exporting'[y].export \in Exports
  BY <1>1, <1>3 DEF SourcesOK
<1>4. CASE FinishWriting(x)
  <2>1. /\ exporting[x].at # "still" /\ exporting' = [exporting EXCEPT ![x].at = "written"]
        /\ spare' = Closed(x, exporting[x].export, spare) /\ cache' = Closed(x, exporting[x].export, cache)
    BY <1>4 DEF FinishWriting
  <2>2. exporting[x].export \in Exports
    BY <1>1, <2>1 DEF SourcesOK
  <2>3. (cache' # Absent => Filed(cache')) /\ (spare' # Absent => Filed(spare'))
    BY <1>1, <2>1, <2>2, ClosedFiled DEF SourcesOK
  <2>4. SourcesOK'
    BY <1>1, <1>3, <1>4, <2>1, <2>3 DEF SourcesOK, FinishWriting, Filed
  <2> QED
    BY <1>4, <2>4, SourcesStep DEF FinishWriting
<1>5. CASE ReplaceCache(x)
  <2>1. /\ exporting[x].at # "still" /\ exporting' = [exporting EXCEPT ![x].at = "moved"]
        /\ cache' = (IF spare = Absent THEN cache ELSE spare) /\ spare' = Absent
    BY <1>5 DEF ReplaceCache
  <2>2. SourcesOK'
    BY <1>1, <1>3, <1>5, <2>1 DEF SourcesOK, ReplaceCache, Filed
  <2> QED
    BY <1>5, <2>2, SourcesStep DEF ReplaceCache
<1>6. CASE UnlinkSpare(x)
  <2>1. exporting' = [exporting EXCEPT ![x] = Still] /\ spare' = Absent
    BY <1>6 DEF UnlinkSpare
  <2>2. /\ DOMAIN exporting' = Exporters
        /\ \A y \in Exporters : exporting'[y].at # "still" =>
             DOMAIN exporting'[y] = {"at", "export"} /\ exporting'[y].export \in Exports
    BY <1>1, <2>1 DEF SourcesOK, Still
  <2>3. SourcesOK'
    BY <1>1, <1>6, <2>1, <2>2 DEF SourcesOK, UnlinkSpare, Filed
  <2> QED
    BY <1>6, <2>3, SourcesStep DEF UnlinkSpare
<1> QED
  BY <1>2, <1>4, <1>5, <1>6

\* A stage before the first batch: the server is as it was.
LEMMA StageStep ==
  ASSUME COInv, OnlyCycle, ~Begun(cycle), CycleOK(cycle', Len(cycles)),
         cycle'.at # "deliver" \/ cycle'.next = 1
  PROVE  COInv'
<1>1. SourcesOK' /\ Ended' /\ cycles' = cycles /\ server' = server
  BY DEF COInv, OnlyCycle, SourcesRest, SourcesOK, Filed, Ended
<1>2. ~Begun(cycle')
  BY DEF Begun
<1>3. cycle'.at = "deliver" =>
        Sent(cycle'.runs, 1, RowIds(server)) /\ Sent(cycle'.tasks, 1, RowIds(server))
  BY SentNone DEF CycleOK, Plain
<1>4. ServerOK(cycle, cycles, server)
  BY DEF COInv
<1>5. ServerOK(cycle', cycles, server)
  BY <1>2, <1>3, <1>4 DEF ServerOK
<1> QED
  BY <1>1, <1>5 DEF COInv

LEMMA KnownIds ==
  ASSUME COInv
  PROVE  DeviceId \in Identities /\ Salt \in Identities /\ Salt \notin Int
BY CollectorAssumption DEF COInv, SourcesOK, DeviceId, Salt

LEMMA CollectStep ==
  ASSUME COInv, Collect
  PROVE  COInv'
<1> DEFINE n == Len(cycles)
<1>1. cycle' = [Rest EXCEPT !.at = "runs", !.observed = n + 1, !.device = DeviceId] /\ OnlyCycle /\ cycle.at = "rest"
  BY DEF Collect, At
<1>2. DOMAIN cycle' = DOMAIN Rest /\ cycle'.at = "runs" /\ cycle'.observed = n + 1 /\ cycle'.device = DeviceId
      /\ cycle'.runs = {} /\ cycle'.tasks = {}
  BY <1>1 DEF Rest
<1>3. CycleOK(cycle', n)
  BY <1>2, KnownIds, FS_EmptySet DEF CycleOK, Plain
<1> QED
  BY <1>1, <1>2, <1>3, StageStep DEF Begun

LEMMA RunsPlain ==
  ASSUME COInv
  PROVE  Plain(CollectRuns)
<1> DEFINE S == {c \in files : /\ Sessions[c].parent # Absent /\ Sessions[c].ended
                    /\ RouteFamily(Sessions[c].role, Sessions[c].parent \in files /\ Sessions[Sessions[c].parent].plan) = "routecraft"}
           Run(s) == [kind |-> "run", id |-> <<s, Salt>>, device |-> SessionDevice, good |-> Sessions[s].good,
             marker |-> IF Sessions[s].parent \in files THEN MarkerForRun(Sessions[Sessions[s].parent].memory, Sessions[s].started) ELSE Absent]
           f == [s \in S |-> Run(s)]
<1>1. CollectRuns = {Run(s) : s \in S}
  BY DEF CollectRuns
<1>2. S \subseteq DOMAIN Sessions
  BY DEF COInv, SourcesOK
<1>3. \A s \in S : Run(s).kind = "run" /\ Run(s).id = <<s, Salt>>
  OBVIOUS
<1> HIDE DEF S, Run
<1>4. IsFiniteSet(S)
  BY <1>2, FS_Subset, CollectorAssumption
<1>5. f \in Surjection(S, CollectRuns)
  BY <1>1 DEF Surjection
<1>6. IsFiniteSet(CollectRuns)
  BY <1>4, <1>5, FS_Surjection
<1> QED
  BY <1>1, <1>3, <1>6, Ids25 DEF Plain

\* The tasks of some sessions, each at some of its times.
LEMMA MarksPlain ==
  ASSUME COInv, NEW S \in SUBSET DOMAIN Sessions, NEW kind \in {"task", "check"},
         NEW times \in [S -> SUBSET Nat], \A s \in S : IsFiniteSet(times[s])
  PROVE  Plain(UNION {{[kind |-> kind, id |-> <<s, t, Salt>>, device |-> SessionDevice, good |-> Sessions[s].good] : t \in times[s]} : s \in S})
<1> DEFINE Mark(s, t) == [kind |-> kind, id |-> <<s, t, Salt>>, device |-> SessionDevice, good |-> Sessions[s].good]
           Marks(s) == {Mark(s, t) : t \in times[s]}
           all == {Marks(s) : s \in S}
           f == [s \in S |-> Marks(s)]
<1>1. \A s \in S : \A r \in Marks(s) : r.kind = kind /\ \E t : r.id = <<s, t, Salt>>
  OBVIOUS
<1>2. ASSUME NEW s \in S
      PROVE  IsFiniteSet(Marks(s))
  <2> DEFINE g == [t \in times[s] |-> Mark(s, t)]
  <2> HIDE DEF Mark
  <2>1. g \in Surjection(times[s], Marks(s))
    BY DEF Surjection
  <2> QED
    BY <2>1, FS_Surjection
<1>3. IsFiniteSet(S)
  BY FS_Subset, CollectorAssumption
<1> HIDE DEF Marks
<1>4. f \in Surjection(S, all)
  BY DEF Surjection
<1>5. IsFiniteSet(all)
  BY <1>3, <1>4, FS_Surjection
<1>6. IsFiniteSet(UNION all)
  BY <1>2, <1>5, FS_UNION
<1>7. \A r \in UNION all : r.kind = kind /\ ~Numbered(r.id)
  <2> TAKE r \in UNION all
  <2>1. PICK s \in S : r \in Marks(s)
    OBVIOUS
  <2>2. r.kind = kind /\ \E t : r.id = <<s, t, Salt>>
    BY <1>1, <2>1
  <2> QED
    BY <2>2, KnownIds, Ids3
<1> QED
  BY <1>6, <1>7 DEF Plain, Marks

LEMMA TasksPlain ==
  ASSUME COInv
  PROVE  Plain(CollectMemoryTasks) /\ Plain(CollectVerificationTasks)
<1> DEFINE S == {c \in files : Sessions[c].plan}
<1>1. S \in SUBSET DOMAIN Sessions
  BY DEF COInv, SourcesOK
<1>2. \A s \in DOMAIN Sessions : /\ Sessions[s].memory \in SUBSET Nat /\ Sessions[s].checks \in SUBSET Nat
                                 /\ IsFiniteSet(Sessions[s].memory) /\ IsFiniteSet(Sessions[s].checks)
  <2> TAKE s \in DOMAIN Sessions
  <2> DEFINE times == Sessions[s].memory \cup Sessions[s].checks
  <2>1. times \subseteq Nat /\ IsFiniteSet(times)
    BY CollectorAssumption
  <2> QED
    BY <2>1, FS_Subset
<1> DEFINE memory == [s \in S |-> Sessions[s].memory]
           checks == [s \in S |-> Sessions[s].checks]
<1>3. memory \in [S -> SUBSET Nat] /\ checks \in [S -> SUBSET Nat]
      /\ \A s \in S : IsFiniteSet(memory[s]) /\ IsFiniteSet(checks[s])
  BY <1>1, <1>2
<1> DEFINE Mark(kind, s, t) == [kind |-> kind, id |-> <<s, t, Salt>>, device |-> SessionDevice, good |-> Sessions[s].good]
           All(kind, times) == UNION {{Mark(kind, s, t) : t \in times[s]} : s \in S}
<1>4. CollectMemoryTasks = All("task", memory)
  <2> DEFINE A(s) == {Mark("task", s, t) : t \in memory[s]}
             B(s) == {Mark("task", s, t) : t \in Sessions[s].memory}
  <2>1. CollectMemoryTasks = UNION {B(s) : s \in S} /\ All("task", memory) = UNION {A(s) : s \in S}
    BY DEF CollectMemoryTasks
  <2>2. \A s \in S : A(s) = B(s)
    OBVIOUS
  <2> HIDE DEF A, B, All
  <2> QED
    BY <2>1, <2>2
<1>5. CollectVerificationTasks = All("check", checks)
  <2> DEFINE A(s) == {Mark("check", s, t) : t \in checks[s]}
             B(s) == {Mark("check", s, t) : t \in Sessions[s].checks}
  <2>1. CollectVerificationTasks = UNION {B(s) : s \in S} /\ All("check", checks) = UNION {A(s) : s \in S}
    BY DEF CollectVerificationTasks
  <2>2. \A s \in S : A(s) = B(s)
    OBVIOUS
  <2> HIDE DEF A, B, All
  <2> QED
    BY <2>1, <2>2
<1> HIDE DEF S, memory, checks
<1> QED
  BY <1>1, <1>3, <1>4, <1>5, MarksPlain

LEMMA ReadStep ==
  ASSUME COInv, ReadRuns \/ ReadTasks
  PROVE  COInv'
<1>1. OnlyCycle /\ cycle.at \in {"runs", "tasks"} /\ CycleOK(cycle, Len(cycles))
  BY DEF ReadRuns, ReadTasks, At, COInv
<1> DEFINE Reads(at, runs, tasks) == /\ at \in {"tasks", "measure"}
                                     /\ cycle' = [cycle EXCEPT !.at = at, !.runs = runs, !.tasks = tasks]
                                     /\ Plain(runs) /\ Plain(tasks)
<1>2. \E at, runs, tasks : Reads(at, runs, tasks)
  <2>1. Plain(cycle.runs) /\ Plain(cycle.tasks) /\ Plain({})
    BY <1>1, FS_EmptySet DEF CycleOK, Plain
  <2>2. CASE ReadRuns
    <3>1. cycle' = [cycle EXCEPT !.at = "tasks", !.runs = CollectRuns, !.tasks = cycle.tasks]
      BY <1>1, <2>2 DEF ReadRuns, CycleOK, Rest
    <3>2. Reads("tasks", CollectRuns, cycle.tasks)
      BY <2>1, <3>1, RunsPlain
    <3> HIDE DEF Reads
    <3> QED
      BY <3>2
  <2>3. CASE ReadTasks
    <3>1. \/ cycle' = [cycle EXCEPT !.at = "measure", !.runs = cycle.runs, !.tasks = CollectMemoryTasks]
          \/ cycle' = [cycle EXCEPT !.at = "measure", !.runs = {}, !.tasks = {}]
      BY <1>1, <2>3 DEF ReadTasks, CycleOK, Rest
    <3>2. Reads("measure", cycle.runs, CollectMemoryTasks) \/ Reads("measure", {}, {})
      BY <2>1, <3>1, TasksPlain
    <3> HIDE DEF Reads
    <3> QED
      BY <3>2
  <2> QED
    BY <2>2, <2>3
<1>3. PICK at, runs, tasks : Reads(at, runs, tasks)
  BY <1>2
<1>4. /\ cycle'.at = at /\ cycle'.observed = cycle.observed /\ cycle'.device = cycle.device
      /\ cycle'.runs = runs /\ cycle'.tasks = tasks /\ DOMAIN cycle' = DOMAIN Rest
  BY <1>1, <1>3 DEF CycleOK, Rest
<1>5. CycleOK(cycle', Len(cycles))
  BY <1>1, <1>3, <1>4 DEF CycleOK
<1> QED
  BY <1>1, <1>3, <1>4, <1>5, StageStep DEF Begun

(***************************************************************************)
(* One observation: what its status claims, its rows show.                 *)
(***************************************************************************)
LEMMA FamilyRowFields ==
  ASSUME NEW family, NEW body
  PROVE  /\ FamilyRow(family, body).kind = family /\ FamilyRow(family, body).device = cycle.device
         /\ FamilyRow(family, body).id = <<family, cycle.device, cycle.observed>>
         /\ FamilyRow(family, body).body = body
BY DEF FamilyRow

LEMMA FamilyRowStamped ==
  ASSUME NEW family \in Families, NEW body, cycle.observed \in Int
  PROVE  Stamped(FamilyRow(family, body).id, cycle.observed)
<1> DEFINE id == <<family, cycle.device, cycle.observed>>
<1>1. FamilyRow(family, body).id = id
  BY FamilyRowFields
<1>2. Numbered(id) /\ id[3] = cycle.observed
  BY Ids3
<1> QED
  BY <1>1, <1>2 DEF Stamped

\* Nothing was observed: no status is healthy.
Silent(rows) ==
  /\ \A r \in rows : r.kind \in {"device", "security", "status"}
  /\ \A r, q \in rows : r.device = q.device
  /\ \A r \in rows : r.kind = "status" =>
       \A what \in {"collector", "core", "local", "decision", "security", "benchmark"} : r.body[what] # "healthy"

LEMMA NotObservedSilent == Silent(NotObserved)
<1> DEFINE none == [valid |-> FALSE]
           status == SystemStatus(Unavailable, {}, {}, FALSE, Absent, BenchmarkSummary(none), SecuritySummary(none))
           R1 == FamilyRow("device", Unavailable)
           R2 == FamilyRow("security", SecuritySummary(none))
           R3 == FamilyRow("status", status)
<1>1. NotObserved = {R1, R2, R3}
  BY DEF NotObserved
<1>2. \A what \in {"collector", "core", "local", "decision", "security", "benchmark"} : status[what] # "healthy"
  BY DEF SystemStatus, Unavailable, Health, BenchmarkSummary, SecuritySummary
<1> HIDE DEF status
<1>3. /\ R1.kind = "device" /\ R2.kind = "security" /\ R3.kind = "status" /\ R3.body = status
      /\ R1.device = R2.device /\ R2.device = R3.device
  BY FamilyRowFields
<1> HIDE DEF R1, R2, R3
<1> QED
  BY <1>1, <1>2, <1>3 DEF Silent

LEMMA SilentClaims ==
  ASSUME NEW rows, Silent(rows), NEW facts
  PROVE  ClaimsHeld(rows, facts)
BY DEF Silent, ClaimsHeld

LEMMA NotObservedRows ==
  ASSUME cycle.observed \in Int
  PROVE  \A r \in NotObserved : r.kind \in Families /\ r.device = cycle.device /\ Stamped(r.id, cycle.observed)
<1>1. \A r \in NotObserved : \E family \in {"device", "security", "status"} : \E body : r = FamilyRow(family, body)
  BY DEF NotObserved
<1>2. {"device", "security", "status"} \subseteq Families
  BY DEF Families
<1> QED
  BY <1>1, <1>2, FamilyRowFields, FamilyRowStamped

\* A health that is claimed is so.
LEMMA StatusClaims ==
  ASSUME NEW device, NEW usage, NEW memory, NEW local \in BOOLEAN, NEW decision, NEW benchmark, NEW security
  PROVE  LET status == SystemStatus(device, usage, memory, local, decision, benchmark, security) IN
         /\ status["collector"] = "healthy" => usage # {} /\ memory # {}
         /\ status["core"] = "healthy" => device.plugin = "healthy" /\ device.hooks = "healthy"
         /\ status["local"] = "healthy" => local
         /\ status["decision"] = "healthy" => decision # Absent
         /\ status["security"] = "healthy" => security.status = "clean"
         /\ status["benchmark"] = "healthy" => benchmark.status = "passed" /\ benchmark.measured
BY DEF SystemStatus, Health

LEMMA ObservedClaims ==
  ASSUME NEW device, NEW memory, NEW usage, NEW benchmark, NEW security, NEW status, NEW facts,
         cycle.observed \in Int,
         status["collector"] = "healthy" => usage # {} /\ memory # {},
         status["core"] = "healthy" => device.plugin = "healthy" /\ device.hooks = "healthy",
         status["local"] = "healthy" => facts.local /\ memory # {},
         status["decision"] = "healthy" => facts.decision /\ memory # {},
         status["security"] = "healthy" => security.status = "clean",
         status["benchmark"] = "healthy" => benchmark.valid /\ benchmark.status = "passed" /\ benchmark.measured,
         usage # {} => facts.usage
  PROVE  LET rows == Observed(device, memory, usage, benchmark, security, status) IN
         /\ ClaimsHeld(rows, facts)
         /\ \A r \in rows : r.kind \in Families /\ r.device = cycle.device /\ Stamped(r.id, cycle.observed)
<1> DEFINE rows == Observed(device, memory, usage, benchmark, security, status)
           R1 == FamilyRow("device", device)
           R2 == FamilyRow("security", security)
           R3 == FamilyRow("status", status)
           R4 == FamilyRow("benchmark", benchmark)
           M == {FamilyRow("memory", m) : m \in memory}
           U == {[FamilyRow("usage", u) EXCEPT !.id = <<"usage", cycle.device, cycle.observed, u.window>>] : u \in usage}
<1>1. rows = {R1, R2, R3} \cup M \cup U \cup Transported(R4)
  BY DEF Observed
<1>2. /\ R1.kind = "device" /\ R1.body = device /\ R1.device = cycle.device /\ Stamped(R1.id, cycle.observed)
      /\ R2.kind = "security" /\ R2.body = security /\ R2.device = cycle.device /\ Stamped(R2.id, cycle.observed)
      /\ R3.kind = "status" /\ R3.body = status /\ R3.device = cycle.device /\ Stamped(R3.id, cycle.observed)
      /\ R4.kind = "benchmark" /\ R4.body = benchmark /\ R4.device = cycle.device /\ Stamped(R4.id, cycle.observed)
  BY FamilyRowFields, FamilyRowStamped DEF Families
<1>3. \A r \in M : r.kind = "memory" /\ r.device = cycle.device /\ Stamped(r.id, cycle.observed)
  BY FamilyRowFields, FamilyRowStamped DEF Families
<1>4. \A r \in U : r.kind = "usage" /\ r.device = cycle.device /\ Stamped(r.id, cycle.observed)
  <2> TAKE r \in U
  <2>1. PICK u \in usage : r = [FamilyRow("usage", u) EXCEPT !.id = <<"usage", cycle.device, cycle.observed, u.window>>]
    OBVIOUS
  <2>2. r.kind = "usage" /\ r.device = cycle.device /\ r.id = <<"usage", cycle.device, cycle.observed, u.window>>
    BY <2>1 DEF FamilyRow
  <2> QED
    BY <2>2, Ids4 DEF Stamped, Families
<1>5. (M # {} <=> memory # {}) /\ (U # {} <=> usage # {})
  OBVIOUS
<1>6. Transported(R4) \subseteq {R4} /\ (benchmark.valid => Transported(R4) = {R4})
  BY <1>2 DEF Transported, ValidFamily
<1> HIDE DEF R1, R2, R3, R4, M, U, rows
<1>7. \A r \in rows : r.kind \in Families /\ r.device = cycle.device /\ Stamped(r.id, cycle.observed)
  BY <1>1, <1>2, <1>3, <1>4, <1>6 DEF Families
<1>8. /\ {r \in rows : r.kind # "check"} = rows
      /\ {r \in rows : r.kind = "status"} = {R3} /\ {r \in rows : r.kind = "device"} = {R1}
      /\ {r \in rows : r.kind = "security"} = {R2} /\ {r \in rows : r.kind = "memory"} = M
      /\ {r \in rows : r.kind = "usage"} = U /\ {r \in rows : r.kind = "benchmark"} = Transported(R4)
  BY <1>1, <1>2, <1>3, <1>4, <1>6
<1>9. ClaimsHeld(rows, facts)
  BY <1>2, <1>5, <1>6, <1>7, <1>8 DEF ClaimsHeld
<1> QED
  BY <1>7, <1>9 DEF rows

LEMMA MeasureStep ==
  ASSUME COInv, Measure
  PROVE  COInv'
<1>1. OnlyCycle /\ cycle.at = "measure" /\ CycleOK(cycle, Len(cycles)) /\ Len(cycles) \in Nat
  BY LenProperties DEF Measure, At, COInv, Ended
<1>2. PICK o \in Observations :
       LET decision == DecisionCounts(o.direct, o.own)
           memory == MemoryMetrics(o.local, decision, o.evaluation)
           usage == UsageSnapshots(o.lines, o.limits)
           benchmark == BenchmarkSummary(o.benchmark)
           security == SecuritySummary(o.security)
           rows == Observed(DeviceHealth(o), memory, usage, benchmark, security,
                            SystemStatus(DeviceHealth(o), usage, memory, o.local, decision, benchmark, security)) IN
       cycle' = [cycle EXCEPT !.at = "graph", !.facts = [local |-> o.local, decision |-> decision # Absent, usage |-> usage # {}],
                   !.rows = IF ValidV3(rows) THEN rows ELSE Replaced(rows),
                   !.runs = IF ValidV3(rows) THEN cycle.runs ELSE {}, !.tasks = IF ValidV3(rows) THEN cycle.tasks ELSE {}]
  BY DEF Measure
<1> DEFINE decision == DecisionCounts(o.direct, o.own)
           memory == MemoryMetrics(o.local, decision, o.evaluation)
           usage == UsageSnapshots(o.lines, o.limits)
           benchmark == BenchmarkSummary(o.benchmark)
           security == SecuritySummary(o.security)
           status == SystemStatus(DeviceHealth(o), usage, memory, o.local, decision, benchmark, security)
           rows == Observed(DeviceHealth(o), memory, usage, benchmark, security, status)
           facts == [local |-> o.local, decision |-> decision # Absent, usage |-> usage # {}]
<1>3. /\ o.local \in BOOLEAN
      /\ o.local \/ decision # Absent => memory # {}
      /\ benchmark.status = "passed" => benchmark.valid
  BY CollectorAssumption DEF MemoryMetrics, BenchmarkSummary
<1> HIDE DEF decision, memory, usage, benchmark, security
<1>4. /\ status["collector"] = "healthy" => usage # {} /\ memory # {}
      /\ status["core"] = "healthy" => DeviceHealth(o).plugin = "healthy" /\ DeviceHealth(o).hooks = "healthy"
      /\ status["local"] = "healthy" => o.local
      /\ status["decision"] = "healthy" => decision # Absent
      /\ status["security"] = "healthy" => security.status = "clean"
      /\ status["benchmark"] = "healthy" => benchmark.status = "passed" /\ benchmark.measured
  BY <1>3, StatusClaims
<1>5. facts.local = o.local /\ (facts.decision <=> decision # Absent) /\ (facts.usage <=> usage # {})
  OBVIOUS
<1>6. cycle.observed = Len(cycles) + 1 /\ cycle.observed \in Int
  BY <1>1 DEF CycleOK
<1> HIDE DEF status, facts
<1>7. /\ ClaimsHeld(rows, facts)
      /\ \A r \in rows : r.kind \in Families /\ r.device = cycle.device /\ Stamped(r.id, cycle.observed)
  BY <1>3, <1>4, <1>5, <1>6, ObservedClaims
<1>8. /\ ClaimsHeld(Replaced(rows), facts)
      /\ \A r \in Replaced(rows) : r.kind \in Families /\ r.device = cycle.device /\ Stamped(r.id, cycle.observed)
  BY <1>6, NotObservedSilent, SilentClaims, NotObservedRows DEF Replaced
<1>9. cycle' = [cycle EXCEPT !.at = "graph", !.facts = facts,
                  !.rows = IF ValidV3(rows) THEN rows ELSE Replaced(rows),
                  !.runs = IF ValidV3(rows) THEN cycle.runs ELSE {}, !.tasks = IF ValidV3(rows) THEN cycle.tasks ELSE {}]
  BY <1>2 DEF decision, memory, usage, benchmark, security, status, facts
<1> HIDE DEF rows
<1>10. /\ cycle'.at = "graph" /\ cycle'.observed = cycle.observed /\ cycle'.device = cycle.device /\ cycle'.facts = facts
       /\ cycle'.rows \in {rows, Replaced(rows)} /\ cycle'.runs \in {cycle.runs, {}} /\ cycle'.tasks \in {cycle.tasks, {}}
       /\ DOMAIN cycle' = DOMAIN Rest
  BY <1>1, <1>9 DEF CycleOK, Rest
<1>11. Fresher(cycle')
  BY <1>7, <1>8, <1>10 DEF Fresher
<1>12. Plain(cycle'.runs) /\ Plain(cycle'.tasks)
  BY <1>1, <1>10, FS_EmptySet DEF CycleOK, Plain
<1>13. CycleOK(cycle', Len(cycles))
  BY <1>1, <1>6, <1>10, <1>11, <1>12 DEF CycleOK
<1> QED
  BY <1>1, <1>10, <1>13, StageStep DEF Begun

(***************************************************************************)
(* The graph bundle, the checks, and what stands in for all of it.         *)
(***************************************************************************)
LEMMA FixtureFields ==
  /\ Silent(FixtureRows)
  /\ \A r \in FixtureRows : r.kind \in Families
  /\ RowIds(FixtureRows) = FixtureIds
<1> DEFINE Fixed(r) == [r EXCEPT !.id = <<r.kind, "fixture", 0>>, !.device = "fixture"]
<1>1. FixtureRows = {Fixed(r) : r \in NotObserved}
  BY DEF FixtureRows
<1>2. ASSUME NEW family, NEW body
      PROVE  LET r == Fixed(FamilyRow(family, body)) IN
             r.kind = family /\ r.id = <<family, "fixture", 0>> /\ r.device = "fixture" /\ r.body = body
  BY DEF FamilyRow
<1>3. \A r \in NotObserved : Fixed(r).kind = r.kind /\ Fixed(r).id = <<r.kind, "fixture", 0>>
                             /\ Fixed(r).device = "fixture" /\ Fixed(r).body = r.body
  <2>1. \A r \in NotObserved : \E family, body : r = FamilyRow(family, body)
    BY DEF NotObserved
  <2> HIDE DEF Fixed
  <2> QED
    BY <1>2, <2>1, FamilyRowFields
<1>4. \A kind \in {"device", "security", "status"} : \E r \in NotObserved : r.kind = kind
  BY FamilyRowFields DEF NotObserved
<1>5. \A r \in NotObserved : r.kind \in {"device", "security", "status"}
  BY NotObservedSilent DEF Silent
<1> HIDE DEF Fixed
<1>6. Silent(FixtureRows)
  BY <1>1, <1>3, NotObservedSilent DEF Silent
<1>7. \A r \in FixtureRows : r.kind \in Families
  BY <1>1, <1>3, <1>5 DEF Families
<1>8. ASSUME NEW id \in RowIds(FixtureRows)
      PROVE  id \in FixtureIds
  <2>1. PICK q \in FixtureRows : id = q.id
    BY DEF RowIds
  <2>2. PICK r \in NotObserved : q = Fixed(r)
    BY <1>1
  <2>3. id = <<r.kind, "fixture", 0>> /\ r.kind \in {"device", "security", "status"}
    BY <1>3, <1>5, <2>1, <2>2
  <2> QED
    BY <2>3 DEF FixtureIds
<1>9. ASSUME NEW id \in FixtureIds
      PROVE  id \in RowIds(FixtureRows)
  <2>1. PICK kind \in {"device", "security", "status"} : id = <<kind, "fixture", 0>>
    BY DEF FixtureIds
  <2>2. PICK r \in NotObserved : r.kind = kind
    BY <1>4
  <2>3. Fixed(r) \in FixtureRows /\ Fixed(r).id = id
    BY <1>1, <1>3, <2>1, <2>2
  <2> QED
    BY <2>3 DEF RowIds
<1> QED
  BY <1>6, <1>7, <1>8, <1>9

LEMMA FixtureOK ==
  ASSUME NEW facts, NEW n \in Int
  PROVE  PayloadOK(FixtureRows, facts, n)
<1> DEFINE runs == {r \in FixtureRows : r.kind = "graph"}
           details == {r \in FixtureRows : r.kind = "detail"}
<1>1. runs = {} /\ details = {} /\ runs \cup details = {}
  BY FixtureFields DEF Families
<1>2. Cardinality(runs \cup details) <= MaxDetail
  <2>1. Cardinality(runs \cup details) = 0
    BY <1>1, FS_EmptySet
  <2> HIDE DEF runs, details
  <2> QED
    BY <2>1, CollectorAssumption
<1>3. GraphsWhole(FixtureRows, facts)
  BY <1>1, <1>2 DEF GraphsWhole
<1>4. {r \in FixtureRows : r.kind \in Families} = FixtureRows
  BY FixtureFields
<1>5. ObservedIds(FixtureRows) = FixtureIds
  BY <1>4, FixtureFields DEF ObservedIds
<1>6. Marked(FixtureRows, n)
  BY <1>5, FixtureFields DEF Marked
<1> QED
  BY <1>3, <1>6, FixtureFields, SilentClaims DEF PayloadOK

\* Rows of other families change no claim, as long as they name the device.
LEMMA ClaimsMore ==
  ASSUME NEW rows, NEW more, NEW facts, NEW then, ClaimsHeld(rows, facts),
         then.local = facts.local, then.decision = facts.decision, then.usage = facts.usage,
         \A r \in more : r.kind \in {"graph", "detail", "summary", "check"},
         \A r, q \in rows \cup more : r.kind # "check" /\ q.kind # "check" => r.device = q.device
  PROVE  ClaimsHeld(rows \cup more, then)
<1> DEFINE Of(all, kind) == {r \in {x \in all : x.kind # "check"} : r.kind = kind}
<1>1. \A kind \in Families : Of(rows \cup more, kind) = Of(rows, kind)
  BY DEF Families
<1>2. \A r, q \in {x \in rows \cup more : x.kind # "check"} : r.device = q.device
  OBVIOUS
<1> QED
  BY <1>1, <1>2 DEF ClaimsHeld, Families

LEMMA Normalized ==
  ASSUME NEW bundle
  PROVE  LET rows == NormalizeGraphBundle(bundle) IN
         /\ \A r \in rows : r.kind \in {"graph", "detail"} /\ r.device = cycle.device /\ ~Numbered(r.id)
         /\ \A d \in rows : d.kind = "detail" => \E r \in rows : r.kind = "graph" /\ r.id = d.run
<1> DEFINE Run(r) == [kind |-> "graph", id |-> GraphId(r), device |-> cycle.device, body |-> r]
           Its(d) == GraphId(CHOOSE r \in bundle.runs : r.run = d.run)
           Detail(d) == [kind |-> "detail", id |-> <<"detail", cycle.device, d.from.at, d.run, d.number>>,
                         device |-> cycle.device, run |-> Its(d), body |-> d]
           runs == {Run(r) : r \in bundle.runs}
           details == {Detail(d) : d \in bundle.details}
           rows == NormalizeGraphBundle(bundle)
<1>1. rows = {} \/ rows = runs \/ (rows = runs \cup details /\ Coherent(bundle))
  BY DEF NormalizeGraphBundle
<1>2. \A r \in runs : r.kind = "graph" /\ r.device = cycle.device /\ ~Numbered(r.id)
  BY Ids4 DEF GraphId, Families
<1>3. \A d \in details : d.kind = "detail" /\ d.device = cycle.device /\ ~Numbered(d.id)
  <2> TAKE d \in details
  <2>1. PICK x \in bundle.details : d = Detail(x)
    OBVIOUS
  <2>2. d.kind = "detail" /\ d.device = cycle.device /\ d.id = <<"detail", cycle.device, x.from.at, x.run, x.number>>
    BY <2>1
  <2> HIDE DEF Detail, details
  <2> QED
    BY <2>2, Ids25
<1>4. ASSUME Coherent(bundle), NEW d \in details
      PROVE  \E r \in runs : r.id = d.run
  <2>1. PICK x \in bundle.details : d = Detail(x)
    OBVIOUS
  <2>2. \E r \in bundle.runs : r.run = x.run
    BY <1>4 DEF Coherent
  <2> DEFINE r == CHOOSE r \in bundle.runs : r.run = x.run
  <2>3. r \in bundle.runs
    BY <2>2
  <2>4. d.run = GraphId(r)
    BY <2>1
  <2> HIDE DEF r
  <2>5. Run(r) \in runs /\ Run(r).id = GraphId(r)
    BY <2>3
  <2> QED
    BY <2>4, <2>5
<1> HIDE DEF runs, details, rows
<1> QED
  BY <1>1, <1>2, <1>3, <1>4 DEF rows

\* Rows of a bundle of the cache come from its export, details all or none.
LEMMA NormalizedExport ==
  ASSUME NEW e \in Exports
  PROVE  LET rows == NormalizeGraphBundle(CollectorGraphBundle(e)) IN
         /\ \A r \in rows : r.body.from = e
         /\ Cardinality({r \in rows : r.kind = "detail"}) \in {0, e.details}
<1> DEFINE bundle == CollectorGraphBundle(e)
           Run(r) == [kind |-> "graph", id |-> GraphId(r), device |-> cycle.device, body |-> r]
           Its(d) == GraphId(CHOOSE r \in bundle.runs : r.run = d.run)
           Detail(d) == [kind |-> "detail", id |-> <<"detail", cycle.device, d.from.at, d.run, d.number>>,
                         device |-> cycle.device, run |-> Its(d), body |-> d]
           runs == {Run(r) : r \in bundle.runs}
           details == {Detail(d) : d \in bundle.details}
           rows == NormalizeGraphBundle(bundle)
<1>1. rows = {} \/ rows = runs \/ rows = runs \cup details
  BY DEF NormalizeGraphBundle
<1>2. bundle.runs = {GraphRun(e)} /\ bundle.details \in {{}, Details(e)}
  BY DEF CollectorGraphBundle, Bundle
<1>3. \A r \in bundle.runs : r.from = e
  BY <1>2 DEF GraphRun
<1>4. \A d \in bundle.details : d.from = e /\ d.number \in 1 .. e.details
  BY <1>2 DEF Details
<1> HIDE DEF bundle
<1>5. \A r \in runs : r.kind = "graph" /\ r.body.from = e
  BY <1>3
<1>6. \A d \in details : d.kind = "detail" /\ d.body.from = e
  BY <1>4
<1>7. Cardinality(details) \in {0, e.details}
  <2>1. CASE bundle.details = {}
    <3>1. details = {}
      BY <2>1
    <3> QED
      BY <3>1, FS_EmptySet
  <2>2. CASE bundle.details = Details(e)
    <3> DEFINE n == e.details
               D(k) == [run |-> e.run, from |-> e, number |-> k]
               f == [k \in 1 .. n |-> Detail(D(k))]
    <3>1. n \in Nat
      BY CollectorAssumption
    <3>2. Details(e) = {D(k) : k \in 1 .. n}
      BY DEF Details
    <3>3. \A k : Detail(D(k)).body = D(k) /\ D(k).number = k
      OBVIOUS
    <3> HIDE DEF Detail, D
    <3>4. details = {Detail(D(k)) : k \in 1 .. n}
      BY <2>2, <3>2
    <3> HIDE DEF details
    <3>5. f \in Surjection(1 .. n, details)
      BY <3>4 DEF Surjection
    <3>6. f \in Injection(1 .. n, details)
      <4>1. \A k, j \in 1 .. n : f[k] = f[j] => k = j
        BY <3>3
      <4> QED
        BY <3>5, <4>1 DEF Surjection, Injection, IsInjective
    <3> HIDE DEF n
    <3>7. IsFiniteSet(1 .. n) /\ Cardinality(1 .. n) = n
      BY <3>1, FS_Interval
    <3>8. Cardinality(details) = n
      BY <3>5, <3>6, <3>7, FS_Surjection
    <3> QED
      BY <3>8 DEF n
  <2> QED
    BY <1>2, <2>1, <2>2 DEF bundle
<1>8. {r \in rows : r.kind = "detail"} \in {{}, details}
  <2> HIDE DEF rows, runs, details
  <2> QED
    BY <1>1, <1>5, <1>6
<1>9. \A r \in rows : r.body.from = e
  <2> HIDE DEF rows, runs, details
  <2> QED
    BY <1>1, <1>5, <1>6
<1>10. Cardinality({r \in rows : r.kind = "detail"}) \in {0, e.details}
  <2> HIDE DEF rows, details
  <2> QED
    BY <1>7, <1>8, FS_EmptySet
<1> QED
  BY <1>9, <1>10 DEF rows, bundle

LEMMA NormalizedNothing == NormalizeGraphBundle(NoBundle) = {}
BY DEF NormalizeGraphBundle, NoBundle, Bundle

LEMMA ReadGraphStep ==
  ASSUME COInv, ReadGraph
  PROVE  COInv'
<1>1. OnlyCycle /\ cycle.at = "graph" /\ CycleOK(cycle, Len(cycles)) /\ Len(cycles) \in Nat /\ SourcesOK
  BY LenProperties DEF ReadGraph, At, COInv, Ended
<1> DEFINE facts == [cached |-> cache # Absent, local |-> cycle.facts.local, decision |-> cycle.facts.decision,
                     usage |-> cycle.facts.usage]
<1>2. PICK bundle \in (IF cache = Absent THEN LegacyFiles ELSE Readable(cache)), summary \in Summaries :
        LET rows == cycle.rows \cup SummaryRows(summary) \cup NormalizeGraphBundle(bundle) IN
        cycle' = [cycle EXCEPT !.at = "checks", !.facts = facts,
                    !.rows = IF ValidV4(rows) THEN rows ELSE FixtureRows,
                    !.runs = IF ValidV4(rows) THEN cycle.runs ELSE {}, !.tasks = IF ValidV4(rows) THEN cycle.tasks ELSE {}]
  BY DEF ReadGraph
<1> DEFINE S == SummaryRows(summary)
           G == NormalizeGraphBundle(bundle)
           rows == cycle.rows \cup S \cup G
           n == cycle.observed
           runs == {r \in rows : r.kind = "graph"}
           details == {r \in rows : r.kind = "detail"}
<1>3. n = Len(cycles) + 1 /\ n \in Int /\ Fresher(cycle) /\ Plain(cycle.runs) /\ Plain(cycle.tasks)
  BY <1>1 DEF CycleOK
<1>4. facts.local = cycle.facts.local /\ facts.decision = cycle.facts.decision /\ facts.usage = cycle.facts.usage
      /\ (facts.cached <=> cache # Absent)
  OBVIOUS
<1> HIDE DEF facts
<1>5. \A r \in S : r.kind = "summary" /\ r.device = cycle.device /\ ~Numbered(r.id)
  <2> TAKE r \in S
  <2>1. PICK x \in summary : r = [kind |-> "summary", id |-> <<"summary", cycle.device, x.number>>, device |-> cycle.device, body |-> x]
    BY DEF SummaryRows
  <2>2. r.kind = "summary" /\ r.device = cycle.device /\ r.id = <<"summary", cycle.device, x.number>>
    BY <2>1
  <2> QED
    BY <2>2, Ids3 DEF Families
<1>6. /\ \A r \in G : r.kind \in {"graph", "detail"} /\ r.device = cycle.device /\ ~Numbered(r.id)
      /\ \A d \in G : d.kind = "detail" => \E r \in G : r.kind = "graph" /\ r.id = d.run
  BY Normalized
<1>7. \A r \in cycle.rows : r.kind \in Families /\ r.device = cycle.device /\ Stamped(r.id, n)
  BY <1>3 DEF Fresher
<1>8. cache # Absent => G = {} \/ \E e \in Exports : /\ \A r \in G : r.body.from = e
                                                    /\ Cardinality({r \in G : r.kind = "detail"}) \in {0, e.details}
  <2> SUFFICES ASSUME cache # Absent
               PROVE  G = {} \/ \E e \in Exports : /\ \A r \in G : r.body.from = e
                                                   /\ Cardinality({r \in G : r.kind = "detail"}) \in {0, e.details}
    OBVIOUS
  <2>1. cache.export \in Exports
    BY <1>1 DEF SourcesOK, Filed
  <2>2. bundle = NoBundle \/ bundle = CollectorGraphBundle(cache.export)
    BY <1>2 DEF Readable
  <2> QED
    BY <2>1, <2>2, NormalizedExport, NormalizedNothing
<1>9. cycle' = [cycle EXCEPT !.at = "checks", !.facts = facts,
                  !.rows = IF ValidV4(rows) THEN rows ELSE FixtureRows,
                  !.runs = IF ValidV4(rows) THEN cycle.runs ELSE {}, !.tasks = IF ValidV4(rows) THEN cycle.tasks ELSE {}]
  BY <1>2
<1> HIDE DEF S, G
<1>10. runs \subseteq G /\ details = {r \in G : r.kind = "detail"} /\ runs \cup details = {r \in rows : r.kind \in {"graph", "detail"}}
       /\ {r \in G : r.kind = "graph"} \subseteq runs
  BY <1>5, <1>6, <1>7 DEF Families
<1>11. ASSUME ValidV4(rows)
       PROVE  PayloadOK(rows, facts, n)
  <2>1. Cardinality(runs \cup details) <= MaxDetail
    BY <1>10, <1>11 DEF ValidV4
  <2>2. \A d \in details : \E r \in runs : r.id = d.run
    BY <1>6, <1>10
  <2>3. (runs # {} /\ facts.cached) =>
          \E e \in Exports : (\A r \in runs \cup details : r.body.from = e) /\ Cardinality(details) \in {0, e.details}
    <3> HIDE DEF rows, runs, details
    <3> QED
      BY <1>4, <1>8, <1>10
  <2>4. GraphsWhole(rows, facts)
    BY <2>1, <2>2, <2>3 DEF GraphsWhole
  <2>5. ClaimsHeld(rows, facts)
    <3>1. ClaimsHeld(cycle.rows, cycle.facts) /\ rows = cycle.rows \cup (S \cup G)
      BY <1>3 DEF Fresher
    <3>2. \A r \in S \cup G : r.kind \in {"graph", "detail", "summary", "check"}
      BY <1>5, <1>6
    <3>3. \A r \in cycle.rows \cup (S \cup G) : r.device = cycle.device
      BY <1>5, <1>6, <1>7
    <3> QED
      BY <1>4, <3>1, <3>2, <3>3, ClaimsMore
  <2>6. Marked(rows, n)
    BY <1>5, <1>6, <1>7 DEF Marked, Families
  <2> QED
    BY <2>4, <2>5, <2>6 DEF PayloadOK
<1> HIDE DEF rows
<1>12. /\ cycle'.at = "checks" /\ cycle'.observed = n /\ cycle'.device = cycle.device /\ cycle'.facts = facts
       /\ cycle'.rows = (IF ValidV4(rows) THEN rows ELSE FixtureRows)
       /\ cycle'.runs \in {cycle.runs, {}} /\ cycle'.tasks \in {cycle.tasks, {}}
       /\ DOMAIN cycle' = DOMAIN Rest
  BY <1>1, <1>9 DEF CycleOK, Rest
<1>13. PayloadOK(cycle'.rows, cycle'.facts, n)
  BY <1>3, <1>11, <1>12, FixtureOK
<1>14. Plain(cycle'.runs) /\ Plain(cycle'.tasks)
  BY <1>3, <1>12, FS_EmptySet DEF Plain
<1>15. cycle.device \in Identities
  BY <1>1 DEF CycleOK
<1>16. CycleOK(cycle', Len(cycles))
  BY <1>3, <1>12, <1>13, <1>14, <1>15 DEF CycleOK
<1> QED
  BY <1>1, <1>12, <1>16, StageStep DEF Begun

LEMMA ChecksJoin ==
  ASSUME NEW rows, NEW facts, NEW n \in Int, PayloadOK(rows, facts, n),
         NEW checks, \A r \in checks : r.kind = "check" /\ ~Numbered(r.id)
  PROVE  PayloadOK(rows \cup checks, facts, n)
<1>1. /\ {r \in rows \cup checks : r.kind = "graph"} = {r \in rows : r.kind = "graph"}
      /\ {r \in rows \cup checks : r.kind = "detail"} = {r \in rows : r.kind = "detail"}
      /\ {r \in rows \cup checks : r.kind \in Families} = {r \in rows : r.kind \in Families}
  BY DEF Families
<1>2. GraphsWhole(rows \cup checks, facts)
  BY <1>1 DEF GraphsWhole, PayloadOK
<1>3. ClaimsHeld(rows, facts) /\ \A r, q \in rows : r.kind # "check" /\ q.kind # "check" => r.device = q.device
  BY DEF PayloadOK, ClaimsHeld
<1>4. ClaimsHeld(rows \cup checks, facts)
  BY <1>3, ClaimsMore
<1>5. Marked(rows \cup checks, n)
  BY <1>1 DEF Marked, PayloadOK, ObservedIds, Families
<1> QED
  BY <1>2, <1>4, <1>5 DEF PayloadOK

LEMMA ReadChecksStep ==
  ASSUME COInv, ReadChecks
  PROVE  COInv'
<1>1. OnlyCycle /\ cycle.at = "checks" /\ CycleOK(cycle, Len(cycles)) /\ Len(cycles) \in Nat
  BY LenProperties DEF ReadChecks, At, COInv, Ended
<1>2. PICK checks \in {CollectVerificationTasks, {}} :
        LET valid == Few(checks) /\ \A r \in checks : ValidSessionRow(r) IN
        cycle' = [cycle EXCEPT !.at = "deliver", !.next = 1, !.rows = IF valid THEN cycle.rows \cup checks ELSE FixtureRows,
                    !.runs = IF valid THEN cycle.runs ELSE {}, !.tasks = IF valid THEN cycle.tasks ELSE {}]
  BY DEF ReadChecks
<1>3. \A r \in checks : r.kind = "check" /\ ~Numbered(r.id)
  <2>1. \A r \in CollectVerificationTasks : r.kind = "check"
    BY DEF CollectVerificationTasks
  <2> QED
    BY <2>1, TasksPlain DEF Plain
<1>4. /\ cycle'.at = "deliver" /\ cycle'.observed = cycle.observed /\ cycle'.device = cycle.device
      /\ cycle'.facts = cycle.facts /\ cycle'.next = 1 /\ cycle'.rows \in {cycle.rows \cup checks, FixtureRows}
      /\ cycle'.runs \in {cycle.runs, {}} /\ cycle'.tasks \in {cycle.tasks, {}}
      /\ DOMAIN cycle' = DOMAIN Rest
  BY <1>1, <1>2 DEF CycleOK, Rest
<1>5. /\ cycle.observed = Len(cycles) + 1 /\ cycle.observed \in Int /\ cycle.device \in Identities
      /\ Plain(cycle.runs) /\ Plain(cycle.tasks) /\ PayloadOK(cycle.rows, cycle.facts, cycle.observed)
  BY <1>1 DEF CycleOK
<1>6. PayloadOK(cycle'.rows, cycle'.facts, cycle'.observed)
  BY <1>3, <1>4, <1>5, ChecksJoin, FixtureOK
<1>7. Plain(cycle'.runs) /\ Plain(cycle'.tasks)
  BY <1>4, <1>5, FS_EmptySet DEF Plain
<1>8. CycleOK(cycle', Len(cycles))
  BY <1>4, <1>5, <1>6, <1>7 DEF CycleOK
<1> QED
  BY <1>1, <1>4, <1>8, StageStep DEF Begun

\* The sources, the collection under way, the payloads and the server are
\* sound at every step.
THEOREM CollectorSound == CollectorSpec => []COInv
<1>1. ASSUME CollectorInit
      PROVE  COInv
  <2>1. /\ files = {} /\ config = [device |-> Absent, memory |-> Absent] /\ cache = Absent /\ spare = Absent
        /\ exporting = [x \in Exporters |-> Still] /\ cycle = Rest /\ cycles = <<>> /\ server = {}
    BY <1>1 DEF CollectorInit
  <2>2. SourcesOK
    BY <2>1 DEF SourcesOK, Still
  <2>3. Ended /\ Len(cycles) = 0
    BY <2>1 DEF Ended, Range
  <2>4. CycleOK(Rest, 0)
    BY FS_EmptySet DEF CycleOK, Rest, Plain
  <2>5. RowIds(server) = {} /\ ~Begun(Rest) /\ Rest.at = "rest"
    BY <2>1 DEF RowIds, Begun, Rest
  <2>6. ServerOK(Rest, cycles, server)
    BY <2>1, <2>3, <2>5 DEF ServerOK, AllOrNone
  <2> QED
    BY <2>1, <2>2, <2>3, <2>4, <2>6 DEF COInv
<1>2. ASSUME COInv, CollectorNext
      PROVE  COInv'
  <2>1. CASE \E s \in DOMAIN Sessions : SessionWritten(s) \/ SessionAges(s)
    BY <1>2, <2>1, SessionStep
  <2>2. CASE \E x \in Exporters : (\E e \in Exports : StartExport(x, e)) \/ FinishWriting(x) \/ ReplaceCache(x) \/ UnlinkSpare(x)
    BY <1>2, <2>2, ExportStep
  <2>3. CASE \E which \in {"device", "memory"}, id \in Identities : Configure(which, id)
    BY <1>2, <2>3, ConfigureStep
  <2>4. CASE Collect \/ ReadRuns \/ ReadTasks \/ Measure
    BY <1>2, <2>4, CollectStep, ReadStep, MeasureStep
  <2>5. CASE ReadGraph \/ ReadChecks \/ Deliver \/ AnswerLost \/ NotDelivered
    BY <1>2, <2>5, ReadGraphStep, ReadChecksStep, DeliverStep
  <2> QED
    BY <1>2, <2>1, <2>2, <2>3, <2>4, <2>5 DEF CollectorNext
<1>3. ASSUME COInv, UNCHANGED collectorVars
      PROVE  COInv'
  BY <1>3 DEF collectorVars, COInv, SourcesOK, Filed, Ended
<1> QED
  BY <1>1, <1>2, <1>3, PTL DEF CollectorSpec

LEMMA PayloadsOK ==
  ASSUME COInv
  PROVE  \A k \in DOMAIN cycles : k \in Nat /\ Arrived(cycles[k], k, RowIds(server))
<1>1. DOMAIN cycles = 1 .. Len(cycles) /\ Len(cycles) \in Nat
  BY LenProperties DEF COInv, Ended
<1> QED
  BY <1>1 DEF COInv, ServerOK

\* Whatever exporters write to the cache while a collection reads it, its graph
\* rows come with their run, within the cap and from one export.
THEOREM GraphsAreCoherent == CollectorSpec => []GraphCoherent
<1>1. COInv => GraphCoherent
  BY PayloadsOK DEF Arrived, PayloadOK, GraphsWhole, GraphCoherent
<1> QED
  BY <1>1, CollectorSound, PTL

\* Whatever a collection finds, a payload's status claims no health that its
\* rows do not show, and the families of its observation name one device.
THEOREM ClaimsAreBacked == CollectorSpec => []ClaimsBacked
<1>1. COInv => ClaimsBacked
  BY PayloadsOK DEF Arrived, PayloadOK, ClaimsHeld, ClaimsBacked
<1> QED
  BY <1>1, CollectorSound, PTL

\* For every number of rows, size of a batch and point where delivery fails:
\* what was delivered is all there, an observation is there whole or not at
\* all, and no detail of a graph is there without its run.
THEOREM DeliveriesAreWhole == CollectorSpec => []DeliveredWhole
<1>1. ASSUME COInv
      PROVE  DeliveredWhole
  <2>1. \A d \in {r \in server : r.kind = "detail"} : d.run \in {r.id : r \in server}
    BY <1>1 DEF COInv, ServerOK, RowIds
  <2>2. ASSUME NEW k \in DOMAIN cycles
        PROVE  LET p == cycles[k]
                   there == {r.id : r \in server}
                   observed == {r.id : r \in {q \in p.rows : q.kind \in {"device", "status", "usage", "memory", "benchmark", "security"}}} IN
               /\ p.delivered => {r.id : r \in p.rows \cup p.runs \cup p.tasks} \subseteq there
               /\ observed \subseteq there \/ observed \cap there = {}
    <3>1. Arrived(cycles[k], k, RowIds(server))
      BY <1>1, PayloadsOK
    <3> QED
      BY <3>1 DEF Arrived, AllOrNone, ObservedIds, RowIds, Families
  <2> QED
    BY <2>1, <2>2 DEF DeliveredWhole
<1> QED
  BY <1>1, CollectorSound, PTL
================================================================================
