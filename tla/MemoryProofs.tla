----------------------------- MODULE MemoryProofs -----------------------------
(***************************************************************************)
(* The Decision Store stays whole, and what is published only grows, for   *)
(* every number of devices, processes, records and retries, over failed    *)
(* writes, rollbacks, kills and rebases, as long as no process removes the *)
(* lock file of another that is at work.                                   *)
(***************************************************************************)
EXTENDS MemoryStore, FiniteSetTheorems, SequenceTheorems, TLAPS

Ops == {"write", "unlink", "restore"}
Syncs == {"commit", "pull", "push"}
Kinds == {"case", "candidate", "rule"}
Record == {"case"} \cup CandidateRecord \cup RuleRecord
Damage == SUBSET Ids
Writes == Seq([id : Ids, record : Record])

\* One process at a time has a device, and no rebase is stopped there once it
\* has begun.
Working(p) == pc[p].op \notin Entering
Locked ==
  /\ DOMAIN lock = Devices /\ DOMAIN pc = Procs
  /\ \A p \in Procs : Working(p) =>
       lock[On[p]] = p /\ (pc[p].op # "held" => rebasing[On[p]] = None)
Shape(c) ==
  \/ c.op \in Entering \cup {"held"}
  \/ /\ DOMAIN c = {"op", "todo", "original"} /\ c.op \in Ops
     /\ c.todo \in Writes
     /\ c.original = [id \in DOMAIN c.original |-> c.original[id]]
  \/ DOMAIN c = {"op", "mode", "attempts"} /\ c.op \in Syncs
Shaped == \A p \in Procs : Shape(pc[p])
Counts == [Kinds -> Nat]

\* A store holds records of its kinds, no newer than the newest made.
Known(id, counts) == id \in Ids /\ id[2] <= counts[id[1]]
Fits(id, record) ==
  /\ id[1] = "case" => record = "case"
  /\ id[1] = "candidate" =>
       record \in CandidateRecord /\ (record.rule # Empty => record.rule[1] = "rule")
  /\ id[1] = "rule" => record \in RuleRecord
Typed(records, counts) ==
  /\ records = [id \in DOMAIN records |-> records[id]]
  /\ \A id \in DOMAIN records : Known(id, counts) /\ Fits(id, records[id])
\* A store that may be published: linked, but for what rollbacks removed.
Sound(records, counts, damaged) ==
  Typed(records, counts) /\ S!Founded(records) /\ Linked(records, damaged)

\* What a rollback to the originals takes away, and what it restores.
Undone(original) == {id \in DOMAIN original : original[id] = None}
Was(records, original) == Put(Drop(records, Undone(original)), Drop(original, Undone(original)))
Restoring(d) == \E p \in Procs : On[p] = d /\ Doing(p, "restore")

Stores ==
  /\ DOMAIN tree = Devices /\ DOMAIN head = Devices /\ DOMAIN base = Devices /\ DOMAIN rebasing = Devices
  /\ \A d \in Devices :
       /\ Typed(tree[d], made) /\ S!Founded(tree[d]) /\ (~Restoring(d) => Linked(tree[d], torn))
       /\ Sound(head[d], made, torn) /\ Typed(base[d], made)
       /\ rebasing[d] # None => Sound(rebasing[d], made, torn)
  /\ Sound(remote, made, torn)
\* Each copy of the records extends the one it comes from.
Chained ==
  \A d \in Devices :
    /\ S!Extends(base[d], head[d]) /\ S!Extends(head[d], tree[d]) /\ S!Extends(base[d], remote)
    /\ rebasing[d] # None => S!Extends(base[d], rebasing[d]) /\ S!Extends(rebasing[d], remote)

\* A rule that may be written rests on cases that are in the tree.
Rests(rule, records) ==
  \/ \E a, b \in rule.evidence \cap S!CaseIds(records) : a # b
  \/ rule.authoritative /\ rule.evidence # {}
Update(old, new) == old = new \/ (old.rule = Empty /\ old.evidence \subseteq new.evidence)
\* The writes that are left: on records the command may undo, updates that
\* only add, founded rules, and rules before the candidates that name them.
ToWrite(todo, original, records, damaged) ==
  \A i \in 1 .. Len(todo) :
    /\ todo[i].id \in DOMAIN original /\ Fits(todo[i].id, todo[i].record)
    /\ original[todo[i].id] # None => Update(original[todo[i].id], todo[i].record)
    /\ todo[i].id[1] = "rule" => Rests(todo[i].record, records)
    /\ todo[i].id[1] = "candidate" /\ todo[i].record.rule # Empty =>
         \/ todo[i].record.rule \in DOMAIN records \cup damaged
         \/ \E j \in 1 .. i - 1 : todo[j].id = todo[i].record.rule
Undoable(original, records, committed, counts, damaged) ==
  /\ \A id \in DOMAIN original :
       /\ Known(id, counts)
       /\ original[id] # None =>
            id[1] = "candidate" /\ Fits(id, original[id]) /\ id \in DOMAIN records
  /\ Sound(Was(records, original), counts, damaged)
  /\ S!Extends(committed, Was(records, original))
Writer(c, records, committed, counts, damaged) ==
  /\ c.op \in Ops => Undoable(c.original, records, committed, counts, damaged)
  /\ c.op = "write" => ToWrite(c.todo, c.original, records, damaged)
  /\ c.op = "restore" =>
       DOMAIN records \cap Undone(c.original) = {} /\ Linked(records, damaged \cup Undone(c.original))
Writers == \A p \in Procs : Writer(pc[p], tree[On[p]], head[On[p]], made, torn)

MInv ==
  Locked /\ Shaped /\ made \in Counts /\ torn \in Damage /\ Stores /\ Chained /\ Writers
\* It ends with the removal of the lock file of a process at work.
OInv == overtaken \in BOOLEAN /\ (overtaken \/ MInv)

(***************************************************************************)
(* Identifiers, and stores that grow.                                      *)
(***************************************************************************)
LEMMA IdKinds ==
  ASSUME NEW id \in Ids
  PROVE  id[1] \in Kinds /\ id[2] \in Nat
BY StoreAssumption DEF Ids, Kinds

LEMMA IdsFinite == IsFiniteSet(Ids)
<1> DEFINE N == MaxCases + MaxCandidates + MaxRules
<1>1. IsFiniteSet(Kinds) /\ IsFiniteSet(1 .. N)
  <2>1. IsFiniteSet({}) /\ IsFiniteSet({"rule"} \cup {})
    BY FS_EmptySet, FS_AddElement
  <2>2. IsFiniteSet({"rule"} \cup {"candidate"})
    BY <2>1, FS_AddElement
  <2>3. IsFiniteSet(Kinds)
    BY <2>2, FS_AddElement DEF Kinds
  <2> QED
    BY <2>3, FS_Interval, StoreAssumption
<1>2. IsFiniteSet(Kinds \X (1 .. N))
  BY <1>1, FS_Product
<1>3. Ids \subseteq Kinds \X (1 .. N)
  BY StoreAssumption DEF Ids, Kinds
<1> QED
  BY <1>2, <1>3, FS_Subset

LEMMA ExtendsItself ==
  ASSUME NEW records
  PROVE  S!Extends(records, records)
BY DEF S!Extends

LEMMA ExtendsOn ==
  ASSUME NEW a, NEW b, NEW c, S!Extends(a, b), S!Extends(b, c)
  PROVE  S!Extends(a, c)
BY DEF S!Extends

\* What a rule rests on stays when cases are added.
LEMMA RestsOn ==
  ASSUME NEW rule, NEW a, NEW b, Rests(rule, a), S!CaseIds(a) \subseteq S!CaseIds(b)
  PROVE  Rests(rule, b)
BY DEF Rests

LEMMA FoundedRests ==
  ASSUME NEW records
  PROVE  S!Founded(records) <=> \A id \in DOMAIN records : id[1] = "rule" => Rests(records[id], records)
BY DEF S!Founded, S!CaseIds, Rests

More(counts, later) == \A k \in Kinds : counts[k] <= later[k]

LEMMA TypedLater ==
  ASSUME NEW counts \in Counts, NEW later \in Counts, More(counts, later),
         NEW records, Typed(records, counts)
  PROVE  Typed(records, later)
BY IdKinds DEF Typed, Known, More, Counts

LEMMA SoundLater ==
  ASSUME NEW counts \in Counts, NEW later \in Counts, More(counts, later),
         NEW damaged, NEW after, damaged \subseteq after,
         NEW records, Sound(records, counts, damaged)
  PROVE  Sound(records, later, after)
<1>1. Typed(records, later)
  BY TypedLater DEF Sound
<1> QED
  BY <1>1 DEF Sound, Linked

LEMMA WriterLater ==
  ASSUME NEW counts \in Counts, NEW later \in Counts, More(counts, later),
         NEW damaged, NEW after, damaged \subseteq after,
         NEW c, NEW records, NEW committed, Writer(c, records, committed, counts, damaged)
  PROVE  Writer(c, records, committed, later, after)
<1>1. ASSUME Undoable(c.original, records, committed, counts, damaged)
      PROVE  Undoable(c.original, records, committed, later, after)
  <2>1. Sound(Was(records, c.original), later, after)
    BY <1>1, SoundLater DEF Undoable
  <2>2. \A id \in DOMAIN c.original : Known(id, later)
    BY <1>1, IdKinds DEF Undoable, Known, More, Counts
  <2> QED
    BY <1>1, <2>1, <2>2 DEF Undoable
<1>2. ASSUME ToWrite(c.todo, c.original, records, damaged)
      PROVE  ToWrite(c.todo, c.original, records, after)
  BY <1>2 DEF ToWrite
<1>3. ASSUME Linked(records, damaged \cup Undone(c.original))
      PROVE  Linked(records, after \cup Undone(c.original))
  BY <1>3 DEF Linked
<1> QED
  BY <1>1, <1>2, <1>3 DEF Writer

\* The gate of promote lets through evidence a rule may rest on.
LEMMA GateRests ==
  ASSUME NEW d \in Devices, NEW evidence, NEW authoritative, NEW rule, DOMAIN tree[d] \subseteq Ids,
         rule.evidence = evidence, rule.authoritative = authoritative,
         PromotionGate(d, evidence, authoritative)
  PROVE  Rests(rule, tree[d])
<1> DEFINE X == evidence \cap S!CaseIds(tree[d])
<1>1. ASSUME Cardinality(X) >= 2
      PROVE  \E a, b \in X : a # b
  <2>1. SUFFICES ASSUME \A a, b \in X : a = b
                 PROVE  FALSE
    OBVIOUS
  <2>2. IsFiniteSet(X) /\ Cardinality(X) \in Nat
    BY IdsFinite, FS_Subset, FS_CardinalityType DEF S!CaseIds
  <2>3. X # {}
    BY <1>1, FS_EmptySet
  <2>4. PICK a \in X : TRUE
    BY <2>3
  <2>5. X = {a}
    BY <2>1, <2>4
  <2>6. Cardinality(X) = 1
    BY <2>5, FS_Singleton
  <2> QED
    BY <1>1, <2>6
<1> QED
  BY <1>1 DEF PromotionGate, Rests

(***************************************************************************)
(* A command that writes: what its rollback restores is the store it       *)
(* found, and the store it leaves at any step stands up.                   *)
(***************************************************************************)
LEMMA StartsUndoable ==
  ASSUME NEW counts, NEW damaged, NEW records, NEW committed, NEW ids,
         Sound(records, counts, damaged), S!Extends(committed, records),
         \A id \in ids : Known(id, counts) /\ (id \in DOMAIN records => id[1] = "candidate"),
         NEW original, original = [id \in ids |-> Get(records, id)]
  PROVE  /\ Undoable(original, records, committed, counts, damaged)
         /\ \A id \in ids : (original[id] = None) = (id \notin DOMAIN records)
         /\ \A id \in ids : id \in DOMAIN records => original[id] = records[id]
<1>1. ASSUME NEW id \in ids
      PROVE  /\ original[id] = None <=> id \notin DOMAIN records
             /\ id \in DOMAIN records => original[id] = records[id] /\ Fits(id, original[id])
  BY StoreAssumption DEF Get, Sound, Typed, Fits
<1>2. /\ DOMAIN original = ids /\ Undone(original) = ids \ DOMAIN records
  BY <1>1 DEF Undone
<1>3. Drop(records, Undone(original)) = records
  BY <1>2 DEF Drop, Sound, Typed
<1>4. /\ DOMAIN Drop(original, Undone(original)) = ids \cap DOMAIN records
      /\ \A id \in ids \cap DOMAIN records : Drop(original, Undone(original))[id] = records[id]
  BY <1>1, <1>2 DEF Drop
<1>5. Was(records, original) = records
  BY <1>3, <1>4 DEF Was, Put, Sound, Typed
<1> QED
  BY <1>1, <1>2, <1>5 DEF Undoable

Written(records, w) == Put(records, [id \in {w.id} |-> w.record])

LEMMA WriteStep ==
  ASSUME NEW counts, NEW damaged, NEW records, NEW committed, NEW original,
         NEW todo, todo \in Writes, todo # <<>>,
         Typed(records, counts), S!Founded(records), Linked(records, damaged),
         S!Extends(committed, records),
         Undoable(original, records, committed, counts, damaged),
         ToWrite(todo, original, records, damaged),
         NEW next, next = Written(records, Head(todo))
  PROVE  /\ Typed(next, counts) /\ S!Founded(next) /\ Linked(next, damaged)
         /\ S!Extends(committed, next)
         /\ Undoable(original, next, committed, counts, damaged)
         /\ ToWrite(Tail(todo), original, next, damaged)
<1> DEFINE w == todo[1]
<1>0. /\ DOMAIN Was(records, original) = DOMAIN records \ Undone(original)
      /\ \A id \in DOMAIN Was(records, original) :
           Was(records, original)[id] = IF id \in DOMAIN original THEN original[id] ELSE records[id]
  BY DEF Was, Put, Drop, Undone, Undoable
<1>1. Len(todo) \in Nat /\ 1 \in 1 .. Len(todo) /\ Head(todo) = w
  BY DEF Writes
<1>2. /\ w.id \in DOMAIN original /\ Fits(w.id, w.record) /\ Known(w.id, counts)
      /\ original[w.id] # None =>
           w.id[1] = "candidate" /\ w.id \in DOMAIN records /\ Update(original[w.id], w.record)
      /\ w.id[1] = "rule" => Rests(w.record, records)
      /\ w.id[1] = "candidate" /\ w.record.rule # Empty => w.record.rule \in DOMAIN records \cup damaged
  BY <1>1 DEF ToWrite, Undoable
<1>3. /\ DOMAIN next = DOMAIN records \cup {w.id} /\ next = [id \in DOMAIN next |-> next[id]]
      /\ \A id \in DOMAIN next : next[id] = IF id = w.id THEN w.record ELSE records[id]
  BY <1>1 DEF Put, Written
<1>4. Typed(next, counts)
  BY <1>2, <1>3 DEF Typed
<1>5. S!Founded(next)
  <2>1. S!CaseIds(records) \subseteq S!CaseIds(next)
    BY <1>3 DEF S!CaseIds
  <2>2. ASSUME NEW id \in DOMAIN next, id[1] = "rule"
        PROVE  Rests(next[id], records)
    BY <1>2, <1>3, <2>2, FoundedRests
  <2>3. ASSUME NEW id \in DOMAIN next, id[1] = "rule"
        PROVE  Rests(next[id], next)
    BY <2>1, <2>2, <2>3, RestsOn
  <2> QED
    BY <2>3, FoundedRests
<1>6. Linked(next, damaged)
  BY <1>2, <1>3 DEF Linked
<1>7. S!Extends(committed, next)
  <2>1. ASSUME NEW id \in DOMAIN committed
        PROVE  /\ id \in DOMAIN next
               /\ \/ next[id] = committed[id]
                  \/ /\ id[1] = "candidate" /\ committed[id].rule = <<>>
                     /\ committed[id].evidence \subseteq next[id].evidence
    <3>1. /\ id \in DOMAIN records /\ id \in DOMAIN Was(records, original)
          /\ \/ records[id] = committed[id]
             \/ /\ id[1] = "candidate" /\ committed[id].rule = <<>>
                /\ committed[id].evidence \subseteq records[id].evidence
          /\ \/ Was(records, original)[id] = committed[id]
             \/ /\ id[1] = "candidate" /\ committed[id].rule = <<>>
                /\ committed[id].evidence \subseteq Was(records, original)[id].evidence
      BY DEF Undoable, S!Extends
    <3>2. CASE id # w.id
      BY <1>3, <3>1, <3>2
    <3>3. CASE id = w.id
      <4>1. original[id] # None /\ Was(records, original)[id] = original[id]
        BY <1>0, <1>2, <3>1, <3>3 DEF Undone
      <4>2. Update(original[id], next[id]) /\ id[1] = "candidate"
        BY <1>2, <1>3, <3>3, <4>1
      <4> QED
        BY <1>3, <3>1, <3>3, <4>1, <4>2 DEF Update, Empty
    <3> QED
      BY <3>2, <3>3
  <2> QED
    BY <2>1 DEF S!Extends
<1>8. Was(next, original) = Was(records, original)
  <2>1. Undone(original) \subseteq DOMAIN original
    BY DEF Undone
  <2>2. DOMAIN Drop(original, Undone(original)) = DOMAIN original \ Undone(original)
    BY DEF Drop
  <2>3. DOMAIN Was(next, original) = DOMAIN Was(records, original)
    BY <1>2, <1>3, <2>1, <2>2 DEF Was, Put, Drop
  <2>4. ASSUME NEW id \in DOMAIN Was(next, original)
        PROVE  Was(next, original)[id] = Was(records, original)[id]
    BY <1>2, <1>3, <2>1, <2>2, <2>3 DEF Was, Put, Drop
  <2> QED
    BY <2>3, <2>4 DEF Was, Put
<1>9. Undoable(original, next, committed, counts, damaged)
  BY <1>3, <1>8 DEF Undoable
<1>10. ToWrite(Tail(todo), original, next, damaged)
  <2>1. /\ Len(Tail(todo)) = Len(todo) - 1
        /\ \A i \in 1 .. Len(todo) - 1 : Tail(todo)[i] = todo[i + 1] /\ i + 1 \in 1 .. Len(todo)
    BY <1>1 DEF Writes
  <2>2. S!CaseIds(records) \subseteq S!CaseIds(next)
    BY <1>3 DEF S!CaseIds
  <2>3. ASSUME NEW i \in 1 .. Len(todo) - 1
        PROVE  /\ todo[i + 1].id \in DOMAIN original /\ Fits(todo[i + 1].id, todo[i + 1].record)
               /\ original[todo[i + 1].id] # None => Update(original[todo[i + 1].id], todo[i + 1].record)
               /\ todo[i + 1].id[1] = "rule" => Rests(todo[i + 1].record, next)
    BY <1>1, <2>1, <2>2, RestsOn DEF ToWrite
  <2>4. ASSUME NEW i \in 1 .. Len(todo) - 1, todo[i + 1].id[1] = "candidate",
               todo[i + 1].record.rule # Empty
        PROVE  \/ todo[i + 1].record.rule \in DOMAIN next \cup damaged
               \/ \E j \in 1 .. i - 1 : todo[j + 1].id = todo[i + 1].record.rule
    <3>1. \/ todo[i + 1].record.rule \in DOMAIN records \cup damaged
          \/ \E j \in 1 .. i : todo[j].id = todo[i + 1].record.rule
      BY <1>1, <2>1, <2>4 DEF ToWrite
    <3>2. CASE todo[i + 1].record.rule \in DOMAIN records \cup damaged
      BY <1>3, <3>2
    <3>3. ASSUME NEW j \in 1 .. i, todo[j].id = todo[i + 1].record.rule
          PROVE  \/ todo[i + 1].record.rule \in DOMAIN next \cup damaged
                 \/ \E k \in 1 .. i - 1 : todo[k + 1].id = todo[i + 1].record.rule
      <4>1. CASE j = 1
        BY <1>3, <3>3, <4>1
      <4>2. CASE j # 1
        <5>1. j - 1 \in 1 .. i - 1 /\ (j - 1) + 1 = j
          BY <1>1, <4>2
        <5> QED
          BY <3>3, <5>1
      <4> QED
        BY <4>1, <4>2
    <3> QED
      BY <3>1, <3>2, <3>3
  <2>5. \A i \in 1 .. Len(todo) - 1 : \A j \in 1 .. i - 1 : Tail(todo)[j] = todo[j + 1]
    BY <1>1, <2>1 DEF Writes
  <2> HIDE DEF w
  <2>6. ASSUME NEW i \in 1 .. Len(todo) - 1, Tail(todo)[i].id[1] = "candidate",
               Tail(todo)[i].record.rule # Empty
        PROVE  \/ Tail(todo)[i].record.rule \in DOMAIN next \cup damaged
               \/ \E j \in 1 .. i - 1 : Tail(todo)[j].id = Tail(todo)[i].record.rule
    <3>1. Tail(todo)[i] = todo[i + 1]
      BY <2>1
    <3> QED
      BY <2>4, <2>5, <2>6, <3>1
  <2>7. \A i \in 1 .. Len(todo) - 1 :
          /\ Tail(todo)[i].id \in DOMAIN original /\ Fits(Tail(todo)[i].id, Tail(todo)[i].record)
          /\ original[Tail(todo)[i].id] # None => Update(original[Tail(todo)[i].id], Tail(todo)[i].record)
          /\ Tail(todo)[i].id[1] = "rule" => Rests(Tail(todo)[i].record, next)
    BY <2>1, <2>3
  <2> QED
    BY <2>1, <2>6, <2>7 DEF ToWrite
<1> QED
  BY <1>4, <1>5, <1>6, <1>7, <1>9, <1>10

LEMMA UnlinkStep ==
  ASSUME NEW counts, NEW damaged, NEW records, NEW committed, NEW original,
         Typed(records, counts), S!Founded(records), S!Extends(committed, records),
         Linked(records, damaged), Undoable(original, records, committed, counts, damaged),
         NEW next, next = Drop(records, Undone(original))
  PROVE  /\ Typed(next, counts) /\ S!Founded(next) /\ S!Extends(committed, next)
         /\ Undoable(original, next, committed, counts, damaged)
         /\ DOMAIN next \cap Undone(original) = {} /\ Linked(next, damaged \cup Undone(original))
<1>0. /\ DOMAIN Was(records, original) = DOMAIN records \ Undone(original)
      /\ \A id \in DOMAIN Was(records, original) :
           Was(records, original)[id] = IF id \in DOMAIN original THEN original[id] ELSE records[id]
  BY DEF Was, Put, Drop, Undone, Undoable
<1>1. /\ DOMAIN next = DOMAIN records \ Undone(original) /\ next = [id \in DOMAIN next |-> next[id]]
      /\ \A id \in DOMAIN next : next[id] = records[id]
  BY DEF Drop
<1>2. Typed(next, counts)
  BY <1>1 DEF Typed
<1>3. Was(next, original) = Was(records, original) /\ DOMAIN next = DOMAIN Was(records, original)
  <2>1. Drop(next, Undone(original)) = next
    BY <1>1 DEF Drop
  <2> QED
    BY <1>0, <1>1, <2>1 DEF Was
<1>4. S!Founded(next)
  <2>1. S!Founded(Was(records, original)) /\ S!CaseIds(Was(records, original)) \subseteq S!CaseIds(next)
    BY <1>3 DEF Undoable, Sound, S!CaseIds
  <2>2. ASSUME NEW id \in DOMAIN next, id[1] = "rule"
        PROVE  Rests(next[id], next)
    <3>1. Was(records, original)[id] = records[id]
      BY <1>0, <1>1, <1>3, <2>2 DEF Undoable, Undone
    <3> QED
      BY <1>1, <1>3, <2>1, <2>2, <3>1, FoundedRests, RestsOn
  <2> QED
    BY <2>2, FoundedRests
<1>5. S!Extends(committed, next)
  <2>1. DOMAIN committed \subseteq DOMAIN next
    BY <1>3 DEF Undoable, S!Extends
  <2> QED
    BY <1>1, <2>1 DEF S!Extends
<1>6. Undoable(original, next, committed, counts, damaged)
  BY <1>1, <1>3 DEF Undoable, Undone
<1>7. Linked(next, damaged \cup Undone(original))
  BY <1>1 DEF Linked
<1> QED
  BY <1>1, <1>2, <1>4, <1>5, <1>6, <1>7

\* The first of two removals takes a candidate away.
LEMMA UnlinkFirst ==
  ASSUME NEW counts, NEW damaged, NEW records, NEW committed, NEW original,
         Typed(records, counts), S!Founded(records), S!Extends(committed, records),
         Linked(records, damaged), Undoable(original, records, committed, counts, damaged),
         NEW id \in Undone(original), id[1] = "candidate",
         NEW next, next = Drop(records, {id})
  PROVE  /\ Typed(next, counts) /\ S!Founded(next) /\ S!Extends(committed, next) /\ Linked(next, damaged)
         /\ Undoable(original, next, committed, counts, damaged)
<1>1. /\ DOMAIN next = DOMAIN records \ {id} /\ next = [i \in DOMAIN next |-> next[i]]
      /\ \A i \in DOMAIN next : next[i] = records[i]
  BY DEF Drop
<1>2. Typed(next, counts)
  BY <1>1 DEF Typed
<1>3. Was(next, original) = Was(records, original)
  <2>1. Drop(next, Undone(original)) = Drop(records, Undone(original))
    BY <1>1 DEF Drop
  <2> QED
    BY <2>1 DEF Was
<1>4. S!Founded(next)
  <2>1. S!CaseIds(records) \subseteq S!CaseIds(next)
    BY <1>1 DEF S!CaseIds
  <2>2. ASSUME NEW i \in DOMAIN next, i[1] = "rule"
        PROVE  Rests(next[i], next)
    BY <1>1, <2>1, <2>2, FoundedRests, RestsOn
  <2> QED
    BY <2>2, FoundedRests
<1>5. S!Extends(committed, next)
  <2>1. id \notin DOMAIN Was(records, original)
    BY DEF Was, Put, Drop
  <2>2. DOMAIN committed \subseteq DOMAIN next
    BY <1>1, <2>1 DEF Undoable, S!Extends
  <2> QED
    BY <1>1, <2>2 DEF S!Extends
<1>6. Linked(next, damaged)
  <2>1. ASSUME NEW i \in DOMAIN next, i[1] = "candidate", next[i].rule # Empty
        PROVE  next[i].rule \in DOMAIN next \cup damaged
    <3>1. records[i].rule \in DOMAIN records \cup damaged
      BY <1>1, <2>1 DEF Linked
    <3>2. next[i].rule[1] = "rule"
      BY <1>1, <2>1 DEF Typed, Fits
    <3> QED
      BY <1>1, <3>1, <3>2
  <2> QED
    BY <2>1 DEF Linked
<1>7. Undoable(original, next, committed, counts, damaged)
  BY <1>1, <1>3 DEF Undoable, Undone
<1> QED
  BY <1>2, <1>4, <1>5, <1>6, <1>7

\* Whichever records cannot be written back, what is left stands up but for
\* the records that were removed.
LEMMA RestoreStep ==
  ASSUME NEW counts, NEW damaged, NEW records, NEW committed, NEW original, NEW lost,
         Typed(records, counts), S!Founded(records), S!Extends(committed, records),
         Undoable(original, records, committed, counts, damaged),
         DOMAIN records \cap Undone(original) = {}, Linked(records, damaged \cup Undone(original)),
         lost \subseteq DOMAIN original,
         NEW next, next = Put(records, Drop(original, Undone(original) \cup lost))
  PROVE  /\ Typed(next, counts) /\ S!Founded(next) /\ S!Extends(committed, next)
         /\ Linked(next, damaged \cup Undone(original))
         /\ lost = {} => Linked(next, damaged)
<1> DEFINE back == DOMAIN original \ (Undone(original) \cup lost)
           was == Was(records, original)
<1>1. /\ DOMAIN was = DOMAIN records
      /\ \A id \in DOMAIN was : was[id] = IF id \in DOMAIN original THEN original[id] ELSE records[id]
  BY DEF Was, Put, Drop, Undone, Undoable
<1>2. \A id \in back : id \in DOMAIN records /\ id[1] = "candidate" /\ Fits(id, original[id])
  BY DEF Undone, Undoable
<1>3. /\ DOMAIN next = DOMAIN records /\ next = [id \in DOMAIN next |-> next[id]]
      /\ \A id \in DOMAIN next : next[id] = IF id \in back THEN original[id] ELSE records[id]
  BY <1>2 DEF Put, Drop
<1>4. \A id \in DOMAIN next : next[id] = records[id] \/ (id[1] = "candidate" /\ next[id] = was[id])
  BY <1>1, <1>2, <1>3
<1>5. Typed(next, counts)
  BY <1>2, <1>3 DEF Typed
<1> HIDE DEF back, was
<1>6. S!Founded(next)
  <2>1. S!CaseIds(records) \subseteq S!CaseIds(next)
    BY <1>3 DEF S!CaseIds
  <2>2. ASSUME NEW id \in DOMAIN next, id[1] = "rule"
        PROVE  Rests(next[id], next)
    BY <1>3, <1>4, <2>1, <2>2, FoundedRests, RestsOn
  <2> QED
    BY <2>2, FoundedRests
<1>7. S!Extends(committed, next)
  <2>1. S!Extends(committed, was)
    BY DEF Undoable, was
  <2>2. ASSUME NEW id \in DOMAIN committed
        PROVE  /\ id \in DOMAIN next
               /\ \/ next[id] = committed[id]
                  \/ /\ id[1] = "candidate" /\ committed[id].rule = <<>>
                     /\ committed[id].evidence \subseteq next[id].evidence
    <3>1. id \in DOMAIN next
      BY <1>3 DEF S!Extends
    <3>2. CASE next[id] = records[id]
      BY <3>1, <3>2 DEF S!Extends
    <3>3. CASE next[id] = was[id]
      BY <2>1, <3>1, <3>3 DEF S!Extends
    <3> QED
      BY <1>4, <3>1, <3>2, <3>3
  <2> QED
    BY <2>2 DEF S!Extends
<1>8. Linked(was, damaged)
  BY DEF Undoable, Sound, was
<1>9. Linked(next, damaged \cup Undone(original))
  <2>1. ASSUME NEW id \in DOMAIN next, id[1] = "candidate", next[id].rule # Empty
        PROVE  next[id].rule \in DOMAIN next \cup (damaged \cup Undone(original))
    <3>1. CASE next[id] = records[id]
      BY <1>3, <2>1, <3>1 DEF Linked
    <3>2. CASE next[id] = was[id]
      BY <1>1, <1>3, <1>8, <2>1, <3>2 DEF Linked
    <3> QED
      BY <1>4, <2>1, <3>1, <3>2
  <2> QED
    BY <2>1 DEF Linked
<1>10. ASSUME lost = {}
       PROVE  Linked(next, damaged)
  <2>1. \A id \in DOMAIN next : next[id] = was[id]
    BY <1>1, <1>3, <1>10 DEF back, Undone
  <2> QED
    BY <1>1, <1>3, <1>8, <2>1 DEF Linked
<1> QED
  BY <1>5, <1>6, <1>7, <1>9, <1>10

(***************************************************************************)
(* A rebase of a branch onto records that extend its base joins both.      *)
(***************************************************************************)
LEMMA RebaseJoins ==
  ASSUME NEW d \in Devices, NEW theirs,
         Sound(head[d], made, torn), Typed(base[d], made), Sound(theirs, made, torn),
         S!Extends(base[d], head[d]), S!Extends(base[d], theirs)
  PROVE  /\ Sound(Rebased(d, theirs), made, torn)
         /\ S!Extends(theirs, Rebased(d, theirs))
<1> DEFINE b == base[d]
           h == head[d]
           R == Rebased(d, theirs)
           mine == Changed(d, h) \ Conflicts(d, theirs)
<1>1. DOMAIN b \subseteq DOMAIN h /\ DOMAIN b \subseteq DOMAIN theirs
  BY DEF S!Extends
<1>2. /\ \A id \in DOMAIN b : b[id] # None
      /\ \A id \in DOMAIN h : h[id] # None
      /\ \A id \in DOMAIN theirs : theirs[id] # None
  BY StoreAssumption, IdKinds DEF Sound, Typed, Known, Fits, Kinds
<1>3. mine \subseteq DOMAIN h
  BY <1>1 DEF Changed
<1>4. {id \in mine : id \notin DOMAIN h} = {} /\ mine \ {id \in mine : id \notin DOMAIN h} = mine
  BY <1>3
<1>5. R = Put(Drop(theirs, {}), [id \in mine |-> h[id]])
  BY <1>4 DEF Rebased
<1>6. /\ R = [id \in DOMAIN R |-> R[id]] /\ DOMAIN R = DOMAIN theirs \cup mine
      /\ \A id \in DOMAIN R : R[id] = IF id \in mine THEN h[id] ELSE theirs[id]
  <2> HIDE DEF R, mine
  <2> QED
    BY <1>5 DEF Put, Drop
<1>7. DOMAIN h \subseteq DOMAIN R
  <2>1. ASSUME NEW id \in DOMAIN h, id \notin mine, id \notin DOMAIN theirs
        PROVE  FALSE
    <3>1. id \notin DOMAIN b /\ Get(b, id) = None /\ Get(h, id) = h[id] /\ Get(theirs, id) = None
      BY <1>1, <2>1 DEF Get
    <3>2. id \in Changed(d, h) /\ id \notin Changed(d, theirs)
      BY <1>2, <2>1, <3>1 DEF Changed
    <3> QED
      BY <2>1, <3>2 DEF Conflicts
  <2> QED
    BY <1>6, <2>1
<1>8. S!Extends(theirs, R)
  <2>1. ASSUME NEW id \in DOMAIN theirs, id \in mine
        PROVE  \/ h[id] = theirs[id]
               \/ id \in DOMAIN b /\ theirs[id] = b[id]
    <3>1. /\ id \in DOMAIN h /\ id \notin Conflicts(d, theirs) /\ id \in Changed(d, h)
          /\ Get(h, id) = h[id] /\ Get(theirs, id) = theirs[id]
      BY <1>3, <2>1 DEF Get
    <3>2. id \notin Changed(d, theirs) \/ h[id] = theirs[id]
      BY <3>1 DEF Conflicts
    <3>3. id \notin Changed(d, theirs) => Get(theirs, id) = Get(b, id)
      BY <2>1 DEF Changed
    <3> QED
      BY <1>2, <2>1, <3>1, <3>2, <3>3 DEF Get
  <2>2. ASSUME NEW id \in DOMAIN theirs
        PROVE  /\ id \in DOMAIN R
               /\ \/ R[id] = theirs[id]
                  \/ /\ id[1] = "candidate" /\ theirs[id].rule = <<>>
                     /\ theirs[id].evidence \subseteq R[id].evidence
    <3>1. CASE id \notin mine
      BY <1>6, <2>2, <3>1
    <3>2. CASE id \in mine
      BY <1>6, <2>1, <2>2, <3>2 DEF S!Extends
    <3> QED
      BY <3>1, <3>2
  <2> HIDE DEF R
  <2> QED
    BY <2>2 DEF S!Extends
<1>9. Typed(R, made)
  <2> HIDE DEF R, mine
  <2> QED
    BY <1>3, <1>6 DEF Typed, Sound
<1>10. S!Founded(R)
  <2>1. S!CaseIds(h) \subseteq S!CaseIds(R) /\ S!CaseIds(theirs) \subseteq S!CaseIds(R)
    <3> HIDE DEF R, mine
    <3> QED
      BY <1>6, <1>7 DEF S!CaseIds
  <2>2. S!Founded(h) /\ S!Founded(theirs)
    BY DEF Sound
  <2>3. ASSUME NEW id \in DOMAIN R, id[1] = "rule"
        PROVE  Rests(R[id], R)
    <3>1. CASE id \in mine
      <4>1. Rests(h[id], h) /\ R[id] = h[id]
        BY <1>3, <1>6, <2>2, <2>3, <3>1, FoundedRests
      <4> QED
        BY <4>1, <2>1, RestsOn
    <3>2. CASE id \notin mine
      <4>1. Rests(theirs[id], theirs) /\ R[id] = theirs[id]
        BY <1>6, <2>2, <2>3, <3>2, FoundedRests
      <4> QED
        BY <4>1, <2>1, RestsOn
    <3> QED
      BY <3>1, <3>2
  <2> HIDE DEF R
  <2> QED
    BY <2>3, FoundedRests
<1>11. Linked(R, torn)
  <2> HIDE DEF R, mine
  <2> QED
    BY <1>3, <1>6, <1>7 DEF Linked, Sound
<1> QED
  BY <1>8, <1>9, <1>10, <1>11 DEF Sound

(***************************************************************************)
(* The lock file keeps the other processes of a device out.                *)
(***************************************************************************)
LEMMA Alone ==
  ASSUME MInv, NEW p \in Procs, NEW q \in Procs, p # q, Working(p), Working(q)
  PROVE  On[p] # On[q]
BY DEF MInv, Locked

LEMMA Began ==
  ASSUME MInv, NEW p \in Procs, NEW c, Readable(On[p]), Begins(p, c), rebasing' = rebasing
  PROVE  /\ Locked' /\ pc'[p] = c /\ Working(p) /\ pc[p].op = "held"
         /\ \A q \in Procs : q # p => pc'[q] = pc[q]
BY DEF MInv, Locked, Begins, Goes, Doing, Readable, Working, Entering

LEMMA Released ==
  ASSUME MInv, NEW p \in Procs, Working(p), Release(p),
         \A e \in Devices : e # On[p] => rebasing'[e] = rebasing[e]
  PROVE  /\ Locked' /\ pc'[p] = Idle
         /\ \A q \in Procs : q # p => pc'[q] = pc[q]
<1>1. \A q \in Procs : On[q] \in Devices
  BY StoreAssumption
<1>2. \A q \in Procs : q # p /\ Working(q) => On[q] # On[p]
  BY Alone
<1>3. pc'[p] = Idle /\ DOMAIN pc' = Procs /\ \A q \in Procs : q # p => pc'[q] = pc[q]
  BY DEF MInv, Locked, Release, Goes
<1> QED
  BY <1>1, <1>2, <1>3 DEF MInv, Locked, Release, Working, Idle, Entering

LEMMA Continued ==
  ASSUME MInv, NEW p \in Procs, NEW c, Working(p), pc[p].op # "held", pc' = [pc EXCEPT ![p] = c],
         lock' = lock, rebasing' = rebasing
  PROVE  /\ Locked' /\ pc'[p] = c
         /\ \A q \in Procs : q # p => pc'[q] = pc[q]
BY DEF MInv, Locked, Working

\* What a Goto leaves of a command.
LEMMA Went ==
  ASSUME MInv, NEW p \in Procs, NEW op, pc[p].op \in Ops \cup Syncs, Goto(p, op),
         lock' = lock, rebasing' = rebasing
  PROVE  /\ Locked' /\ \A q \in Procs : q # p => pc'[q] = pc[q]
         /\ DOMAIN pc'[p] = DOMAIN pc[p] /\ pc'[p].op = op
         /\ pc[p].op \in Ops => pc'[p].todo = pc[p].todo /\ pc'[p].original = pc[p].original
<1>1. \/ DOMAIN pc[p] = {"op", "todo", "original"}
      \/ DOMAIN pc[p] = {"op", "mode", "attempts"} /\ pc[p].op \notin Ops
  BY DEF MInv, Shaped, Shape, Ops, Syncs, Entering
<1>2. /\ DOMAIN pc'[p] = DOMAIN pc[p] /\ pc'[p].op = op
      /\ pc[p].op \in Ops => pc'[p].todo = pc[p].todo /\ pc'[p].original = pc[p].original
      /\ DOMAIN pc' = Procs /\ \A q \in Procs : q # p => pc'[q] = pc[q]
  BY <1>1 DEF MInv, Locked, Goto
<1>3. Working(p) /\ pc[p].op # "held"
  BY DEF Working, Ops, Syncs, Entering
<1> QED
  BY <1>2, <1>3 DEF MInv, Locked, Working

LEMMA Busy ==
  ASSUME NEW p, pc[p].op \in Ops \cup Syncs \cup {"held"}
  PROVE  Working(p)
BY DEF Working, Ops, Syncs, Entering

(***************************************************************************)
(* Steps that leave the stores alone.                                      *)
(***************************************************************************)
LEMMA QuietStep ==
  ASSUME MInv, NEW p \in Procs, UNCHANGED <<tree, head, base, rebasing, remote>>,
         made' \in Counts, More(made, made'), torn \subseteq torn', torn' \in Damage,
         Locked', Shape(pc'[p]), \A q \in Procs : q # p => pc'[q] = pc[q],
         pc[p].op = "restore" => pc'[p].op = "restore" \/ Linked(tree[On[p]], torn'),
         Writer(pc'[p], tree[On[p]], head[On[p]], made', torn')
  PROVE  MInv'
<1>1. made \in Counts
  BY DEF MInv
<1>2. Shaped'
  BY DEF MInv, Shaped
<1>3. \A records : /\ Typed(records, made) => Typed(records, made')
                   /\ Sound(records, made, torn) => Sound(records, made', torn')
  BY <1>1, TypedLater, SoundLater
<1>4. ASSUME NEW d \in Devices, ~Restoring(d)'
      PROVE  Linked(tree[d], torn')
  <2>1. CASE ~Restoring(d)
    BY <2>1 DEF MInv, Stores, Linked
  <2>2. CASE Restoring(d)
    BY <1>4, <2>2 DEF Restoring, Doing
  <2> QED
    BY <2>1, <2>2
<1>5. Stores'
  BY <1>3, <1>4 DEF MInv, Stores
<1>6. Chained'
  BY DEF MInv, Chained
<1>7. Writers'
  <2>1. ASSUME NEW q \in Procs
        PROVE  Writer(pc'[q], tree'[On[q]], head'[On[q]], made', torn')
    <3>1. CASE q = p
      BY <3>1
    <3>2. CASE q # p
      BY <1>1, <3>2, WriterLater DEF MInv, Writers
    <3> QED
      BY <3>1, <3>2
  <2> QED
    BY <2>1 DEF Writers
<1> QED
  BY <1>2, <1>5, <1>6, <1>7 DEF MInv

(***************************************************************************)
(* Steps of a writing process.                                             *)
(***************************************************************************)
LEMMA TreeStep ==
  ASSUME MInv, NEW p \in Procs, Working(p), UNCHANGED <<head, base, rebasing, remote, made>>,
         torn \subseteq torn', torn' \in Damage,
         Locked', Shape(pc'[p]), \A q \in Procs : q # p => pc'[q] = pc[q],
         NEW records, tree' = [tree EXCEPT ![On[p]] = records],
         Typed(records, made), S!Founded(records), S!Extends(head[On[p]], records),
         Linked(records, torn') \/ pc'[p].op = "restore",
         Writer(pc'[p], records, head[On[p]], made, torn')
  PROVE  MInv'
<1>1. On[p] \in Devices /\ DOMAIN tree = Devices /\ made \in Counts /\ More(made, made)
  BY StoreAssumption DEF MInv, Stores, More, Counts
<1>2. Shaped'
  BY DEF MInv, Shaped
<1>3. ASSUME NEW d \in Devices
      PROVE  /\ Typed(tree'[d], made) /\ S!Founded(tree'[d]) /\ S!Extends(head[d], tree'[d])
             /\ ~Restoring(d)' => Linked(tree'[d], torn')
  <2>1. CASE d = On[p]
    BY <1>1, <2>1 DEF Restoring, Doing
  <2>2. CASE d # On[p]
    <3>1. tree'[d] = tree[d]
      BY <1>1, <2>2
    <3>2. Restoring(d) => Restoring(d)'
      BY <2>2 DEF Restoring, Doing
    <3> QED
      BY <3>1, <3>2 DEF MInv, Stores, Chained, Linked
  <2> QED
    BY <2>1, <2>2
<1>4. \A store : Sound(store, made, torn) => Sound(store, made, torn')
  BY <1>1, SoundLater
<1>5. Stores'
  BY <1>1, <1>3, <1>4 DEF MInv, Stores
<1>6. Chained'
  BY <1>3 DEF MInv, Chained
<1>7. Writers'
  <2>1. ASSUME NEW q \in Procs
        PROVE  Writer(pc'[q], tree'[On[q]], head'[On[q]], made', torn')
    <3>1. CASE q = p
      BY <1>1, <3>1
    <3>2. CASE q # p /\ ~Working(q)
      BY <3>2 DEF Writer, Working, Entering, Ops
    <3>3. CASE q # p /\ Working(q)
      <4>1. On[q] # On[p] /\ On[q] \in Devices
        BY <3>3, Alone, StoreAssumption
      <4>2. tree'[On[q]] = tree[On[q]]
        BY <1>1, <4>1
      <4> QED
        BY <1>1, <3>3, <4>2, WriterLater DEF MInv, Writers
    <3> QED
      BY <3>1, <3>2, <3>3
  <2> QED
    BY <2>1 DEF Writers
<1> QED
  BY <1>2, <1>5, <1>6, <1>7 DEF MInv

(***************************************************************************)
(* Steps that synchronise.                                                 *)
(***************************************************************************)
\* A command that synchronises undoes nothing.
LEMMA SyncWriter ==
  ASSUME NEW c, c.op \notin Ops, NEW records, NEW committed, NEW counts, NEW damaged
  PROVE  Writer(c, records, committed, counts, damaged)
BY DEF Writer, Ops

LEMMA SoundTree ==
  ASSUME MInv, NEW p \in Procs, Working(p), pc[p].op # "restore"
  PROVE  Sound(tree[On[p]], made, torn)
<1>1. On[p] \in Devices
  BY StoreAssumption
<1>2. ~Restoring(On[p])
  <2>1. ASSUME NEW q \in Procs, On[q] = On[p], Doing(q, "restore")
        PROVE  FALSE
    BY <2>1, Alone, Busy DEF Doing, Ops
  <2> QED
    BY <2>1 DEF Restoring
<1> QED
  BY <1>1, <1>2 DEF MInv, Stores, Sound

\* The stores of d and what they come from are replaced; the others stay.
LEMMA DeviceStep ==
  ASSUME MInv, NEW d \in Devices, UNCHANGED <<made, torn>>,
         Locked', Shaped', \A q \in Procs : On[q] # d => pc'[q] = pc[q],
         \A q \in Procs : On[q] = d => pc'[q].op \notin Ops,
         DOMAIN tree' = Devices, DOMAIN head' = Devices, DOMAIN base' = Devices, DOMAIN rebasing' = Devices,
         \A e \in Devices : e # d => /\ tree'[e] = tree[e] /\ head'[e] = head[e]
                                     /\ base'[e] = base[e] /\ rebasing'[e] = rebasing[e],
         Sound(tree'[d], made, torn), Sound(head'[d], made, torn), Typed(base'[d], made),
         Sound(remote', made, torn), S!Extends(remote, remote'),
         S!Extends(base'[d], head'[d]), S!Extends(head'[d], tree'[d]), S!Extends(base'[d], remote'),
         rebasing'[d] # None =>
           /\ Sound(rebasing'[d], made, torn)
           /\ S!Extends(base'[d], rebasing'[d]) /\ S!Extends(rebasing'[d], remote')
  PROVE  MInv'
<1>1. ASSUME NEW e \in Devices
      PROVE  /\ Typed(tree'[e], made) /\ S!Founded(tree'[e])
             /\ ~Restoring(e)' => Linked(tree'[e], torn)
             /\ Sound(head'[e], made, torn) /\ Typed(base'[e], made)
             /\ rebasing'[e] # None => Sound(rebasing'[e], made, torn)
  <2>1. CASE e = d
    BY <2>1 DEF Sound
  <2>2. CASE e # d
    <3>1. Restoring(e) => Restoring(e)'
      BY <2>2 DEF Restoring, Doing
    <3> QED
      BY <2>2, <3>1 DEF MInv, Stores
  <2> QED
    BY <2>1, <2>2
<1>2. Stores'
  BY <1>1 DEF MInv, Stores
<1>3. Chained'
  <2>1. ASSUME NEW e \in Devices
        PROVE  /\ S!Extends(base'[e], head'[e]) /\ S!Extends(head'[e], tree'[e])
               /\ S!Extends(base'[e], remote')
               /\ rebasing'[e] # None =>
                    S!Extends(base'[e], rebasing'[e]) /\ S!Extends(rebasing'[e], remote')
    <3>1. CASE e = d
      BY <3>1
    <3>2. CASE e # d
      BY <3>2, ExtendsOn DEF MInv, Chained
    <3> QED
      BY <3>1, <3>2
  <2> QED
    BY <2>1 DEF Chained
<1>4. Writers'
  <2>1. ASSUME NEW q \in Procs
        PROVE  Writer(pc'[q], tree'[On[q]], head'[On[q]], made', torn')
    <3>1. CASE On[q] = d
      BY <3>1, SyncWriter
    <3>2. CASE On[q] # d
      BY <3>2, StoreAssumption DEF MInv, Writers
    <3> QED
      BY <3>1, <3>2
  <2> QED
    BY <2>1 DEF Writers
<1> QED
  BY <1>2, <1>3, <1>4 DEF MInv

(***************************************************************************)
(* The commands that write.                                                *)
(***************************************************************************)
LEMMA NewId ==
  ASSUME made \in Counts, NEW kind \in Kinds, New(kind)
  PROVE  /\ NextId(kind) \in Ids /\ NextId(kind)[1] = kind /\ NextId(kind)[2] = made[kind] + 1
         /\ \A records : Typed(records, made) => NextId(kind) \notin DOMAIN records
<1>1. NextId(kind) \in Ids /\ NextId(kind)[1] = kind /\ NextId(kind)[2] = made[kind] + 1
  BY StoreAssumption DEF NextId, New, Ids, Bound, Kinds, Counts
<1>2. ~Known(NextId(kind), made)
  BY <1>1 DEF Known, Counts
<1> QED
  BY <1>1, <1>2 DEF Typed

\* A command whose writes are new records, or updates of candidates.
LEMMA WritingStep ==
  ASSUME MInv, NEW p \in Procs, NEW writes \in Writes, Writing(p, writes),
         UNCHANGED <<tree, head, base, rebasing, remote, torn>>,
         made' \in Counts, More(made, made'),
         \A i \in 1 .. Len(writes) :
           /\ Known(writes[i].id, made') /\ Fits(writes[i].id, writes[i].record)
           /\ writes[i].id \in DOMAIN tree[On[p]] =>
                writes[i].id[1] = "candidate" /\ Update(tree[On[p]][writes[i].id], writes[i].record)
           /\ writes[i].id[1] = "rule" => Rests(writes[i].record, tree[On[p]])
           /\ writes[i].id[1] = "candidate" /\ writes[i].record.rule # Empty =>
                \/ writes[i].record.rule \in DOMAIN tree[On[p]] \cup torn
                \/ \E j \in 1 .. i - 1 : writes[j].id = writes[i].record.rule
  PROVE  MInv'
<1> DEFINE ids == {writes[i].id : i \in DOMAIN writes}
           records == tree[On[p]]
           original == [id \in ids |-> Get(records, id)]
           c == [op |-> "write", todo |-> writes, original |-> original]
<1>1. Readable(On[p]) /\ Begins(p, c)
  BY DEF Writing
<1>2. c.op = "write" /\ c.todo = writes /\ c.original = original
      /\ DOMAIN c = {"op", "todo", "original"} /\ DOMAIN writes = 1 .. Len(writes)
  BY DEF Writes
<1> HIDE DEF c
<1>3. Locked' /\ pc'[p] = c /\ Working(p) /\ pc[p].op = "held" /\ \A q \in Procs : q # p => pc'[q] = pc[q]
  BY <1>1, Began
<1>4. On[p] \in Devices /\ made \in Counts /\ torn \in Damage
  BY StoreAssumption DEF MInv
<1>5. Shape(c)
  BY <1>2 DEF Shape, Ops
<1>6. Sound(records, made', torn) /\ S!Extends(head[On[p]], records)
  <2>1. Sound(records, made, torn)
    BY <1>3, SoundTree
  <2> QED
    BY <1>4, <2>1, SoundLater DEF MInv, Chained
<1>7. \A id \in ids : Known(id, made') /\ (id \in DOMAIN records => id[1] = "candidate")
  BY <1>2
<1> HIDE DEF ids
<1>8. /\ Undoable(original, records, head[On[p]], made', torn)
      /\ \A id \in ids : (original[id] = None) = (id \notin DOMAIN records)
      /\ \A id \in ids : id \in DOMAIN records => original[id] = records[id]
  <2> HIDE DEF records
  <2>1. original = [id \in ids |-> Get(records, id)]
    OBVIOUS
  <2> HIDE DEF original
  <2> QED
    BY <1>6, <1>7, <2>1, StartsUndoable
<1>9. ToWrite(writes, original, records, torn)
  <2>1. \A i \in 1 .. Len(writes) : writes[i].id \in ids /\ writes[i].id \in DOMAIN original
    BY <1>2 DEF ids
  <2> HIDE DEF original, records
  <2>2. \A i \in 1 .. Len(writes) :
          original[writes[i].id] # None => Update(original[writes[i].id], writes[i].record)
    BY <1>8, <2>1 DEF records
  <2> QED
    BY <2>1, <2>2 DEF ToWrite, records
<1>10. Writer(c, records, head[On[p]], made', torn')
  BY <1>2, <1>8, <1>9 DEF Writer
<1> HIDE DEF records, original
<1> QED
  BY <1>3, <1>4, <1>5, <1>10, QuietStep DEF records

LEMMA LearnCandidateStep ==
  ASSUME MInv, NEW p \in Procs, NEW evidence \in Packets, LearnCandidate(p, evidence)
  PROVE  MInv'
<1> DEFINE w == Write(NextId("candidate"), [evidence |-> evidence, rule |-> Empty])
<1>1. made \in Counts /\ On[p] \in Devices /\ evidence \in SUBSET Ids
  BY StoreAssumption DEF MInv
<1>2. /\ NextId("candidate") \in Ids /\ NextId("candidate")[1] = "candidate"
      /\ NextId("candidate")[2] = made["candidate"] + 1
      /\ NextId("candidate") \notin DOMAIN tree[On[p]]
  BY <1>1, NewId DEF LearnCandidate, Kinds, MInv, Stores
<1>3. /\ made' \in Counts /\ More(made, made') /\ made'["candidate"] = made["candidate"] + 1
  BY <1>1 DEF LearnCandidate, Counts, More, Kinds
<1>4. /\ w.id = NextId("candidate") /\ w.record = [evidence |-> evidence, rule |-> Empty]
      /\ w.record \in CandidateRecord /\ w.record.rule = Empty
  BY <1>1 DEF Write, CandidateRecord
<1>5. Known(w.id, made') /\ Fits(w.id, w.record)
  BY <1>2, <1>3, <1>4, StoreAssumption DEF Known, Fits, Counts, Kinds
<1>6. <<w>> \in Writes /\ Writing(p, <<w>>)
  BY <1>2, <1>4 DEF LearnCandidate, Write, Record, Writes
<1> DEFINE writes == <<w>>
<1>7. \A i \in 1 .. Len(writes) : writes[i] = w
  OBVIOUS
<1> HIDE DEF w, writes
<1>8. \A i \in 1 .. Len(writes) :
        /\ Known(writes[i].id, made') /\ Fits(writes[i].id, writes[i].record)
        /\ writes[i].id \notin DOMAIN tree[On[p]] /\ writes[i].id[1] = "candidate"
        /\ writes[i].record.rule = Empty
  BY <1>2, <1>4, <1>5, <1>7
<1> QED
  BY <1>3, <1>6, <1>8, WritingStep DEF LearnCandidate, stores, writes

LEMMA PromoteStep ==
  ASSUME MInv, NEW p \in Procs, NEW id \in Candidates(On[p]), NEW extra \in Packets, NEW a \in BOOLEAN,
         Promote(p, id, extra, a)
  PROVE  MInv'
<1> DEFINE d == On[p]
           rule == NextId("rule")
           evidence == tree[d][id].evidence \cup extra
           r == [source |-> id, evidence |-> evidence, authoritative |-> a]
           c == [tree[d][id] EXCEPT !.rule = rule]
           writes == <<Write(rule, r), Write(id, c)>>
<1>1. made \in Counts /\ d \in Devices /\ extra \in SUBSET Ids
  BY StoreAssumption DEF MInv
<1>2. /\ rule \in Ids /\ rule[1] = "rule" /\ rule[2] = made["rule"] + 1 /\ rule \notin DOMAIN tree[d]
  BY <1>1, NewId DEF Promote, Kinds, MInv, Stores
<1>3. /\ made' \in Counts /\ More(made, made') /\ made'["rule"] = made["rule"] + 1
  BY <1>1 DEF Promote, Counts, More, Kinds
<1>4. /\ id \in DOMAIN tree[d] /\ id[1] = "candidate" /\ tree[d][id].rule = Empty
      /\ Known(id, made) /\ tree[d][id] \in CandidateRecord /\ DOMAIN tree[d] \subseteq Ids
  BY <1>1 DEF Promote, Candidates, MInv, Stores, Typed, Fits, Known
<1>5. r \in RuleRecord /\ r.evidence = evidence /\ r.authoritative = a
  BY <1>1, <1>4 DEF RuleRecord, CandidateRecord, Known
<1>6. c \in CandidateRecord /\ c.rule = rule /\ c.evidence = tree[d][id].evidence
  BY <1>2, <1>4 DEF CandidateRecord
<1>7. Rests(r, tree[d])
  <2>1. PromotionGate(d, evidence, a)
    BY DEF Promote
  <2> HIDE DEF r, evidence, d
  <2> QED
    BY <1>1, <1>4, <1>5, <2>1, GateRests
<1>8. /\ Known(rule, made') /\ Fits(rule, r) /\ Known(id, made') /\ Fits(id, c)
      /\ Update(tree[d][id], c)
  <2> HIDE DEF rule, r, c
  <2> QED
    BY <1>1, <1>2, <1>3, <1>4, <1>5, <1>6, IdKinds DEF Known, Fits, Update, More, Counts
<1>9. Writing(p, writes)
  BY DEF Promote
<1> HIDE DEF rule, r, c, d, evidence
<1>10. /\ writes \in Writes /\ Len(writes) = 2
       /\ writes[1].id = rule /\ writes[1].record = r /\ writes[2].id = id /\ writes[2].record = c
  BY <1>2, <1>4, <1>5, <1>6 DEF Write, Record, Known, Writes
<1> HIDE DEF writes
<1>11. ASSUME NEW i \in 1 .. Len(writes)
       PROVE  /\ Known(writes[i].id, made') /\ Fits(writes[i].id, writes[i].record)
              /\ writes[i].id \in DOMAIN tree[d] =>
                   writes[i].id[1] = "candidate" /\ Update(tree[d][writes[i].id], writes[i].record)
              /\ writes[i].id[1] = "rule" => Rests(writes[i].record, tree[d])
              /\ writes[i].id[1] = "candidate" /\ writes[i].record.rule # Empty =>
                   \/ writes[i].record.rule \in DOMAIN tree[d] \cup torn
                   \/ \E j \in 1 .. i - 1 : writes[j].id = writes[i].record.rule
  <2>1. CASE i = 1
    BY <1>2, <1>7, <1>8, <1>10, <2>1
  <2>2. CASE i = 2
    <3>1. 1 \in 1 .. i - 1
      BY <2>2
    <3> QED
      BY <1>4, <1>6, <1>8, <1>10, <2>2, <3>1
  <2> QED
    BY <1>10, <2>1, <2>2
<1> QED
  BY <1>3, <1>9, <1>10, <1>11, WritingStep DEF Promote, stores, d


LEMMA SetSequence ==
  ASSUME NEW set, IsFiniteSet(set)
  PROVE  /\ Cardinality(set) \in Nat
         /\ \A i \in 1 .. Cardinality(set) : SetToSeq(set)[i] \in set
<1>1. Cardinality(set) \in Nat /\ ExistsBijection(1 .. Cardinality(set), set)
  BY FS_CardinalityType
<1>2. PICK f \in [1 .. Cardinality(set) -> set] : IsInjective(f)
  BY <1>1 DEF ExistsBijection, Bijection, Injection, IsInjective
<1>3. SetToSeq(set) \in [1 .. Cardinality(set) -> set]
  BY <1>2 DEF SetToSeq
<1> QED
  BY <1>1, <1>3

LEMMA LearnCaseStep ==
  ASSUME MInv, NEW p \in Procs, NEW nested \in BOOLEAN, NEW reinforce \in SUBSET Candidates(On[p]),
         LearnCase(p, nested, reinforce)
  PROVE  MInv'
<1> DEFINE d == On[p]
           case == NextId("case")
           first == Write(case, "case")
           second == Write(NextId("candidate"), [evidence |-> {case}, rule |-> Empty])
           Renewed(id) == Write(id, Reinforced(tree[d][id], case))
           W == {first} \cup (IF nested THEN {second} ELSE {}) \cup {Renewed(id) : id \in reinforce}
           updates == [i \in 1 .. Cardinality(reinforce) |->
                         LET id == SetToSeq(reinforce)[i] IN Write(id, Reinforced(tree[d][id], case))]
           writes == <<first>> \o (IF nested THEN <<second>> ELSE <<>>) \o updates
<1>1. made \in Counts /\ d \in Devices
  BY StoreAssumption DEF MInv
<1>2. /\ case \in Ids /\ case[1] = "case" /\ case[2] = made["case"] + 1 /\ case \notin DOMAIN tree[d]
      /\ nested => /\ NextId("candidate") \in Ids /\ NextId("candidate")[1] = "candidate"
                   /\ NextId("candidate")[2] = made["candidate"] + 1
                   /\ NextId("candidate") \notin DOMAIN tree[d]
  BY <1>1, NewId DEF LearnCase, Kinds, MInv, Stores
<1>3. /\ made' \in Counts /\ More(made, made') /\ made'["case"] = made["case"] + 1
      /\ nested => made'["candidate"] = made["candidate"] + 1
  BY <1>1 DEF LearnCase, Counts, More, Kinds
<1>4. \A id \in reinforce : /\ id \in DOMAIN tree[d] /\ id[1] = "candidate" /\ id \in Ids /\ Known(id, made)
                            /\ tree[d][id] \in CandidateRecord /\ Fits(id, tree[d][id])
  BY <1>1 DEF Candidates, MInv, Stores, Typed, Fits, Known
<1>5. IsFiniteSet(reinforce)
  BY <1>4, IdsFinite, FS_Subset
<1>6. ASSUME NEW w \in W
      PROVE  /\ w \in [id : Ids, record : Record] /\ Known(w.id, made') /\ Fits(w.id, w.record)
             /\ w.id \in DOMAIN tree[d] => w.id[1] = "candidate" /\ Update(tree[d][w.id], w.record)
             /\ w.id[1] # "rule"
             /\ w.id[1] = "candidate" /\ w.record.rule # Empty => w.record.rule \in DOMAIN tree[d] \cup torn
  <2>1. CASE w = first
    BY <1>1, <1>2, <1>3, <2>1 DEF Write, Record, Known, Fits, Counts, Kinds
  <2>2. CASE nested /\ w = second
    BY <1>1, <1>2, <1>3, <2>2 DEF Write, Record, Known, Fits, CandidateRecord, Counts, Kinds
  <2>3. ASSUME NEW id \in reinforce, w = Renewed(id)
        PROVE  /\ w \in [id : Ids, record : Record] /\ Known(w.id, made') /\ Fits(w.id, w.record)
               /\ w.id \in DOMAIN tree[d] /\ w.id[1] = "candidate" /\ Update(tree[d][w.id], w.record)
               /\ w.record.rule # Empty => w.record.rule \in DOMAIN tree[d] \cup torn
    <3>1. w.id = id /\ w.record = Reinforced(tree[d][id], case) /\ DOMAIN w = {"id", "record"}
          /\ w = [id |-> id, record |-> Reinforced(tree[d][id], case)]
      BY <2>3 DEF Write
    <3>2. /\ Reinforced(tree[d][id], case) \in CandidateRecord
          /\ Reinforced(tree[d][id], case).rule = tree[d][id].rule
          /\ Update(tree[d][id], Reinforced(tree[d][id], case))
      BY <1>2, <1>4 DEF Reinforced, CandidateRecord, Update
    <3>3. Known(id, made')
      BY <1>1, <1>3, <1>4, IdKinds DEF Known, More, Counts
    <3>4. Linked(tree[d], torn)
      <4>1. Working(p) /\ pc[p].op # "restore"
        BY DEF LearnCase, Writing, Begins, Doing, Working, Entering
      <4> QED
        BY <4>1, SoundTree DEF Sound
    <3>5. id \in DOMAIN tree[d] /\ id[1] = "candidate" /\ id \in Ids
      BY <1>4
    <3>6. tree[d][id].rule # Empty => tree[d][id].rule[1] = "rule" /\ tree[d][id].rule \in DOMAIN tree[d] \cup torn
      BY <1>4, <3>4, <3>5 DEF Linked, Fits
    <3> HIDE DEF case, d, Renewed
    <3> QED
      BY <3>1, <3>2, <3>3, <3>5, <3>6 DEF Record, Fits
  <2> QED
    BY <2>1, <2>2, <2>3
<1>7. updates \in Seq(W)
  <2>1. \A i \in 1 .. Cardinality(reinforce) : updates[i] \in W
    BY <1>5, SetSequence
  <2> HIDE DEF W
  <2> QED
    BY <1>5, <2>1, SetSequence
<1>8. Writing(p, writes)
  BY DEF LearnCase
<1>9. writes \in Seq(W)
  <2>1. <<first>> \in Seq(W) /\ (IF nested THEN <<second>> ELSE <<>>) \in Seq(W)
    <3>1. first \in W /\ (nested => second \in W)
      OBVIOUS
    <3> HIDE DEF W, first, second
    <3> QED
      BY <3>1
  <2> HIDE DEF W, first, second, updates
  <2> QED
    BY <1>7, <2>1
<1> HIDE DEF W, writes, d
<1>10. /\ writes \in Writes
       /\ \A i \in 1 .. Len(writes) : writes[i] \in W
  <2>1. PICK n \in Nat : writes \in [1 .. n -> W]
    BY <1>9, SeqDef
  <2> DEFINE R == [id : Ids, record : Record]
  <2>2. W \subseteq R
    BY <1>6
  <2> HIDE DEF R
  <2>3. writes \in Seq(R)
    BY <2>1, <2>2, SeqDef
  <2>4. \A i \in 1 .. Len(writes) : writes[i] \in W
    BY <1>9
  <2> QED
    BY <2>3, <2>4 DEF R, Writes
<1> QED
  BY <1>3, <1>6, <1>8, <1>10, WritingStep DEF LearnCase, stores, d

(***************************************************************************)
(* The steps of a command that writes, and of its rollback.                *)
(***************************************************************************)
\* What the invariant says of a process that writes.
LEMMA Underway ==
  ASSUME MInv, NEW p \in Procs, pc[p].op \in Ops
  PROVE  /\ Working(p) /\ On[p] \in Devices /\ made \in Counts /\ torn \in Damage
         /\ DOMAIN pc[p] = {"op", "todo", "original"} /\ pc[p].todo \in Writes
         /\ pc[p].original = [id \in DOMAIN pc[p].original |-> pc[p].original[id]]
         /\ Typed(tree[On[p]], made) /\ S!Founded(tree[On[p]]) /\ S!Extends(head[On[p]], tree[On[p]])
         /\ pc[p].op # "restore" => Linked(tree[On[p]], torn)
         /\ Undoable(pc[p].original, tree[On[p]], head[On[p]], made, torn)
         /\ pc[p].op = "write" => ToWrite(pc[p].todo, pc[p].original, tree[On[p]], torn)
         /\ pc[p].op = "restore" => /\ DOMAIN tree[On[p]] \cap Undone(pc[p].original) = {}
                                    /\ Linked(tree[On[p]], torn \cup Undone(pc[p].original))
         /\ Undone(pc[p].original) = Created(p) /\ Created(p) \in Damage
<1>1. Working(p) /\ On[p] \in Devices /\ made \in Counts /\ torn \in Damage
  BY StoreAssumption, Busy DEF MInv
<1>2. Shape(pc[p]) /\ Writer(pc[p], tree[On[p]], head[On[p]], made, torn)
  BY DEF MInv, Shaped, Writers
<1>3. pc[p].op # "restore" => Sound(tree[On[p]], made, torn)
  BY <1>1, SoundTree
<1>4. Undone(pc[p].original) = Created(p)
  BY DEF Undone, Created
<1>5. Created(p) \in Damage
  BY <1>2 DEF Writer, Undoable, Known, Created, Damage
<1> QED
  BY <1>1, <1>2, <1>3, <1>4, <1>5
     DEF MInv, Stores, Chained, Shape, Writer, Sound, Ops, Syncs, Entering

LEMMA TailOfWrites ==
  ASSUME NEW todo \in Writes, todo # <<>>
  PROVE  Tail(todo) \in Writes
<1> DEFINE R == [id : Ids, record : Record]
<1> HIDE DEF R
<1>1. todo \in Seq(R) => Tail(todo) \in Seq(R)
  OBVIOUS
<1> QED
  BY <1>1 DEF R, Writes

LEMMA WriteNextStep ==
  ASSUME MInv, NEW p \in Procs, WriteNext(p)
  PROVE  MInv'
<1> DEFINE d == On[p]
           todo == pc[p].todo
           original == pc[p].original
           next == Written(tree[d], Head(todo))
<1>1. pc[p].op = "write" /\ pc[p].op \in Ops /\ todo # <<>>
  BY DEF WriteNext, Doing, Ops
<1>2. /\ Working(p) /\ d \in Devices /\ made \in Counts /\ torn \in Damage
      /\ DOMAIN pc[p] = {"op", "todo", "original"} /\ todo \in Writes
      /\ original = [id \in DOMAIN original |-> original[id]]
      /\ Typed(tree[d], made) /\ S!Founded(tree[d]) /\ S!Extends(head[d], tree[d])
      /\ Linked(tree[d], torn)
      /\ Undoable(original, tree[d], head[d], made, torn)
      /\ ToWrite(todo, original, tree[d], torn)
  BY <1>1, Underway
<1>3. tree' = [tree EXCEPT ![d] = next] /\ DOMAIN tree = Devices /\ DOMAIN pc = Procs
  BY <1>2 DEF WriteNext, Written, MInv, Stores, Locked
<1>4. /\ pc'[p].op = "write" /\ pc'[p].todo = Tail(todo) /\ pc'[p].original = original
      /\ DOMAIN pc'[p] = {"op", "todo", "original"} /\ \A q \in Procs : q # p => pc'[q] = pc[q]
  BY <1>1, <1>2, <1>3 DEF WriteNext
<1>5. Tail(todo) \in Writes
  BY <1>1, <1>2, TailOfWrites
<1>6. next = Written(tree[d], Head(todo))
  OBVIOUS
<1>7. Shape(pc'[p])
  BY <1>2, <1>4, <1>5 DEF Shape, Ops
<1>8. Locked'
  <2>1. DOMAIN pc' = Procs /\ \A q \in Procs : pc'[q].op = pc[q].op
    BY <1>1, <1>3, <1>4 DEF WriteNext
  <2> QED
    BY <1>3, <2>1 DEF WriteNext, MInv, Locked, Working
<1> HIDE DEF next, d, todo, original
<1>9. /\ Typed(next, made) /\ S!Founded(next) /\ Linked(next, torn)
      /\ S!Extends(head[d], next)
      /\ Undoable(original, next, head[d], made, torn)
      /\ ToWrite(Tail(todo), original, next, torn)
  BY <1>1, <1>2, <1>6, WriteStep
<1>10. Writer(pc'[p], next, head[d], made, torn)
  BY <1>4, <1>9 DEF Writer
<1> QED
  BY <1>2, <1>3, <1>4, <1>7, <1>8, <1>9, <1>10, TreeStep DEF d, WriteNext

LEMMA UnlinkAction ==
  ASSUME MInv, NEW p \in Procs, Unlink(p)
  PROVE  MInv'
<1> DEFINE d == On[p]
           original == pc[p].original
<1>1. pc[p].op = "unlink" /\ pc[p].op \in Ops
  BY DEF Unlink, Doing, Ops
<1>2. /\ Working(p) /\ DOMAIN pc[p] = {"op", "todo", "original"} /\ d \in Devices
      /\ pc[p].todo \in Writes /\ torn \in Damage
      /\ original = [id \in DOMAIN original |-> original[id]]
      /\ Typed(tree[d], made) /\ S!Founded(tree[d]) /\ S!Extends(head[d], tree[d])
      /\ Linked(tree[d], torn) /\ Undoable(original, tree[d], head[d], made, torn)
      /\ Undone(original) = Created(p)
  BY <1>1, Underway
<1>3. PICK id \in Left(p) :
        /\ id[1] = "candidate" \/ Left(p) = {id}
        /\ tree' = [tree EXCEPT ![d] = Drop(tree[d], {id})]
        /\ Goto(p, IF Left(p) = {id} THEN "restore" ELSE "unlink")
  BY <1>2 DEF Unlink, MInv, Stores
<1> DEFINE next == Drop(tree[d], {id})
           op == IF Left(p) = {id} THEN "restore" ELSE "unlink"
<1>4. /\ Locked' /\ \A q \in Procs : q # p => pc'[q] = pc[q]
      /\ DOMAIN pc'[p] = DOMAIN pc[p] /\ pc'[p].op = op
      /\ pc'[p].todo = pc[p].todo /\ pc'[p].original = original
  BY <1>1, <1>3, Went DEF Unlink
<1>5. Shape(pc'[p])
  BY <1>2, <1>4 DEF Shape, Ops
<1>6. next = Drop(tree[d], {id}) /\ id \in Undone(original)
  BY <1>2 DEF Left
<1>7. CASE Left(p) = {id}
  <2>1. DOMAIN tree[d] \ {id} = DOMAIN tree[d] \ Undone(original)
    BY <1>2, <1>7 DEF Left
  <2>2. next = Drop(tree[d], Undone(original))
    BY <2>1 DEF Drop
  <2> HIDE DEF next, d, original
  <2>3. /\ Typed(next, made) /\ S!Founded(next) /\ S!Extends(head[d], next)
        /\ Undoable(original, next, head[d], made, torn) /\ DOMAIN next \cap Undone(original) = {}
        /\ Linked(next, torn \cup Undone(original))
    BY <1>2, <2>2, UnlinkStep
  <2>4. pc'[p].op = "restore" /\ Writer(pc'[p], next, head[d], made, torn)
    BY <1>4, <1>7, <2>3 DEF Writer
  <2> QED
    BY <1>2, <1>3, <1>4, <1>5, <2>3, <2>4, TreeStep DEF d, next, Unlink
<1>8. CASE Left(p) # {id}
  <2>1. id[1] = "candidate"
    BY <1>3, <1>8
  <2> HIDE DEF next, d, original
  <2>2. /\ Typed(next, made) /\ S!Founded(next) /\ S!Extends(head[d], next) /\ Linked(next, torn)
        /\ Undoable(original, next, head[d], made, torn)
    BY <1>2, <1>6, <2>1, UnlinkFirst
  <2>3. Writer(pc'[p], next, head[d], made, torn)
    BY <1>4, <1>8, <2>2 DEF Writer
  <2> QED
    BY <1>2, <1>3, <1>4, <1>5, <2>2, <2>3, TreeStep DEF d, next, Unlink
<1> QED
  BY <1>7, <1>8

LEMMA RestoreAction ==
  ASSUME MInv, NEW p \in Procs, Restore(p)
  PROVE  MInv'
<1> DEFINE d == On[p]
           original == pc[p].original
<1>1. pc[p].op = "restore" /\ pc[p].op \in Ops
  BY DEF Restore, Doing, Ops
<1>2. /\ Working(p) /\ d \in Devices /\ torn \in Damage
      /\ Typed(tree[d], made) /\ S!Founded(tree[d]) /\ S!Extends(head[d], tree[d])
      /\ Undoable(original, tree[d], head[d], made, torn)
      /\ DOMAIN tree[d] \cap Undone(original) = {} /\ Linked(tree[d], torn \cup Undone(original))
      /\ Undone(original) = Created(p) /\ Created(p) \in Damage
  BY <1>1, Underway
<1>3. PICK lost \in SUBSET (DOMAIN original \ Created(p)) :
        /\ tree' = [tree EXCEPT ![d] = Put(tree[d], Drop(original, Created(p) \cup lost))]
        /\ IF lost = {} THEN UNCHANGED <<faults, torn>> ELSE Fault /\ torn' = torn \cup Created(p)
  BY <1>2 DEF Restore, MInv, Stores
<1> DEFINE next == Put(tree[d], Drop(original, Undone(original) \cup lost))
<1>4. Locked' /\ pc'[p] = Idle /\ \A q \in Procs : q # p => pc'[q] = pc[q]
  BY <1>2, Released DEF Restore
<1>5. Shape(pc'[p]) /\ Writer(pc'[p], next, head[d], made, torn')
  BY <1>4, SyncWriter DEF Shape, Idle, Ops, Entering
<1>6. next = Put(tree[d], Drop(original, Undone(original) \cup lost)) /\ lost \subseteq DOMAIN original
  OBVIOUS
<1>7. tree' = [tree EXCEPT ![d] = next]
  BY <1>2, <1>3
<1> HIDE DEF next, d, original
<1>8. /\ Typed(next, made) /\ S!Founded(next) /\ S!Extends(head[d], next)
      /\ Linked(next, torn \cup Undone(original)) /\ (lost = {} => Linked(next, torn))
  BY <1>2, <1>6, RestoreStep
<1>9. torn \subseteq torn' /\ torn' \in Damage /\ Linked(next, torn')
  BY <1>2, <1>3, <1>8 DEF Damage
<1> QED
  BY <1>2, <1>4, <1>5, <1>7, <1>8, <1>9, TreeStep DEF d, Restore

\* The steps that leave the stores alone: the end of a command, its failure,
\* its death, and the start of a synchronisation.
LEMMA EndStep ==
  ASSUME MInv, NEW p \in Procs, Working(p), pc[p].op # "restore", Release(p),
         UNCHANGED <<tree, head, base, rebasing, remote, made, torn>>
  PROVE  MInv'
<1>1. Locked' /\ pc'[p] = Idle /\ \A q \in Procs : q # p => pc'[q] = pc[q]
  BY Released
<1>2. Shape(pc'[p]) /\ Writer(pc'[p], tree[On[p]], head[On[p]], made', torn')
  BY <1>1, SyncWriter DEF Shape, Idle, Ops, Entering
<1>3. made' \in Counts /\ More(made, made') /\ torn \subseteq torn' /\ torn' \in Damage
  BY DEF MInv, More, Counts
<1> QED
  BY <1>1, <1>2, <1>3, QuietStep

LEMMA WriteFailsStep ==
  ASSUME MInv, NEW p \in Procs, WriteFails(p)
  PROVE  MInv'
<1> DEFINE op == IF Left(p) = {} THEN "restore" ELSE "unlink"
<1>1. pc[p].op = "write" /\ pc[p].op \in Ops
  BY DEF WriteFails, Doing, Ops
<1>2. /\ Working(p) /\ DOMAIN pc[p] = {"op", "todo", "original"}
      /\ pc[p].todo \in Writes
      /\ pc[p].original = [id \in DOMAIN pc[p].original |-> pc[p].original[id]]
      /\ Linked(tree[On[p]], torn)
      /\ Undoable(pc[p].original, tree[On[p]], head[On[p]], made, torn)
      /\ Undone(pc[p].original) = Created(p)
  BY <1>1, Underway
<1>3. /\ Locked' /\ \A q \in Procs : q # p => pc'[q] = pc[q]
      /\ DOMAIN pc'[p] = DOMAIN pc[p] /\ pc'[p].op = op
      /\ pc'[p].todo = pc[p].todo /\ pc'[p].original = pc[p].original
  BY <1>1, Went DEF WriteFails, stores
<1>4. Linked(tree[On[p]], torn \cup Undone(pc[p].original))
  BY <1>2 DEF Linked
<1>5. Shape(pc'[p]) /\ Writer(pc'[p], tree[On[p]], head[On[p]], made', torn')
  BY <1>2, <1>3, <1>4 DEF Shape, Writer, Ops, WriteFails, Left
<1>6. made' \in Counts /\ More(made, made') /\ torn \subseteq torn' /\ torn' \in Damage
  BY DEF MInv, More, Counts, WriteFails
<1> QED
  BY <1>1, <1>3, <1>5, <1>6, QuietStep DEF WriteFails, stores

LEMMA KillStep ==
  ASSUME MInv, NEW p \in Procs, Kill(p)
  PROVE  MInv'
<1>1. pc'[p] = Idle /\ DOMAIN pc' = Procs /\ \A q \in Procs : q # p => pc'[q] = pc[q]
  BY DEF Kill, Goes, MInv, Locked
<1>2. Locked'
  <2>1. On[p] \in Devices /\ p # Stale /\ \A q \in Procs : On[q] \in Devices
    BY StoreAssumption
  <2>2. ASSUME NEW q \in Procs, Working(q)'
        PROVE  /\ q # p /\ Working(q) /\ pc'[q] = pc[q] /\ lock'[On[q]] = q
    <3>1. q # p /\ pc'[q] = pc[q] /\ Working(q)
      BY <1>1, <2>2 DEF Working, Idle, Entering
    <3>2. lock[On[q]] = q
      BY <3>1 DEF MInv, Locked
    <3> QED
      BY <2>1, <3>1, <3>2 DEF Kill, MInv, Locked
  <2>3. DOMAIN lock' = Devices
    BY DEF Kill, MInv, Locked
  <2> QED
    BY <1>1, <2>2, <2>3 DEF Kill, stores, MInv, Locked
<1>3. Shape(pc'[p]) /\ Writer(pc'[p], tree[On[p]], head[On[p]], made', torn')
  BY <1>1, SyncWriter DEF Shape, Idle, Ops, Entering
<1>4. pc[p].op = "restore" =>
        /\ Linked(tree[On[p]], torn \cup Created(p)) /\ Created(p) \in Damage
        /\ torn' = torn \cup Created(p)
  <2>1. ASSUME pc[p].op = "restore"
        PROVE  /\ Linked(tree[On[p]], torn \cup Created(p)) /\ Created(p) \in Damage
    BY <2>1, Underway DEF Ops
  <2> QED
    BY <2>1 DEF Kill, Doing
<1>5. made' \in Counts /\ More(made, made') /\ torn \subseteq torn' /\ torn' \in Damage
  BY <1>4 DEF MInv, More, Counts, Kill, Damage, Doing
<1> QED
  BY <1>1, <1>2, <1>3, <1>4, <1>5, QuietStep DEF Kill, stores

\* A process that enters the lock, or gives it up.
LEMMA EnteringStep ==
  ASSUME MInv, NEW p \in Procs, Enter(p) \/ Look(p) \/ Clear(p), ~overtaken'
  PROVE  MInv'
<1>1. ~Working(p) /\ pc[p].op # "restore"
  BY DEF Enter, Look, Clear, Doing, Working, Entering
<1>2. /\ pc'[p].op \in Entering \cup {"held"} /\ DOMAIN pc' = Procs
      /\ \A q \in Procs : q # p => pc'[q] = pc[q]
  BY DEF Enter, Look, Clear, Goes, Again, Idle, Held, Entering, MInv, Locked
<1>3. rebasing' = rebasing /\ On[p] \in Devices /\ \A q \in Procs : On[q] \in Devices /\ q # None
  BY StoreAssumption DEF Enter, Look, Clear, stores
<1>4. Locked'
  <2>1. CASE Enter(p)
    <3>1. CASE lock[On[p]] = None /\ lock' = [lock EXCEPT ![On[p]] = p] /\ Goes(p, Held)
      <4>1. \A q \in Procs : Working(q) => On[q] # On[p]
        BY <1>3, <3>1 DEF MInv, Locked
      <4>2. pc'[p] = Held
        BY <3>1 DEF Goes, MInv, Locked
      <4> QED
        BY <1>2, <1>3, <3>1, <4>1, <4>2 DEF MInv, Locked, Working, Held
    <3>2. CASE UNCHANGED lock /\ Goes(p, [op |-> "look", last |-> Doing(p, "retry")])
      <4>1. pc'[p].op = "look"
        BY <3>2 DEF Goes, MInv, Locked
      <4> QED
        BY <1>2, <1>3, <3>2, <4>1 DEF MInv, Locked, Working, Entering
    <3> QED
      BY <2>1, <3>1, <3>2 DEF Enter
  <2>2. CASE Look(p)
    <3>1. pc'[p].op \in Entering /\ lock' = lock
      BY <2>2 DEF Look, Goes, Again, Idle, Entering, MInv, Locked
    <3> QED
      BY <1>2, <1>3, <3>1 DEF MInv, Locked, Working
  <2>3. CASE Clear(p)
    <3>1. pc'[p].op \in Entering /\ lock' = [lock EXCEPT ![On[p]] = None] /\ lock[On[p]] \notin Procs
      BY <2>3 DEF Clear, Goes, Again, Idle, Entering, MInv, Locked
    <3>2. \A q \in Procs : Working(q) => On[q] # On[p]
      BY <3>1 DEF MInv, Locked
    <3> QED
      BY <1>2, <1>3, <3>1, <3>2 DEF MInv, Locked, Working
  <2> QED
    BY <2>1, <2>2, <2>3
<1>5. Shape(pc'[p]) /\ Writer(pc'[p], tree[On[p]], head[On[p]], made', torn')
  BY <1>2, SyncWriter DEF Shape, Ops, Entering
<1>6. made' \in Counts /\ More(made, made') /\ torn \subseteq torn' /\ torn' \in Damage
  BY DEF MInv, More, Counts, Enter, Look, Clear
<1>7. UNCHANGED <<tree, head, base, rebasing, remote>>
  BY DEF Enter, Look, Clear, stores
<1> QED
  BY <1>1, <1>2, <1>4, <1>5, <1>6, <1>7, QuietStep

LEMMA SyncStep ==
  ASSUME MInv, NEW p \in Procs, NEW mode, Sync(p, mode)
  PROVE  MInv'
<1> DEFINE c == [op |-> IF mode = "pull" THEN "pull" ELSE "commit", mode |-> mode, attempts |-> 0]
<1>1. c.op \in Syncs /\ c.op \notin Ops /\ DOMAIN c = {"op", "mode", "attempts"}
  BY DEF Syncs, Ops
<1>2. Readable(On[p]) /\ Begins(p, c) /\ UNCHANGED <<tree, head, base, rebasing, remote, made, torn>>
  BY DEF Sync, stores
<1> HIDE DEF c
<1>3. /\ Locked' /\ pc'[p] = c /\ pc[p].op = "held"
      /\ \A q \in Procs : q # p => pc'[q] = pc[q]
  BY <1>2, Began
<1>4. Shape(pc'[p]) /\ Writer(pc'[p], tree[On[p]], head[On[p]], made', torn')
  BY <1>1, <1>3, SyncWriter DEF Shape
<1>5. made' \in Counts /\ More(made, made') /\ torn \subseteq torn' /\ torn' \in Damage
  BY <1>2 DEF MInv, More, Counts
<1> QED
  BY <1>2, <1>3, <1>4, <1>5, QuietStep

(***************************************************************************)
(* The steps of a synchronisation.                                         *)
(***************************************************************************)
LEMMA Syncing ==
  ASSUME MInv, NEW p \in Procs, pc[p].op \in Syncs
  PROVE  /\ Working(p) /\ On[p] \in Devices /\ DOMAIN pc[p] = {"op", "mode", "attempts"}
         /\ pc[p].op \notin Ops /\ rebasing[On[p]] = None /\ Sound(tree[On[p]], made, torn)
         /\ \A q \in Procs : q # p /\ On[q] = On[p] => pc[q].op \notin Ops
<1>1. Working(p) /\ On[p] \in Devices /\ pc[p].op \notin Ops
  BY StoreAssumption, Busy DEF Syncs, Ops
<1>2. Sound(tree[On[p]], made, torn)
  BY <1>1, SoundTree DEF Ops
<1>3. \A q \in Procs : q # p /\ On[q] = On[p] => pc[q].op \notin Ops
  BY <1>1, Alone, Busy
<1> QED
  BY <1>1, <1>2, <1>3 DEF MInv, Shaped, Shape, Locked, Syncs, Entering

\* What the stores of the device hold when it synchronises.
LEMMA StoresOf ==
  ASSUME MInv, NEW d \in Devices
  PROVE  /\ DOMAIN tree = Devices /\ DOMAIN head = Devices /\ DOMAIN base = Devices /\ DOMAIN rebasing = Devices
         /\ Sound(head[d], made, torn) /\ Typed(base[d], made) /\ Sound(remote, made, torn)
         /\ S!Extends(base[d], head[d]) /\ S!Extends(head[d], tree[d]) /\ S!Extends(base[d], remote)
         /\ rebasing[d] # None => /\ Sound(rebasing[d], made, torn)
                                  /\ S!Extends(base[d], rebasing[d]) /\ S!Extends(rebasing[d], remote)
BY DEF MInv, Stores, Chained

LEMMA CommitStep ==
  ASSUME MInv, NEW p \in Procs, Commit(p)
  PROVE  MInv'
<1> DEFINE d == On[p]
           op == IF pc[p].mode = "both" THEN "pull" ELSE "push"
<1>1. pc[p].op \in Syncs /\ op \in Syncs /\ op \notin Ops
  BY DEF Commit, Doing, Syncs, Ops
<1>2. /\ Working(p) /\ d \in Devices /\ DOMAIN pc[p] = {"op", "mode", "attempts"}
      /\ rebasing[d] = None /\ Sound(tree[d], made, torn)
      /\ \A q \in Procs : q # p /\ On[q] = d => pc[q].op \notin Ops
  BY <1>1, Syncing
<1>3. /\ DOMAIN tree = Devices /\ DOMAIN head = Devices /\ DOMAIN base = Devices /\ DOMAIN rebasing = Devices
      /\ Typed(base[d], made) /\ Sound(remote, made, torn)
      /\ S!Extends(base[d], tree[d]) /\ S!Extends(base[d], remote)
  BY <1>2, StoresOf, ExtendsOn
<1>4. /\ Locked' /\ pc'[p].op = op /\ DOMAIN pc'[p] = DOMAIN pc[p]
      /\ \A q \in Procs : q # p => pc'[q] = pc[q]
  BY <1>1, Went DEF Commit
<1>5. Shaped'
  BY <1>1, <1>2, <1>4 DEF MInv, Shaped, Shape
<1>6. /\ tree' = tree /\ base' = base /\ rebasing' = rebasing /\ remote' = remote /\ made' = made /\ torn' = torn
      /\ head' = [head EXCEPT ![d] = tree[d]]
  BY DEF Commit
<1>7. /\ DOMAIN head' = Devices /\ head'[d] = tree[d]
      /\ \A e \in Devices : e # d => head'[e] = head[e]
  BY <1>2, <1>3, <1>6
<1>8. \A q \in Procs : /\ On[q] # d => pc'[q] = pc[q]
                       /\ On[q] = d => pc'[q].op \notin Ops
  BY <1>1, <1>2, <1>4
<1> HIDE DEF op, d
<1> QED
  BY <1>2, <1>3, <1>4, <1>5, <1>6, <1>7, <1>8, ExtendsItself, DeviceStep

\* A rebase puts the records of both sides in the tree and the branch.
LEMMA OntoFacts ==
  ASSUME MInv, NEW d \in Devices, NEW theirs, Onto(d, theirs),
         Sound(theirs, made, torn), S!Extends(base[d], theirs)
  PROVE  /\ DOMAIN tree' = Devices /\ DOMAIN head' = Devices /\ DOMAIN base' = Devices
         /\ \A e \in Devices : e # d => tree'[e] = tree[e] /\ head'[e] = head[e] /\ base'[e] = base[e]
         /\ Sound(tree'[d], made, torn) /\ head'[d] = tree'[d] /\ base'[d] = theirs
         /\ S!Extends(theirs, head'[d]) /\ Typed(base'[d], made)
<1>1. Sound(Rebased(d, theirs), made, torn) /\ S!Extends(theirs, Rebased(d, theirs))
  BY RebaseJoins, StoresOf
<1>2. DOMAIN tree = Devices /\ DOMAIN head = Devices /\ DOMAIN base = Devices
  BY StoresOf
<1> QED
  BY <1>1, <1>2 DEF Onto, Sound

LEMMA PullStep ==
  ASSUME MInv, NEW p \in Procs, Pull(p)
  PROVE  MInv'
<1> DEFINE d == On[p]
<1>1. pc[p].op \in Syncs
  BY DEF Pull, Doing, Syncs
<1>2. /\ Working(p) /\ d \in Devices /\ DOMAIN pc[p] = {"op", "mode", "attempts"}
      /\ rebasing[d] = None /\ Sound(tree[d], made, torn)
      /\ \A q \in Procs : q # p /\ On[q] = d => pc[q].op \notin Ops
  BY <1>1, Syncing
<1>3. /\ DOMAIN tree = Devices /\ DOMAIN head = Devices /\ DOMAIN base = Devices /\ DOMAIN rebasing = Devices
      /\ Sound(head[d], made, torn) /\ Typed(base[d], made) /\ Sound(remote, made, torn)
      /\ S!Extends(base[d], head[d]) /\ S!Extends(head[d], tree[d]) /\ S!Extends(base[d], remote)
  BY <1>2, StoresOf
<1>4. remote' = remote /\ made' = made /\ torn' = torn
  BY DEF Pull
<1>5. CASE Conflicts(d, remote) # {}
  <2>1. /\ rebasing' = [rebasing EXCEPT ![d] = remote] /\ Release(p)
        /\ tree' = tree /\ head' = head /\ base' = base
    BY <1>5 DEF Pull
  <2>2. DOMAIN rebasing' = Devices /\ rebasing'[d] = remote /\ \A e \in Devices : e # d => rebasing'[e] = rebasing[e]
    BY <1>2, <1>3, <2>1
  <2>3. Locked' /\ pc'[p] = Idle /\ \A q \in Procs : q # p => pc'[q] = pc[q]
    BY <1>2, <2>1, <2>2, Released
  <2>4. Shaped' /\ \A q \in Procs : /\ On[q] # d => pc'[q] = pc[q]
                                    /\ On[q] = d => pc'[q].op \notin Ops
    BY <1>2, <2>3 DEF MInv, Shaped, Shape, Idle, Ops, Entering
  <2> HIDE DEF d
  <2> QED
    BY <1>2, <1>3, <1>4, <2>1, <2>2, <2>3, <2>4, ExtendsItself, DeviceStep
<1>6. CASE Conflicts(d, remote) = {}
  <2>1. /\ Onto(d, remote) /\ rebasing' = rebasing
        /\ Release(p) \/ (Goto(p, "push") /\ lock' = lock)
    BY <1>6 DEF Pull
  <2>2. /\ DOMAIN tree' = Devices /\ DOMAIN head' = Devices /\ DOMAIN base' = Devices
        /\ \A e \in Devices : e # d => tree'[e] = tree[e] /\ head'[e] = head[e] /\ base'[e] = base[e]
        /\ Sound(tree'[d], made, torn) /\ head'[d] = tree'[d] /\ base'[d] = remote
        /\ S!Extends(remote, head'[d]) /\ Typed(base'[d], made)
    BY <1>2, <1>3, <2>1, OntoFacts
  <2>3. /\ Locked' /\ \A q \in Procs : q # p => pc'[q] = pc[q]
        /\ Shape(pc'[p]) /\ pc'[p].op \notin Ops
    <3>1. CASE Release(p)
      <4>1. Locked' /\ pc'[p] = Idle /\ \A q \in Procs : q # p => pc'[q] = pc[q]
        BY <1>2, <2>1, <3>1, Released
      <4> QED
        BY <4>1 DEF Shape, Idle, Ops, Entering
    <3>2. CASE Goto(p, "push") /\ lock' = lock
      <4>1. /\ Locked' /\ pc'[p].op = "push" /\ DOMAIN pc'[p] = DOMAIN pc[p]
            /\ \A q \in Procs : q # p => pc'[q] = pc[q]
        BY <1>1, <2>1, <3>2, Went
      <4> QED
        BY <1>2, <4>1 DEF Shape, Syncs, Ops
    <3> QED
      BY <2>1, <3>1, <3>2
  <2>4. Shaped' /\ \A q \in Procs : /\ On[q] # d => pc'[q] = pc[q]
                                    /\ On[q] = d => pc'[q].op \notin Ops
    BY <1>2, <2>3 DEF MInv, Shaped
  <2> HIDE DEF d
  <2> QED
    BY <1>2, <1>3, <1>4, <2>1, <2>2, <2>3, <2>4, ExtendsItself, DeviceStep
<1> QED
  BY <1>5, <1>6

LEMMA PushFacts ==
  ASSUME MInv, NEW p \in Procs, Push(p)
  PROVE  /\ pc[p].op \in Syncs /\ On[p] \in Devices /\ remote' = head[On[p]]
         /\ S!Extends(remote, remote') /\ S!Founded(remote') /\ Sound(remote', made, torn)
<1>1. pc[p].op \in Syncs /\ On[p] \in Devices
  BY StoreAssumption DEF Push, Doing, Syncs
<1>2. remote' = head[On[p]] /\ base[On[p]] = remote
  BY DEF Push, FastForward
<1> QED
  BY <1>1, <1>2, StoresOf DEF Sound

LEMMA PushStep ==
  ASSUME MInv, NEW p \in Procs, Push(p)
  PROVE  MInv'
<1> DEFINE d == On[p]
<1>1. /\ pc[p].op \in Syncs /\ remote' = head[d]
      /\ S!Extends(remote, remote') /\ Sound(remote', made, torn)
  BY PushFacts
<1>2. /\ Working(p) /\ d \in Devices /\ rebasing[d] = None /\ Sound(tree[d], made, torn)
      /\ \A q \in Procs : q # p /\ On[q] = d => pc[q].op \notin Ops
  BY <1>1, Syncing
<1>3. /\ DOMAIN tree = Devices /\ DOMAIN head = Devices /\ DOMAIN base = Devices /\ DOMAIN rebasing = Devices
      /\ Sound(head[d], made, torn) /\ S!Extends(head[d], tree[d])
  BY <1>2, StoresOf
<1>4. /\ base' = [base EXCEPT ![d] = head[d]] /\ tree' = tree /\ head' = head /\ rebasing' = rebasing
      /\ made' = made /\ torn' = torn /\ Release(p)
  BY DEF Push
<1>5. DOMAIN base' = Devices /\ base'[d] = head[d] /\ \A e \in Devices : e # d => base'[e] = base[e]
  BY <1>2, <1>3, <1>4
<1>6. Locked' /\ pc'[p] = Idle /\ \A q \in Procs : q # p => pc'[q] = pc[q]
  BY <1>2, <1>4, Released
<1>7. Shaped' /\ \A q \in Procs : /\ On[q] # d => pc'[q] = pc[q]
                                  /\ On[q] = d => pc'[q].op \notin Ops
  BY <1>2, <1>6 DEF MInv, Shaped, Shape, Idle, Ops, Entering
<1>8. Typed(base'[d], made)
  BY <1>3, <1>5 DEF Sound
<1> HIDE DEF d
<1> QED
  BY <1>1, <1>2, <1>3, <1>4, <1>5, <1>6, <1>7, <1>8, ExtendsItself, DeviceStep

LEMMA PushRejectedStep ==
  ASSUME MInv, NEW p \in Procs, PushRejected(p)
  PROVE  MInv'
<1> DEFINE c == [op |-> "pull", mode |-> pc[p].mode, attempts |-> pc[p].attempts + 1]
<1>1. pc[p].op \in Syncs /\ pc[p].op # "restore"
  BY DEF PushRejected, Doing, Syncs
<1>2. Working(p) /\ pc[p].op # "held"
  BY <1>1, Syncing DEF Syncs
<1>3. CASE pc[p].attempts >= Retries
  BY <1>1, <1>2, <1>3, EndStep DEF PushRejected, stores
<1>4. CASE ~(pc[p].attempts >= Retries)
  <2>1. pc' = [pc EXCEPT ![p] = c] /\ lock' = lock /\ rebasing' = rebasing
    BY <1>4 DEF PushRejected, stores, MInv, Locked
  <2>2. c.op \notin Ops /\ Shape(c)
    BY DEF Ops, Shape, Syncs
  <2> HIDE DEF c
  <2>3. Locked' /\ pc'[p] = c /\ \A q \in Procs : q # p => pc'[q] = pc[q]
    BY <1>2, <2>1, Continued
  <2>4. Writer(pc'[p], tree[On[p]], head[On[p]], made', torn')
    BY <2>2, <2>3, SyncWriter
  <2>5. made' \in Counts /\ More(made, made') /\ torn \subseteq torn' /\ torn' \in Damage
    BY DEF MInv, More, Counts, PushRejected
  <2> QED
    BY <1>1, <2>2, <2>3, <2>4, <2>5, QuietStep DEF PushRejected, stores
<1> QED
  BY <1>3, <1>4

\* A stopped rebase: nobody writes or synchronises on the device.
LEMMA Stopped ==
  ASSUME MInv, NEW d \in Devices, rebasing[d] # None
  PROVE  \A q \in Procs : On[q] = d => pc[q].op \in Entering \cup {"held"}
BY DEF MInv, Locked, Working

LEMMA ByHandStep ==
  ASSUME MInv, NEW d \in Devices, Abort(d) \/ Resolve(d)
  PROVE  MInv'
<1>1. /\ rebasing[d] # None /\ rebasing' = [rebasing EXCEPT ![d] = None]
      /\ remote' = remote /\ lock' = lock /\ pc' = pc /\ made' = made /\ torn' = torn
  BY DEF Abort, Resolve
<1>2. /\ DOMAIN tree = Devices /\ DOMAIN head = Devices /\ DOMAIN base = Devices /\ DOMAIN rebasing = Devices
      /\ Sound(head[d], made, torn) /\ Typed(base[d], made) /\ Sound(remote, made, torn)
      /\ S!Extends(base[d], head[d]) /\ S!Extends(head[d], tree[d]) /\ S!Extends(base[d], remote)
      /\ Sound(rebasing[d], made, torn)
      /\ S!Extends(base[d], rebasing[d]) /\ S!Extends(rebasing[d], remote)
  BY <1>1, StoresOf
<1>3. \A q \in Procs : On[q] = d => pc'[q].op \notin Ops
  BY <1>1, Stopped DEF Ops, Entering
<1>4. DOMAIN rebasing' = Devices /\ rebasing'[d] = None /\ \A e \in Devices : e # d => rebasing'[e] = rebasing[e]
  BY <1>1, <1>2
<1>5. Locked' /\ Shaped'
  <2>1. Shaped'
    BY <1>1 DEF MInv, Shaped
  <2>2. \A q \in Procs : On[q] \in Devices
    BY StoreAssumption
  <2> QED
    BY <1>1, <1>4, <2>1, <2>2 DEF MInv, Locked, Working
<1>6. CASE Abort(d)
  <2>1. tree' = tree /\ head' = head /\ base' = base
    BY <1>6 DEF Abort
  <2>2. Sound(tree[d], made, torn)
    <3>1. ~Restoring(d)
      BY <1>1, Stopped DEF Restoring, Doing, Entering
    <3> QED
      BY <3>1 DEF MInv, Stores, Sound
  <2> QED
    BY <1>1, <1>2, <1>3, <1>4, <1>5, <2>1, <2>2, ExtendsItself, DeviceStep
<1>7. CASE Resolve(d)
  <2>1. Onto(d, rebasing[d])
    BY <1>7 DEF Resolve
  <2>2. /\ DOMAIN tree' = Devices /\ DOMAIN head' = Devices /\ DOMAIN base' = Devices
        /\ \A e \in Devices : e # d => tree'[e] = tree[e] /\ head'[e] = head[e] /\ base'[e] = base[e]
        /\ Sound(tree'[d], made, torn) /\ head'[d] = tree'[d] /\ base'[d] = rebasing[d]
        /\ S!Extends(rebasing[d], head'[d]) /\ Typed(base'[d], made)
    BY <1>2, <2>1, OntoFacts
  <2> QED
    BY <1>1, <1>2, <1>3, <1>4, <1>5, <2>2, ExtendsItself, DeviceStep
<1> QED
  BY <1>6, <1>7

(***************************************************************************)
(* The theorems.                                                           *)
(***************************************************************************)
LEMMA MInit == Init => OInv
<1>1. SUFFICES ASSUME Init
               PROVE  MInv
  BY DEF Init, OInv
<1>2. /\ Typed(Empty, made) /\ S!Founded(Empty) /\ Linked(Empty, torn) /\ S!Extends(Empty, Empty)
  BY DEF Empty, Typed, S!Founded, Linked, S!Extends
<1>3. Locked /\ Shaped /\ made \in Counts /\ torn \in Damage
  BY <1>1 DEF Init, Locked, Shaped, Shape, Counts, Damage, Kinds, Bound, Working, Idle, Entering
<1>4. \A d \in Devices : tree[d] = Empty /\ head[d] = Empty /\ base[d] = Empty /\ rebasing[d] = None
  BY <1>1 DEF Init
<1>5. Stores /\ Chained
  BY <1>1, <1>2, <1>4 DEF Init, Stores, Chained, Sound
<1>6. Writers
  BY <1>1 DEF Init, Writers, Writer, Idle, Ops
<1> QED
  BY <1>3, <1>5, <1>6 DEF MInv

\* Only the removal of a lock file says that one was removed.
LEMMA OvertakenStays ==
  ASSUME [Next]_vars
  PROVE  overtaken' = overtaken \/ \E p \in Procs : Clear(p)
<1>1. ASSUME NEW p \in Procs
      PROVE  /\ \A nested \in BOOLEAN, reinforce \in SUBSET Candidates(On[p]) :
                  LearnCase(p, nested, reinforce) => overtaken' = overtaken
             /\ \A evidence \in Packets : LearnCandidate(p, evidence) => overtaken' = overtaken
             /\ \A id \in Candidates(On[p]), extra \in Packets, a \in BOOLEAN :
                  Promote(p, id, extra, a) => overtaken' = overtaken
             /\ \A mode \in {"pull", "push", "both"} : Sync(p, mode) => overtaken' = overtaken
  BY DEF LearnCase, LearnCandidate, Promote, Sync
<1>2. ASSUME NEW p \in Procs
      PROVE  /\ Enter(p) \/ Look(p) \/ Refuse(p) => overtaken' = overtaken
             /\ WriteNext(p) \/ WriteIndex(p) \/ WriteFails(p) => overtaken' = overtaken
             /\ Unlink(p) \/ UnlinkFails(p) \/ Restore(p) => overtaken' = overtaken
             /\ Commit(p) \/ Pull(p) \/ Push(p) \/ PushRejected(p) => overtaken' = overtaken
             /\ PullFails(p) \/ Kill(p) => overtaken' = overtaken
  BY DEF Enter, Look, Refuse, WriteNext, WriteIndex, WriteFails, Unlink, UnlinkFails, Restore,
         Commit, Pull, Push, PushRejected, PullFails, Kill
<1>3. \A d \in Devices : Abort(d) \/ Resolve(d) => overtaken' = overtaken
  BY DEF Abort, Resolve
<1>4. UNCHANGED vars => overtaken' = overtaken
  BY DEF vars
<1> QED
  BY <1>1, <1>2, <1>3, <1>4 DEF Next

LEMMA MStep == OInv /\ [Next]_vars => OInv'
<1>1. SUFFICES ASSUME OInv, [Next]_vars, ~overtaken'
               PROVE  MInv'
  <2>1. ASSUME OInv, [Next]_vars
        PROVE  overtaken' \in BOOLEAN
    BY <2>1, OvertakenStays DEF OInv, Clear
  <2> QED
    BY <2>1 DEF OInv
<1>2. MInv
  BY <1>1, OvertakenStays DEF OInv, Clear
<1>3. ASSUME NEW p \in Procs, Enter(p) \/ Look(p) \/ Clear(p)
      PROVE  MInv'
  BY <1>1, <1>2, <1>3, EnteringStep
<1>4. ASSUME NEW p \in Procs, NEW nested \in BOOLEAN, NEW reinforce \in SUBSET Candidates(On[p]),
             LearnCase(p, nested, reinforce)
      PROVE  MInv'
  BY <1>2, <1>4, LearnCaseStep
<1>5. ASSUME NEW p \in Procs, NEW evidence \in Packets, LearnCandidate(p, evidence)
      PROVE  MInv'
  BY <1>2, <1>5, LearnCandidateStep
<1>6. ASSUME NEW p \in Procs, NEW id \in Candidates(On[p]), NEW extra \in Packets, NEW a \in BOOLEAN,
             Promote(p, id, extra, a)
      PROVE  MInv'
  BY <1>2, <1>6, PromoteStep
<1>7. ASSUME NEW p \in Procs, WriteNext(p) \/ WriteFails(p) \/ Unlink(p) \/ Restore(p)
      PROVE  MInv'
  BY <1>2, <1>7, WriteNextStep, WriteFailsStep, UnlinkAction, RestoreAction
<1>8. ASSUME NEW p \in Procs, Refuse(p) \/ WriteIndex(p) \/ UnlinkFails(p) \/ PullFails(p)
      PROVE  MInv'
  <2>1. Working(p) /\ pc[p].op # "restore"
    BY <1>8 DEF Refuse, WriteIndex, UnlinkFails, PullFails, Doing, Working, Entering
  <2> QED
    BY <1>2, <1>8, <2>1, EndStep DEF Refuse, WriteIndex, UnlinkFails, PullFails, stores
<1>9. ASSUME NEW p \in Procs, NEW mode \in {"pull", "push", "both"}, Sync(p, mode)
      PROVE  MInv'
  BY <1>2, <1>9, SyncStep
<1>10. ASSUME NEW p \in Procs, Commit(p) \/ Pull(p) \/ Push(p) \/ PushRejected(p) \/ Kill(p)
      PROVE  MInv'
  BY <1>2, <1>10, CommitStep, PullStep, PushStep, PushRejectedStep, KillStep
<1>11. ASSUME NEW d \in Devices, Abort(d) \/ Resolve(d)
      PROVE  MInv'
  BY <1>2, <1>11, ByHandStep
<1>12. CASE UNCHANGED vars
  BY <1>2, <1>12
     DEF vars, stores, MInv, Locked, Shaped, Stores, Chained, Writers, Restoring, Doing, Working
<1> QED
  BY <1>1, <1>3, <1>4, <1>5, <1>6, <1>7, <1>8, <1>9, <1>10, <1>11, <1>12 DEF Next

LEMMA MAlways == Spec => []OInv
BY MInit, MStep, PTL DEF Spec

\* As long as no lock file of a process at work is removed, and whatever else
\* failed, was killed or was merged: in every tree of every device a rule rests
\* on two captured cases or was approved by a human; and a promoted candidate
\* has its rule, unless a rollback is under way or removed the rule and failed
\* to restore the candidate (cmd_learn, cmd_promote, rollback_memory_mutations,
\* sync_store).
THEOREM StoreStaysWhole == Spec => []StoreWhole
<1>1. OInv => StoreWhole
  BY DEF OInv, MInv, Stores, StoreWhole, Restoring
<1> QED
  BY <1>1, MAlways, PTL

\* The remote branch implements the shared store: until a lock file of a process
\* at work is removed, every push extends what was published, and leaves every
\* published rule founded (sync_store: a push is a fast-forward of a branch
\* rebased onto the remote's).
THEOREM PublishedGrows == Spec => PublishedOnlyGrows
<1>1. Init => S!Init
  BY DEF Init, S!Init, Empty
<1>2. OInv /\ [Next]_vars => [S!Publish \/ S!Lapse \/ S!Lapsed]_<<remote, overtaken>>
  <2>1. SUFFICES ASSUME OInv, [Next]_vars
                 PROVE  \/ S!Publish \/ S!Lapse \/ S!Lapsed
                        \/ UNCHANGED <<remote, overtaken>>
    OBVIOUS
  <2>2. CASE \E p \in Procs : Clear(p)
    BY <2>1, <2>2 DEF OInv, Clear, stores, S!Lapse
  <2>3. CASE overtaken' = overtaken /\ overtaken
    BY <2>3 DEF S!Lapsed
  <2>4. CASE overtaken' = overtaken /\ ~overtaken /\ remote' # remote
    <3>1. \E p \in Procs : Push(p)
      <4>1. ASSUME NEW p \in Procs
            PROVE  /\ \A nested \in BOOLEAN, reinforce \in SUBSET Candidates(On[p]) :
                        LearnCase(p, nested, reinforce) => remote' = remote
                   /\ \A evidence \in Packets : LearnCandidate(p, evidence) => remote' = remote
                   /\ \A id \in Candidates(On[p]), extra \in Packets, a \in BOOLEAN :
                        Promote(p, id, extra, a) => remote' = remote
        BY DEF LearnCase, LearnCandidate, Promote, stores
      <4>2. ASSUME NEW p \in Procs
            PROVE  /\ Enter(p) \/ Look(p) \/ Clear(p) \/ Refuse(p) => remote' = remote
                   /\ WriteNext(p) \/ WriteIndex(p) \/ WriteFails(p) => remote' = remote
                   /\ Unlink(p) \/ UnlinkFails(p) \/ Restore(p) => remote' = remote
                   /\ \A mode \in {"pull", "push", "both"} : Sync(p, mode) => remote' = remote
        BY DEF Enter, Look, Clear, Refuse, WriteNext, WriteIndex, WriteFails, Unlink, UnlinkFails,
               Restore, Sync, stores
      <4>3. ASSUME NEW p \in Procs
            PROVE  Commit(p) \/ Pull(p) \/ PushRejected(p) \/ PullFails(p) \/ Kill(p) => remote' = remote
        BY DEF Commit, Pull, PushRejected, PullFails, Kill, stores
      <4>4. \A d \in Devices : Abort(d) \/ Resolve(d) => remote' = remote
        BY DEF Abort, Resolve
      <4>5. UNCHANGED vars => remote' = remote
        BY DEF vars, stores
      <4> QED
        BY <2>1, <2>4, <4>1, <4>2, <4>3, <4>4, <4>5 DEF Next
    <3>2. MInv
      BY <2>1, <2>4 DEF OInv
    <3> QED
      BY <2>4, <3>1, <3>2, PushFacts DEF S!Publish
  <2>5. CASE overtaken' = overtaken /\ remote' = remote
    BY <2>5
  <2> QED
    BY <2>1, <2>2, <2>3, <2>4, <2>5, OvertakenStays DEF OInv
<1> QED
  BY <1>1, <1>2, MAlways, PTL DEF Spec, PublishedOnlyGrows, S!Spec

================================================================================
