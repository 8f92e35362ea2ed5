----------------------------- MODULE StoreProofs -----------------------------
(***************************************************************************)
(* Proofs about GraphStore: for any engines, tasks, revisions and deaths,  *)
(* the store never refuses itself but over frozen evidence, a key of an    *)
(* external action is granted once and under an approval, one engine at a  *)
(* time always leaves a checkpoint that can be resumed, and a policy that  *)
(* may be promoted went through every stage.                               *)
(***************************************************************************)
EXTENDS GraphStore, SequenceTheorems, TLAPS

Statuses == {"READY", "RUNNING", "ACCEPTED", "FAILED", "FROZEN"}
RefIds == {"EVIDENCE"} \X Revision \X Tasks \X Nat
NodeRecords == [status : Statuses, attempt : Nat, refs : SUBSET RefIds]
Irs == [revision : Revision, contract : [Tasks -> Nat], nodes : [Tasks -> NodeRecords]]

\* A task that acts has begun an attempt it may make while it runs.
Budgeted(ir) ==
  \A n \in Acting : /\ ir.nodes[n].attempt <= TaskAttempts[n]
                    /\ ir.nodes[n].status = "RUNNING" => ir.nodes[n].attempt >= 1
IsIr(ir) == ir \in Irs /\ Budgeted(ir)

\* What the rows of a ledger hold of a node, and a state that rests on them:
\* all of it, but what a replan froze.
Held(ledger, r, n) == {row.id : row \in {q \in ledger : q.kind = "EVIDENCE" /\ q.revision = r /\ q.task = n}}
Resting(ir, ledger) == \A n \in Tasks : ir.nodes[n].refs \subseteq Held(ledger, ir.revision, n)
Carried(ir, ledger) ==
  \E row \in ledger : row.kind = "EVIDENCE" /\ row.revision # ir.revision /\ row.task \in Tasks /\ row.id \in ir.nodes[row.task].refs
Good(ir, ledger) == Resting(ir, ledger) \/ Carried(ir, ledger)
ApprovedAmong(ledger, r) == \E row \in ledger : row.revision = r /\ row.id[1] = "APPROVAL"

\* One transaction of a call, by itself
TxOK(t, ledger) ==
  /\ t.save # None => IsIr(t.save) /\ Good(t.save, ledger \cup t.rows)
  /\ t.point # None => IsIr(t.point) /\ Good(t.point, ledger \cup t.rows)
  /\ t.receipt # None => /\ t.receipt.key \in StoreKey /\ t.receipt.status \in {"PREPARED", "COMMITTED"}
                         /\ ApprovedAmong(ledger, t.receipt.key.revision)
Points(t, r) == t.point # None /\ t.point.revision = r
Saves(t, r) == t.save # None /\ t.save.revision = r

\* The i-th of a call's transactions, after those before it: only what has a
\* checkpoint is saved, checkpoints follow one another, and rows a revision.
InTurn(ts, i, pointed, saved) ==
  /\ ts[i].save # None => ts[i].save.revision \in pointed \/ \E j \in 1 .. i : Points(ts[j], ts[i].save.revision)
  /\ ts[i].point # None => \/ ts[i].point.revision = 1 \/ ts[i].point.revision - 1 \in pointed
                           \/ \E j \in 1 .. i : Points(ts[j], ts[i].point.revision - 1)
  /\ \A row \in ts[i].rows : row.revision \in saved \/ \E j \in 1 .. i : Saves(ts[j], row.revision)
CallOK(ts, pointed, saved, ledger) ==
  \A i \in DOMAIN ts : TxOK(ts[i], ledger) /\ InTurn(ts, i, pointed, saved)

\* The same while no other engine writes: a call never leaves a checkpoint
\* which the store would not save again.
UncertainIn(answered) == \E k \in StoreKey : answered[k] = <<"PREPARED">>
Anew(ts, i, chain, next, answered) ==
  /\ ~UncertainIn(answered)
  /\ \A j \in DOMAIN ts : /\ ts[j].receipt = None
                          /\ Points(ts[j], next) => ts[j].point.contract = ts[i].save.contract
  /\ \/ \E j \in 1 .. i : Points(ts[j], next)
     \/ next \in DOMAIN chain /\ chain[next].ir.contract = ts[i].save.contract
AloneOK(ts, chain, contracts, latest, answered) ==
  \A i \in DOMAIN ts :
    /\ ts[i].point # None => /\ ts[i].point.revision <= latest + 1
                             /\ ts[i].point.revision <= latest => ts[i].point.contract = contracts[ts[i].point.revision]
    /\ ts[i].save # None => ts[i].save.revision <= latest + 1
    /\ Saves(ts[i], latest + 1) => Anew(ts, i, chain, latest + 1, answered)
    /\ ts[i].receipt # None => (ts[i].receipt.status = "PREPARED" => ts[i].receipt.key.revision = latest)
--------------------------------------------------------------------------------
(* The inductive invariant *)

Revisions ==
  /\ current \in Nat /\ DOMAIN sources = 1 .. current /\ DOMAIN states = 1 .. current
  /\ \A r \in 1 .. current : /\ IsIr(states[r]) /\ states[r].revision = r /\ states[r].contract = sources[r]
                             /\ Good(states[r], rows)
Chains ==
  /\ \E m \in 0 .. MaxRevisions : current <= m /\ DOMAIN points = 1 .. m
  /\ \A r \in DOMAIN points :
       IsIr(points[r].ir) /\ Good(points[r].ir, rows) /\ \A k \in StoreKey : points[r].receipts[k] \in Nat
Grants ==
  /\ DOMAIN receipts = StoreKey /\ DOMAIN answers = StoreKey
  /\ \A k \in StoreKey : /\ answers[k] = IF receipts[k] = <<>> THEN 0 ELSE 1
                         /\ receipts[k] # <<>> => ApprovedAmong(rows, k.revision)
Listed(ts) == ts \in Seq({ts[i] : i \in DOMAIN ts})
Calls ==
  /\ DOMAIN calls = Engines
  /\ \A e \in Engines : Listed(calls[e]) /\ CallOK(calls[e], DOMAIN points, DOMAIN sources, rows)
Policies ==
  /\ Listed(policies)
  /\ \A i \in DOMAIN policies :
       policies[i].sample \in Nat /\ policies[i].status \in {"DRAFT", "SHADOW", "CANDIDATE", "APPROVED", "REJECTED", "RETIRED"}
OneAtATime ==
  /\ together \in BOOLEAN
  /\ ~together =>
       /\ \A e, f \in Engines : calls[e] # <<>> /\ calls[f] # <<>> => e = f
       /\ \A e \in Engines : AloneOK(calls[e], points, sources, current, receipts)
       /\ \A r \in DOMAIN points : r <= current + 1 /\ (r <= current => points[r].ir.contract = sources[r])
       /\ \A k \in StoreKey : receipts[k] = <<"PREPARED">> => k.revision = current
SInv ==
  /\ Revisions /\ Chains /\ Grants /\ Calls /\ Policies /\ OneAtATime
  /\ LedgersSound /\ ReceiptsSound /\ CheckpointsSound /\ AnchorsSound /\ PoliciesSound
--------------------------------------------------------------------------------
(* Data *)

LEMMA IrNotNone == \A ir \in Irs : ir # None
BY DEF Irs, None

LEMMA RowNotNone == \A k, s : [key |-> k, status |-> s] # None
BY DEF None

LEMMA TxFields ==
  /\ Tx.save = None /\ Tx.point = None /\ Tx.rows = {} /\ Tx.receipt = None
BY DEF Tx

\* What a ledger holds, and what rests on it, only grows with it.
LEMMA GoodGrows ==
  ASSUME NEW ir, NEW ledger, NEW more, ledger \subseteq more, Good(ir, ledger) PROVE Good(ir, more)
<1>1. \A r, n : Held(ledger, r, n) \subseteq Held(more, r, n) BY DEF Held
<1>2. Carried(ir, ledger) => Carried(ir, more) BY DEF Carried
<1> QED BY <1>1, <1>2 DEF Good, Resting

LEMMA ApprovedGrows ==
  ASSUME NEW r, NEW ledger, NEW more, ledger \subseteq more, ApprovedAmong(ledger, r) PROVE ApprovedAmong(more, r)
BY DEF ApprovedAmong

LEMMA TxGrows ==
  ASSUME NEW t, NEW ledger, NEW more, ledger \subseteq more, TxOK(t, ledger) PROVE TxOK(t, more)
<1>1. ledger \cup t.rows \subseteq more \cup t.rows OBVIOUS
<1>2. \A ir : Good(ir, ledger \cup t.rows) => Good(ir, more \cup t.rows) BY <1>1, GoodGrows
<1>3. \A r : ApprovedAmong(ledger, r) => ApprovedAmong(more, r) BY ApprovedGrows
<1> QED BY <1>2, <1>3 DEF TxOK

\* The calls of the other engines, when the store has grown
LEMMA CallGrows ==
  ASSUME NEW ts, NEW p, NEW q, NEW s, NEW u, NEW ledger, NEW more, CallOK(ts, p, s, ledger),
         p \subseteq q, s \subseteq u, ledger \subseteq more
  PROVE  CallOK(ts, q, u, more)
<1>1. \A i \in DOMAIN ts : TxOK(ts[i], more) BY TxGrows DEF CallOK
<1>2. \A i \in DOMAIN ts : InTurn(ts, i, q, u) BY DEF CallOK, InTurn
<1> QED BY <1>1, <1>2 DEF CallOK

LEMMA TailOf ==
  ASSUME NEW S, NEW ts \in Seq(S), ts # <<>>
  PROVE  /\ Len(ts) \in Nat /\ Len(ts) >= 1 /\ DOMAIN ts = 1 .. Len(ts) /\ 1 \in DOMAIN ts
         /\ Tail(ts) \in Seq(S) /\ DOMAIN Tail(ts) = 1 .. Len(ts) - 1 /\ Head(ts) = ts[1]
         /\ \A i \in DOMAIN Tail(ts) : i + 1 \in DOMAIN ts /\ Tail(ts)[i] = ts[i + 1]
OBVIOUS

\* The call of an engine that has run its first transaction
LEMMA CallGoesOn ==
  ASSUME NEW S, NEW ts \in Seq(S), ts # <<>>, NEW p, NEW q, NEW s, NEW u, NEW ledger, NEW more, CallOK(ts, p, s, ledger),
         ledger \subseteq more, p \subseteq q, s \subseteq u,
         \A r : Points(ts[1], r) => r \in q, \A r : Saves(ts[1], r) => r \in u
  PROVE  CallOK(Tail(ts), q, u, more)
<1> DEFINE rest == Tail(ts)
<1>1. CallOK(ts, q, u, more) BY CallGrows
<1>2. SUFFICES ASSUME NEW i \in DOMAIN rest PROVE TxOK(rest[i], more) /\ InTurn(rest, i, q, u)
  BY DEF CallOK
<1>3. i + 1 \in DOMAIN ts /\ rest[i] = ts[i + 1] /\ i \in Nat /\ i >= 1 BY TailOf
<1>4. TxOK(ts[i + 1], more) /\ InTurn(ts, i + 1, q, u) BY <1>1, <1>3 DEF CallOK
<1>5. \A j \in 1 .. i + 1 : j = 1 \/ (j - 1 \in 1 .. i /\ rest[j - 1] = ts[j])
  <2>1. SUFFICES ASSUME NEW j \in 1 .. i + 1, j # 1 PROVE j - 1 \in 1 .. i /\ rest[j - 1] = ts[j] OBVIOUS
  <2>2. j - 1 \in 1 .. i /\ (j - 1) + 1 = j BY <1>3, <2>1
  <2>3. j - 1 \in DOMAIN rest BY <2>2, <1>3, TailOf
  <2> QED BY <2>2, <2>3, TailOf
<1>6. \A r : (\E j \in 1 .. i + 1 : Points(ts[j], r)) => r \in q \/ \E j \in 1 .. i : Points(rest[j], r) BY <1>5
<1>7. \A r : (\E j \in 1 .. i + 1 : Saves(ts[j], r)) => r \in u \/ \E j \in 1 .. i : Saves(rest[j], r) BY <1>5
<1>8. InTurn(rest, i, q, u) BY <1>3, <1>4, <1>6, <1>7 DEF InTurn
<1> QED BY <1>3, <1>4, <1>8
--------------------------------------------------------------------------------
(* One transaction that is let through *)

Ran(e, t) ==
  /\ calls[e] # <<>> /\ t = Head(calls[e]) /\ Allowed(t) /\ UNCHANGED <<policies, together, stops>>
  /\ SaveRevision(t.save) /\ rows' = rows \cup t.rows /\ Checkpoint(t.point, rows') /\ Receipt(t.receipt)
  /\ calls' = [calls EXCEPT ![e] = Tail(@)]

\* What the engine runs is the first of its transactions, and is in order.
LEMMA FirstOf ==
  ASSUME SInv, NEW e \in Engines, NEW t, Ran(e, t)
  PROVE  /\ t = calls[e][1] /\ 1 \in DOMAIN calls[e] /\ TxOK(t, rows)
         /\ t.save # None => IsIr(t.save) /\ (t.save.revision \in DOMAIN points \/ Points(t, t.save.revision))
         /\ t.point # None => /\ IsIr(t.point)
                              /\ \/ t.point.revision = 1 \/ t.point.revision - 1 \in DOMAIN points
                                 \/ Points(t, t.point.revision - 1)
         /\ \A row \in t.rows : row.revision \in DOMAIN sources \/ Saves(t, row.revision)
<1>1. Listed(calls[e]) /\ CallOK(calls[e], DOMAIN points, DOMAIN sources, rows) BY DEF SInv, Calls
<1>2. calls[e] # <<>> /\ t = Head(calls[e]) BY DEF Ran
<1>3. 1 \in DOMAIN calls[e] /\ t = calls[e][1] BY <1>1, <1>2, TailOf DEF Listed
<1>4. TxOK(t, rows) /\ InTurn(calls[e], 1, DOMAIN points, DOMAIN sources) BY <1>1, <1>3 DEF CallOK
<1>5. \A j \in 1 .. 1 : j = 1 OBVIOUS
<1> QED BY <1>3, <1>4, <1>5 DEF InTurn, TxOK

LEMMA SaveFacts ==
  ASSUME SInv, NEW e \in Engines, NEW t, Ran(e, t)
  PROVE  /\ current' \in {current, current + 1} /\ DOMAIN sources' = 1 .. current' /\ DOMAIN states' = 1 .. current'
         /\ \A r \in 1 .. current : sources'[r] = sources[r]
         /\ t.save = None => UNCHANGED <<sources, states, current>>
         /\ t.save # None => /\ current' = t.save.revision /\ sources'[current'] = t.save.contract
                             /\ states'[current'] = t.save
                             /\ \A r \in 1 .. current : r = current' \/ states'[r] = states[r]
<1>1. current \in Nat /\ DOMAIN sources = 1 .. current /\ DOMAIN states = 1 .. current BY DEF SInv, Revisions
<1>2. CASE t.save = None
  BY <1>1, <1>2 DEF Ran, SaveRevision
<1>3. CASE t.save # None
  <2>1. Saveable(t.save) /\ SaveRevision(t.save) BY <1>3 DEF Ran, Allowed
  <2>2. t.save.revision \in {current, current + 1} \ {0} BY <2>1 DEF Saveable
  <2>3. /\ sources' = Put(sources, t.save.revision, t.save.contract)
        /\ states' = Put(states, t.save.revision, t.save) /\ current' = t.save.revision
    BY <1>3, <2>1 DEF SaveRevision
  <2>4. (1 .. current) \cup {t.save.revision} = 1 .. current' BY <1>1, <2>2, <2>3
  <2>5. DOMAIN sources' = 1 .. current' /\ DOMAIN states' = 1 .. current' BY <1>1, <2>3, <2>4 DEF Put
  <2>6. \A r \in 1 .. current : sources'[r] = sources[r]
    <3>1. SUFFICES ASSUME NEW r \in 1 .. current PROVE sources'[r] = sources[r] OBVIOUS
    <3>2. CASE r = t.save.revision BY <1>1, <3>2, <2>1, <2>3 DEF Saveable, Put
    <3>3. CASE r # t.save.revision BY <1>1, <3>3, <2>3 DEF Put
    <3> QED BY <3>2, <3>3
  <2>7. \A r \in 1 .. current : r = current' \/ states'[r] = states[r] BY <1>1, <2>3 DEF Put
  <2> QED BY <1>3, <2>2, <2>3, <2>5, <2>6, <2>7 DEF Put
<1> QED BY <1>2, <1>3

LEMMA PointFacts ==
  ASSUME SInv, NEW e \in Engines, NEW t, Ran(e, t)
  PROVE  /\ anchors' = points' /\ DOMAIN points \subseteq DOMAIN points'
         /\ t.point = None => points' = points
         /\ t.point # None => /\ DOMAIN points' = DOMAIN points \cup {t.point.revision}
                              /\ \A r \in DOMAIN points : r = t.point.revision \/ points'[r] = points[r]
                              /\ points'[t.point.revision].ir = t.point
                              /\ points'[t.point.revision] = [ir |-> t.point, heads |-> {r \in rows' : r.revision = t.point.revision},
                                                             receipts |-> [k \in StoreKey |-> Len(receipts[k])]]
<1>1. anchors = points BY DEF SInv, AnchorsSound
<1>2. Checkpoint(t.point, rows') BY DEF Ran
<1>3. CASE t.point = None BY <1>1, <1>2, <1>3 DEF Checkpoint
<1>4. CASE t.point # None
  <2>1. /\ anchors' = points'
        /\ points' = Put(points, t.point.revision, [ir |-> t.point, heads |-> {r \in rows' : r.revision = t.point.revision},
                                                    receipts |-> [k \in StoreKey |-> Len(receipts[k])]])
    BY <1>2, <1>4 DEF Checkpoint
  <2>2. points'[t.point.revision] = [ir |-> t.point, heads |-> {r \in rows' : r.revision = t.point.revision},
                                     receipts |-> [k \in StoreKey |-> Len(receipts[k])]]
    BY <2>1 DEF Put
  <2>3. points'[t.point.revision].ir = t.point BY <2>2
  <2>4. DOMAIN points' = DOMAIN points \cup {t.point.revision} BY <2>1 DEF Put
  <2>5. \A r \in DOMAIN points : r = t.point.revision \/ points'[r] = points[r] BY <2>1 DEF Put
  <2> QED BY <1>4, <2>1, <2>2, <2>3, <2>4, <2>5
<1> QED BY <1>3, <1>4

LEMMA AppendTwo == \A a, b : Append(<<a>>, b) = <<a, b>>
<1>1. SUFFICES ASSUME NEW a, NEW b PROVE Append(<<a>>, b) = <<a, b>> OBVIOUS
<1>2. <<a>> \in Seq({a, b}) /\ <<a, b>> \in Seq({a, b}) /\ Len(<<a>>) = 1 /\ <<a>>[1] = a OBVIOUS
<1>3. /\ Append(<<a>>, b) \in Seq({a, b}) /\ Len(Append(<<a>>, b)) = 2
      /\ Append(<<a>>, b)[1] = a /\ Append(<<a>>, b)[2] = b
  BY <1>2, AppendProperties
<1>4. Len(<<a, b>>) = 2 /\ <<a, b>>[1] = a /\ <<a, b>>[2] = b OBVIOUS
<1>5. \A i \in 1 .. 2 : i = 1 \/ i = 2 OBVIOUS
<1> QED BY <1>2, <1>3, <1>4, <1>5, SeqEqual

LEMMA ReceiptFacts ==
  ASSUME SInv, NEW e \in Engines, NEW t, Ran(e, t)
  PROVE  /\ DOMAIN receipts' = StoreKey /\ DOMAIN answers' = StoreKey
         /\ \A k \in StoreKey :
              /\ receipts[k] \in {<<>>, <<"PREPARED">>, <<"PREPARED", "COMMITTED">>}
              /\ \/ receipts'[k] = receipts[k] /\ answers'[k] = answers[k]
                 \/ /\ receipts[k] = <<>> /\ receipts'[k] = <<"PREPARED">> /\ answers'[k] = answers[k] + 1
                    /\ t.receipt # None /\ t.receipt.key = k /\ t.receipt.status = "PREPARED"
                 \/ receipts[k] = <<"PREPARED">> /\ receipts'[k] = <<"PREPARED", "COMMITTED">> /\ answers'[k] = answers[k]
         /\ t.receipt = None => receipts' = receipts
<1> DEFINE r == t.receipt
<1>1. DOMAIN receipts = StoreKey /\ DOMAIN answers = StoreKey BY DEF SInv, Grants
<1>2. \A k \in StoreKey : receipts[k] \in {<<>>, <<"PREPARED">>, <<"PREPARED", "COMMITTED">>} BY DEF SInv, ReceiptsSound
<1>3. Receipt(r) /\ ReceiptAllowed(r) BY DEF Ran, Allowed
<1>4. r # None => r.key \in StoreKey /\ r.status \in {"PREPARED", "COMMITTED"} BY FirstOf DEF TxOK
<1>5. CASE r = None BY <1>1, <1>2, <1>3, <1>5 DEF Receipt
<1>6. CASE r # None
  <2>1. receipts[r.key] \in {<<>>, <<"PREPARED">>, <<"PREPARED", "COMMITTED">>} BY <1>2, <1>4, <1>6
  <2>2. CASE receipts[r.key] = <<>>
    <3>1. r.status = "PREPARED" BY <1>3, <1>4, <1>6, <2>2 DEF ReceiptAllowed
    <3>2. /\ receipts' = [receipts EXCEPT ![r.key] = Append(@, r.status)]
          /\ answers' = [answers EXCEPT ![r.key] = @ + 1]
      BY <1>3, <1>6, <2>2, <3>1 DEF Receipt
    <3>3. Append(receipts[r.key], r.status) = <<"PREPARED">> BY <2>2, <3>1
    <3> QED BY <1>1, <1>2, <1>4, <1>6, <2>2, <3>1, <3>2, <3>3
  <2>3. CASE receipts[r.key] = <<"PREPARED">>
    <3>1. r.status = "COMMITTED" BY <1>3, <1>4, <1>6, <2>3 DEF ReceiptAllowed
    <3>2. Len(receipts[r.key]) = 1 /\ receipts[r.key] # <<>> BY <2>3
    <3>3. /\ receipts' = [receipts EXCEPT ![r.key] = Append(@, r.status)]
          /\ answers' = [answers EXCEPT ![r.key] = @]
      BY <1>3, <1>6, <3>1, <3>2 DEF Receipt
    <3>4. Append(<<"PREPARED">>, "COMMITTED") = <<"PREPARED", "COMMITTED">> BY AppendTwo
    <3>5. Append(receipts[r.key], r.status) = <<"PREPARED", "COMMITTED">> BY <2>3, <3>1, <3>4
    <3> QED BY <1>1, <1>2, <1>4, <1>6, <2>3, <3>3, <3>5
  <2>4. CASE receipts[r.key] = <<"PREPARED", "COMMITTED">>
    <3>1. Len(receipts[r.key]) = 2 BY <2>4
    <3> QED BY <1>1, <1>2, <1>3, <1>6, <3>1 DEF Receipt
  <2> QED BY <2>1, <2>2, <2>3, <2>4
<1> QED BY <1>5, <1>6

LEMMA ListedSeq == ASSUME NEW S, NEW ts \in Seq(S) PROVE Listed(ts)
<1>1. PICK n \in Nat : ts \in [1 .. n -> S] BY SeqDef
<1>2. ts \in [1 .. n -> {ts[i] : i \in DOMAIN ts}] BY <1>1
<1> QED BY <1>2, SeqDef DEF Listed

LEMMA TailListed == ASSUME NEW ts, Listed(ts), ts # <<>> PROVE Listed(Tail(ts))
<1>1. ts \in Seq({ts[i] : i \in DOMAIN ts}) BY DEF Listed
<1>2. Tail(ts) \in Seq({ts[i] : i \in DOMAIN ts}) BY <1>1, TailOf
<1> QED BY <1>2, ListedSeq

LEMMA RanRevisions == ASSUME SInv, NEW e \in Engines, NEW t, Ran(e, t) PROVE Revisions'
<1>1. /\ current \in Nat
      /\ \A r \in 1 .. current : /\ IsIr(states[r]) /\ states[r].revision = r /\ states[r].contract = sources[r]
                                 /\ Good(states[r], rows)
  BY DEF SInv, Revisions
<1>2. TxOK(t, rows) /\ rows' = rows \cup t.rows BY FirstOf DEF Ran
<1>3. current' \in Nat /\ DOMAIN sources' = 1 .. current' /\ DOMAIN states' = 1 .. current' BY <1>1, SaveFacts
<1>4. SUFFICES ASSUME NEW r \in 1 .. current'
               PROVE  /\ IsIr(states'[r]) /\ states'[r].revision = r /\ states'[r].contract = sources'[r]
                      /\ Good(states'[r], rows')
  BY <1>3 DEF Revisions
<1>5. CASE t.save # None /\ r = current'
  <2>1. current' = t.save.revision /\ sources'[r] = t.save.contract /\ states'[r] = t.save BY <1>5, SaveFacts
  <2> QED BY <1>2, <1>5, <2>1 DEF TxOK
<1>6. CASE t.save = None \/ r # current'
  <2>1. r \in 1 .. current /\ states'[r] = states[r] /\ sources'[r] = sources[r]
    <3>1. CASE t.save = None BY <3>1, SaveFacts
    <3>2. CASE t.save # None
      <4>1. r # current' BY <1>6, <3>2
      <4>2. r \in 1 .. current BY <1>1, <4>1, SaveFacts
      <4> QED BY <3>2, <4>1, <4>2, SaveFacts
    <3> QED BY <3>1, <3>2
  <2>2. Good(states[r], rows') BY <1>1, <1>2, <2>1, GoodGrows
  <2> QED BY <1>1, <2>1, <2>2
<1> QED BY <1>5, <1>6

LEMMA RanChains == ASSUME SInv, NEW e \in Engines, NEW t, Ran(e, t) PROVE Chains'
<1>1. /\ current \in Nat /\ MaxRevisions \in Nat \ {0}
      /\ \A r \in DOMAIN points :
           IsIr(points[r].ir) /\ Good(points[r].ir, rows) /\ \A k \in StoreKey : points[r].receipts[k] \in Nat
  BY StoreAssumption DEF SInv, Revisions, Chains
<1>2. PICK m \in 0 .. MaxRevisions : current <= m /\ DOMAIN points = 1 .. m BY DEF SInv, Chains
<1>3. TxOK(t, rows) /\ rows' = rows \cup t.rows BY FirstOf DEF Ran
<1>4. \E n \in 0 .. MaxRevisions : current' <= n /\ DOMAIN points' = 1 .. n
  <2>1. \E n \in 0 .. MaxRevisions : m <= n /\ DOMAIN points' = 1 .. n
    <3>1. CASE t.point = None
      <4>1. points' = points BY <3>1, PointFacts
      <4>2. m <= m BY <1>1
      <4> QED BY <1>2, <4>1, <4>2
    <3>2. CASE t.point # None
      <4>1. t.point.revision \in 1 .. MaxRevisions BY <3>2, FirstOf DEF IsIr, Irs, Revision
      <4>2. ~Points(t, t.point.revision - 1) BY <4>1 DEF Points
      <4>3. t.point.revision = 1 \/ t.point.revision - 1 \in 1 .. m BY <1>2, <3>2, <4>2, FirstOf
      <4>4. t.point.revision \in 1 .. m \/ t.point.revision = m + 1 BY <1>2, <4>1, <4>3
      <4>5. DOMAIN points' = (1 .. m) \cup {t.point.revision} BY <1>2, <3>2, PointFacts
      <4>6. CASE t.point.revision \in 1 .. m BY <1>2, <4>5, <4>6
      <4>7. CASE t.point.revision = m + 1
        <5>1. m + 1 \in 0 .. MaxRevisions BY <1>1, <4>1, <4>7
        <5>2. (1 .. m) \cup {m + 1} = 1 .. m + 1 BY <1>2
        <5>3. m <= m + 1 BY <1>2
        <5> QED BY <4>5, <4>7, <5>1, <5>2, <5>3
      <4> QED BY <4>4, <4>6, <4>7
    <3> QED BY <3>1, <3>2
  <2>2. PICK n \in 0 .. MaxRevisions : m <= n /\ DOMAIN points' = 1 .. n BY <2>1
  <2>3. current' <= n
    <3>1. CASE t.save = None BY <1>1, <1>2, <2>2, <3>1, SaveFacts
    <3>2. CASE t.save # None
      <4>1. t.save.revision \in DOMAIN points \/ Points(t, t.save.revision) BY <3>2, FirstOf
      <4>2. t.save.revision \in DOMAIN points' BY <4>1, PointFacts DEF Points
      <4> QED BY <2>2, <3>2, <4>2, SaveFacts
    <3> QED BY <3>1, <3>2
  <2> QED BY <2>2, <2>3
<1>5. ASSUME NEW r \in DOMAIN points'
      PROVE  IsIr(points'[r].ir) /\ Good(points'[r].ir, rows') /\ \A k \in StoreKey : points'[r].receipts[k] \in Nat
  <2>2. CASE t.point # None /\ r = t.point.revision
    <3>1. /\ points'[r].ir = t.point
          /\ \A k \in StoreKey : points'[r].receipts[k] = Len(receipts[k])
      <4>1. points'[r] = [ir |-> t.point, heads |-> {q \in rows' : q.revision = t.point.revision},
                          receipts |-> [k \in StoreKey |-> Len(receipts[k])]]
        BY <2>2, PointFacts
      <4> QED BY <4>1
    <3>2. \A k \in StoreKey : Len(receipts[k]) \in Nat
      <4>1. Len(<<>>) = 0 /\ Len(<<"PREPARED">>) = 1 /\ Len(<<"PREPARED", "COMMITTED">>) = 2 OBVIOUS
      <4> QED BY <4>1 DEF SInv, ReceiptsSound
    <3> QED BY <1>3, <2>2, <3>1, <3>2 DEF TxOK
  <2>3. CASE t.point = None \/ r # t.point.revision
    <3>1. r \in DOMAIN points /\ points'[r] = points[r] BY <2>3, PointFacts
    <3>2. Good(points[r].ir, rows') BY <1>1, <1>3, <3>1, GoodGrows
    <3> QED BY <1>1, <3>1, <3>2
  <2> QED BY <2>2, <2>3
<1> QED BY <1>4, <1>5 DEF Chains

LEMMA RanGrants == ASSUME SInv, NEW e \in Engines, NEW t, Ran(e, t) PROVE Grants'
<1>1. /\ \A k \in StoreKey : /\ answers[k] = IF receipts[k] = <<>> THEN 0 ELSE 1
                             /\ receipts[k] # <<>> => ApprovedAmong(rows, k.revision)
  BY DEF SInv, Grants
<1>2. TxOK(t, rows) /\ rows \subseteq rows' BY FirstOf DEF Ran
<1>3. SUFFICES ASSUME NEW k \in StoreKey
               PROVE  /\ answers'[k] = IF receipts'[k] = <<>> THEN 0 ELSE 1
                      /\ receipts'[k] # <<>> => ApprovedAmong(rows', k.revision)
  BY ReceiptFacts DEF Grants
<1>4. receipts[k] # <<>> \/ (t.receipt # None /\ t.receipt.key = k) \/ receipts'[k] = receipts[k] BY ReceiptFacts
<1>5. receipts'[k] # <<>> => ApprovedAmong(rows, k.revision) BY <1>1, <1>2, <1>4 DEF TxOK
<1>6. receipts'[k] # <<>> => ApprovedAmong(rows', k.revision) BY <1>2, <1>5, ApprovedGrows
<1>7. <<"PREPARED">> # <<>> /\ <<"PREPARED", "COMMITTED">> # <<>> OBVIOUS
<1>8. answers'[k] = IF receipts'[k] = <<>> THEN 0 ELSE 1 BY <1>1, <1>7, ReceiptFacts
<1> QED BY <1>6, <1>8

LEMMA RanCalls == ASSUME SInv, NEW e \in Engines, NEW t, Ran(e, t) PROVE Calls'
<1>1. /\ DOMAIN calls = Engines
      /\ \A f \in Engines : Listed(calls[f]) /\ CallOK(calls[f], DOMAIN points, DOMAIN sources, rows)
  BY DEF SInv, Calls
<1>2. current \in Nat /\ DOMAIN sources = 1 .. current BY DEF SInv, Revisions
<1>3. DOMAIN points \subseteq DOMAIN points' /\ DOMAIN sources \subseteq DOMAIN sources' /\ rows \subseteq rows'
  <2>1. DOMAIN sources' = 1 .. current' /\ current' \in {current, current + 1} BY SaveFacts
  <2>2. 1 .. current \subseteq 1 .. current' BY <1>2, <2>1
  <2>3. rows \subseteq rows' BY DEF Ran
  <2> QED BY <1>2, <2>1, <2>2, <2>3, PointFacts
<1>4. calls[e] # <<>> /\ t = calls[e][1] /\ calls' = [calls EXCEPT ![e] = Tail(@)] BY FirstOf DEF Ran
<1>5. \A r : Points(t, r) => r \in DOMAIN points' BY PointFacts DEF Points
<1>6. \A r : Saves(t, r) => r \in DOMAIN sources'
  <2>1. SUFFICES ASSUME NEW r, Saves(t, r) PROVE r \in DOMAIN sources' OBVIOUS
  <2>2. t.save # None /\ r = t.save.revision BY <2>1 DEF Saves
  <2>3. Saveable(t.save) BY <2>2 DEF Ran, Allowed
  <2>4. r = current' /\ r \in 1 .. current' BY <1>2, <2>2, <2>3, SaveFacts DEF Saveable
  <2> QED BY <2>4, SaveFacts
<1>7. ASSUME NEW f \in Engines PROVE Listed(calls'[f]) /\ CallOK(calls'[f], DOMAIN points', DOMAIN sources', rows')
  <2>1. CASE f = e
    <3>1. calls[e] \in Seq({calls[e][i] : i \in DOMAIN calls[e]}) BY <1>1 DEF Listed
    <3>2. CallOK(Tail(calls[e]), DOMAIN points', DOMAIN sources', rows') BY <1>1, <1>3, <1>4, <1>5, <1>6, <3>1, CallGoesOn
    <3>3. calls'[f] = Tail(calls[e]) BY <1>1, <1>4, <2>1
    <3>4. Listed(Tail(calls[e])) BY <1>1, <1>4, TailListed
    <3> QED BY <3>2, <3>3, <3>4
  <2>2. CASE f # e
    <3>1. calls'[f] = calls[f] BY <1>1, <1>4, <2>2
    <3>2. CallOK(calls[f], DOMAIN points', DOMAIN sources', rows') BY <1>1, <1>3, CallGrows
    <3> QED BY <1>1, <3>1, <3>2
  <2> QED BY <2>1, <2>2
<1>8. DOMAIN calls' = Engines BY <1>1, <1>4
<1> QED BY <1>7, <1>8 DEF Calls

LEMMA RanSound ==
  ASSUME SInv, NEW e \in Engines, NEW t, Ran(e, t)
  PROVE  LedgersSound' /\ ReceiptsSound' /\ CheckpointsSound' /\ AnchorsSound' /\ PoliciesSound' /\ Policies'
<1>1. LedgersSound'
  <2>1. \A row \in rows : row.revision \in DOMAIN sources BY DEF SInv, LedgersSound
  <2>2. \A row \in rows' : row.revision \in DOMAIN sources \/ Saves(t, row.revision) BY <2>1, FirstOf DEF Ran
  <2>3. current \in Nat /\ DOMAIN sources \subseteq DOMAIN sources' BY SaveFacts DEF SInv, Revisions
  <2>4. \A r : Saves(t, r) => r \in DOMAIN sources'
    <3>1. SUFFICES ASSUME NEW r, Saves(t, r) PROVE r \in DOMAIN sources' OBVIOUS
    <3>2. t.save # None /\ r = t.save.revision BY <3>1 DEF Saves
    <3>3. Saveable(t.save) BY <3>2 DEF Ran, Allowed
    <3>4. r = current' /\ r \in 1 .. current' BY <2>3, <3>2, <3>3, SaveFacts DEF Saveable
    <3> QED BY <3>4, SaveFacts
  <2> QED BY <2>2, <2>3, <2>4 DEF LedgersSound
<1>2. ReceiptsSound' BY ReceiptFacts DEF ReceiptsSound
<1>3. CheckpointsSound'
  <2>1. \A r \in DOMAIN points :
           /\ points[r].ir.revision = r /\ points[r].heads \subseteq rows
           /\ \A k \in StoreKey : points[r].receipts[k] <= Len(receipts[k])
    BY DEF SInv, CheckpointsSound
  <2>2. \A k \in StoreKey : Len(receipts[k]) \in Nat /\ Len(receipts'[k]) \in Nat /\ Len(receipts[k]) <= Len(receipts'[k])
    <3>1. Len(<<>>) = 0 /\ Len(<<"PREPARED">>) = 1 /\ Len(<<"PREPARED", "COMMITTED">>) = 2 OBVIOUS
    <3> QED BY <3>1, ReceiptFacts
  <2>3. SUFFICES ASSUME NEW r \in DOMAIN points'
                 PROVE  /\ points'[r].ir.revision = r /\ points'[r].heads \subseteq rows'
                        /\ \A k \in StoreKey : points'[r].receipts[k] <= Len(receipts'[k])
    BY DEF CheckpointsSound
  <2>4. CASE t.point # None /\ r = t.point.revision
    <3>1. points'[r] = [ir |-> t.point, heads |-> {q \in rows' : q.revision = t.point.revision},
                        receipts |-> [k \in StoreKey |-> Len(receipts[k])]]
      BY <2>4, PointFacts
    <3>2. points'[r].ir.revision = r /\ points'[r].heads \subseteq rows' BY <2>4, <3>1
    <3>3. \A k \in StoreKey : points'[r].receipts[k] = Len(receipts[k]) BY <3>1
    <3> QED BY <2>2, <3>2, <3>3
  <2>5. CASE t.point = None \/ r # t.point.revision
    <3>1. r \in DOMAIN points /\ points'[r] = points[r] BY <2>5, PointFacts
    <3>2. rows \subseteq rows' BY DEF Ran
    <3>3. points'[r].ir.revision = r /\ points'[r].heads \subseteq rows' BY <2>1, <3>1, <3>2
    <3>4. ASSUME NEW k \in StoreKey PROVE points'[r].receipts[k] <= Len(receipts'[k])
      <4>1. points[r].receipts[k] \in Nat BY <3>1 DEF SInv, Chains
      <4>2. points[r].receipts[k] <= Len(receipts[k]) BY <2>1, <3>1
      <4>3. \A a, b, c \in Nat : a <= b /\ b <= c => a <= c OBVIOUS
      <4>4. points[r].receipts[k] <= Len(receipts'[k]) BY <2>2, <4>1, <4>2, <4>3
      <4> QED BY <3>1, <4>4
    <3> QED BY <3>3, <3>4
  <2> QED BY <2>4, <2>5
<1>4. AnchorsSound' BY PointFacts DEF AnchorsSound
<1>5. PoliciesSound' /\ Policies'
  <2>1. policies' = policies BY DEF Ran
  <2> QED BY <2>1 DEF SInv, PoliciesSound, Policies, Listed
<1> QED BY <1>1, <1>2, <1>3, <1>4, <1>5

LEMMA NoneAlone == \A chain, contracts, latest, answered : AloneOK(<<>>, chain, contracts, latest, answered)
<1>1. DOMAIN <<>> = {} OBVIOUS
<1> QED BY <1>1 DEF AloneOK

\* One engine at a time, when it runs a transaction: either the revision is
\* the one it was, or the next one is saved, which nobody is uncertain about
\* and whose checkpoint was written with it or before it.
LEMMA RanAlone == ASSUME SInv, NEW e \in Engines, NEW t, Ran(e, t) PROVE OneAtATime'
<1> DEFINE ts == calls[e]
<1> DEFINE rest == Tail(ts)
<1> DEFINE next == current + 1
<1>1. together' = together /\ together \in BOOLEAN BY DEF Ran, SInv, OneAtATime
<1>2. SUFFICES ASSUME ~together
      PROVE  /\ \A f, g \in Engines : calls'[f] # <<>> /\ calls'[g] # <<>> => f = g
             /\ \A f \in Engines : AloneOK(calls'[f], points', sources', current', receipts')
             /\ \A r \in DOMAIN points' : r <= current' + 1 /\ (r <= current' => points'[r].ir.contract = sources'[r])
             /\ \A k \in StoreKey : receipts'[k] = <<"PREPARED">> => k.revision = current'
  BY <1>1 DEF OneAtATime
<1>3. /\ \A f, g \in Engines : calls[f] # <<>> /\ calls[g] # <<>> => f = g
      /\ AloneOK(ts, points, sources, current, receipts)
      /\ \A r \in DOMAIN points : r <= current + 1 /\ (r <= current => points[r].ir.contract = sources[r])
      /\ \A k \in StoreKey : receipts[k] = <<"PREPARED">> => k.revision = current
  BY <1>2 DEF SInv, OneAtATime
<1>4. /\ DOMAIN calls = Engines /\ ts # <<>> /\ t = ts[1] /\ 1 \in DOMAIN ts /\ calls' = [calls EXCEPT ![e] = Tail(@)]
      /\ ts \in Seq({ts[i] : i \in DOMAIN ts})
  BY FirstOf DEF Ran, SInv, Calls, Listed
<1>5. \A f \in Engines : calls'[f] = IF f = e THEN rest ELSE <<>> BY <1>3, <1>4
<1>6. current \in Nat /\ DOMAIN sources = 1 .. current BY DEF SInv, Revisions
<1>7. /\ t.point # None => /\ t.point.revision \in Nat \ {0} /\ t.point.revision <= next
                           /\ t.point.revision <= current => t.point.contract = sources[t.point.revision]
      /\ t.receipt # None => (t.receipt.status = "PREPARED" => t.receipt.key.revision = current)
      /\ Saves(t, next) => Anew(ts, 1, points, next, receipts)
  <2>1. t.point # None => t.point.revision \in Nat \ {0} BY FirstOf DEF IsIr, Irs, Revision
  <2> QED BY <1>3, <1>4, <2>1 DEF AloneOK
<1>8. \A i \in DOMAIN rest : i \in Nat /\ i >= 1 /\ i + 1 \in DOMAIN ts /\ rest[i] = ts[i + 1] BY <1>4, TailOf
<1>9. \A i \in DOMAIN rest :
        /\ rest[i].point # None => /\ rest[i].point.revision <= next
                                   /\ rest[i].point.revision <= current => rest[i].point.contract = sources[rest[i].point.revision]
        /\ rest[i].save # None => rest[i].save.revision <= next
        /\ Saves(rest[i], next) => Anew(ts, i + 1, points, next, receipts)
        /\ rest[i].receipt # None => (rest[i].receipt.status = "PREPARED" => rest[i].receipt.key.revision = current)
  BY <1>3, <1>8 DEF AloneOK
<1>10. \A i \in DOMAIN rest : /\ rest[i].point # None => rest[i].point.revision \in Nat \ {0}
                              /\ rest[i].save # None => rest[i].save.revision \in Nat \ {0}
  <2>1. CallOK(ts, DOMAIN points, DOMAIN sources, rows) BY DEF SInv, Calls
  <2>2. \A i \in DOMAIN ts : (ts[i].point # None => IsIr(ts[i].point)) /\ (ts[i].save # None => IsIr(ts[i].save))
    BY <2>1 DEF CallOK, TxOK
  <2>3. \A ir : IsIr(ir) => ir.revision \in Nat \ {0} BY DEF IsIr, Irs, Revision
  <2> QED BY <1>8, <2>2, <2>3
<1>11. DOMAIN points \subseteq Nat BY DEF SInv, Chains
<1>12. CASE current' = current
  <2>1. \A r \in 1 .. current : sources'[r] = sources[r] BY SaveFacts
  <2>2. ASSUME NEW i \in DOMAIN rest, Saves(rest[i], next) PROVE Anew(rest, i, points', next, receipts')
    <3>1. Anew(ts, i + 1, points, next, receipts) BY <1>9, <2>2
    <3>2. /\ t.receipt = None
          /\ \A j \in DOMAIN ts : /\ ts[j].receipt = None
                                  /\ Points(ts[j], next) => ts[j].point.contract = rest[i].save.contract
      BY <1>4, <1>8, <3>1 DEF Anew
    <3>3. ~UncertainIn(receipts') BY <3>1, <3>2, ReceiptFacts DEF Anew
    <3>4. \A j \in DOMAIN rest : /\ rest[j].receipt = None
                                 /\ Points(rest[j], next) => rest[j].point.contract = rest[i].save.contract
      BY <1>8, <3>2
    <3>5. Points(t, next) => next \in DOMAIN points' /\ points'[next].ir.contract = rest[i].save.contract
      <4>1. SUFFICES ASSUME Points(t, next) PROVE next \in DOMAIN points' /\ points'[next].ir.contract = rest[i].save.contract OBVIOUS
      <4>2. t.point # None /\ t.point.revision = next BY <4>1 DEF Points
      <4>3. next \in DOMAIN points' /\ points'[next].ir = t.point BY <4>2, PointFacts
      <4> QED BY <1>4, <3>2, <4>1, <4>3
    <3>6. CASE \E j \in 1 .. i + 1 : Points(ts[j], next)
      <4>1. PICK j \in 1 .. i + 1 : Points(ts[j], next) BY <3>6
      <4>2. CASE j = 1 BY <1>4, <3>3, <3>4, <3>5, <4>1, <4>2 DEF Anew
      <4>3. CASE j # 1
        <5>1. i \in DOMAIN rest /\ i \in Nat /\ DOMAIN rest = 1 .. Len(ts) - 1 /\ Len(ts) \in Nat BY <1>4, TailOf
        <5>2. j - 1 \in 1 .. i /\ j - 1 \in DOMAIN rest /\ (j - 1) + 1 = j BY <4>3, <5>1
        <5>3. Points(rest[j - 1], next) BY <1>8, <4>1, <5>2
        <5> QED BY <3>3, <3>4, <5>2, <5>3 DEF Anew
      <4> QED BY <4>2, <4>3
    <3>7. CASE next \in DOMAIN points /\ points[next].ir.contract = ts[i + 1].save.contract
      <4>1. next \in DOMAIN points' BY <3>7, PointFacts
      <4>2. points'[next].ir.contract = rest[i].save.contract
        <5>1. CASE Points(t, next) BY <3>5, <5>1
        <5>2. CASE ~Points(t, next)
          <6>1. points'[next] = points[next] BY <3>7, <5>2, PointFacts DEF Points
          <6> QED BY <1>8, <3>7, <6>1
        <5> QED BY <5>1, <5>2
      <4> QED BY <3>3, <3>4, <4>1, <4>2 DEF Anew
    <3> QED BY <3>1, <3>6, <3>7 DEF Anew
  <2>3. AloneOK(rest, points', sources', current', receipts')
    <3>1. SUFFICES ASSUME NEW i \in DOMAIN rest
          PROVE /\ rest[i].point # None => /\ rest[i].point.revision <= next
                                           /\ rest[i].point.revision <= current => rest[i].point.contract = sources'[rest[i].point.revision]
                /\ rest[i].save # None => rest[i].save.revision <= next
                /\ Saves(rest[i], next) => Anew(rest, i, points', next, receipts')
                /\ rest[i].receipt # None => (rest[i].receipt.status = "PREPARED" => rest[i].receipt.key.revision = current)
      BY <1>12 DEF AloneOK
    <3>2. rest[i].point # None /\ rest[i].point.revision <= current => rest[i].point.revision \in 1 .. current BY <1>6, <1>10
    <3> QED BY <1>9, <2>1, <2>2, <3>2
  <2>4. ASSUME NEW r \in DOMAIN points' PROVE r <= next /\ (r <= current => points'[r].ir.contract = sources'[r])
    <3>1. CASE t.point # None /\ r = t.point.revision
      <4>1. points'[r].ir = t.point BY <3>1, PointFacts
      <4>2. r <= next /\ (r <= current => r \in 1 .. current) BY <1>6, <1>7, <3>1
      <4> QED BY <1>7, <2>1, <3>1, <4>1, <4>2
    <3>2. CASE t.point = None \/ r # t.point.revision
      <4>1. r \in DOMAIN points /\ points'[r] = points[r] BY <3>2, PointFacts
      <4>2. r \in Nat \ {0} BY <4>1 DEF SInv, Chains
      <4>3. r <= current => r \in 1 .. current BY <1>6, <4>2
      <4> QED BY <1>3, <2>1, <4>1, <4>3
    <3> QED BY <3>1, <3>2
  <2>5. \A k \in StoreKey : receipts'[k] = <<"PREPARED">> => k.revision = current
    <3>1. ASSUME NEW k \in StoreKey, receipts'[k] = <<"PREPARED">> PROVE k.revision = current
      <4>1. receipts[k] = <<"PREPARED">> \/ (t.receipt # None /\ t.receipt.key = k /\ t.receipt.status = "PREPARED")
        <5>1. <<"PREPARED">> # <<"PREPARED", "COMMITTED">> OBVIOUS
        <5> QED BY <3>1, <5>1, ReceiptFacts
      <4> QED BY <1>3, <1>7, <4>1
    <3> QED BY <3>1
  <2> QED BY <1>5, <1>12, <2>3, <2>4, <2>5, NoneAlone
<1>13. CASE current' # current
  <2>1. current' = next /\ Saves(t, next) /\ sources'[next] = t.save.contract BY <1>6, <1>13, SaveFacts DEF Saves
  <2>2. Anew(ts, 1, points, next, receipts) BY <1>7, <2>1
  <2>3. /\ ~UncertainIn(receipts) /\ t.receipt = None
        /\ \A j \in DOMAIN ts : ts[j].receipt = None /\ (Points(ts[j], next) => ts[j].point.contract = t.save.contract)
        /\ Points(t, next) \/ (next \in DOMAIN points /\ points[next].ir.contract = t.save.contract)
    <3>1. \A j \in 1 .. 1 : j = 1 OBVIOUS
    <3> QED BY <1>4, <2>2, <3>1 DEF Anew
  <2>4. receipts' = receipts BY <2>3, ReceiptFacts
  <2>5. \A r \in 1 .. current : sources'[r] = sources[r] BY SaveFacts
  <2>6. AloneOK(rest, points', sources', current', receipts')
    <3>1. SUFFICES ASSUME NEW i \in DOMAIN rest
          PROVE /\ rest[i].point # None => /\ rest[i].point.revision <= next + 1
                                           /\ rest[i].point.revision <= next => rest[i].point.contract = sources'[rest[i].point.revision]
                /\ rest[i].save # None => rest[i].save.revision <= next + 1
                /\ ~Saves(rest[i], next + 1) /\ rest[i].receipt = None
      BY <2>1 DEF AloneOK
    <3>2. rest[i].receipt = None BY <1>8, <2>3
    <3>3. rest[i].save # None => rest[i].save.revision <= next + 1 /\ rest[i].save.revision # next + 1 BY <1>6, <1>9, <1>10
    <3>4. ASSUME rest[i].point # None
          PROVE  rest[i].point.revision <= next + 1 /\ rest[i].point.contract = sources'[rest[i].point.revision]
      <4>1. rest[i].point.revision \in Nat \ {0} /\ rest[i].point.revision <= next BY <1>9, <1>10, <3>4
      <4>2. CASE rest[i].point.revision = next
        <5>1. Points(ts[i + 1], next) /\ i + 1 \in DOMAIN ts BY <1>8, <3>4, <4>2 DEF Points
        <5> QED BY <1>6, <1>8, <2>1, <2>3, <4>1, <4>2, <5>1
      <4>3. CASE rest[i].point.revision # next
        <5>1. rest[i].point.revision \in 1 .. current /\ rest[i].point.revision <= next + 1 BY <1>6, <4>1, <4>3
        <5>2. rest[i].point.contract = sources[rest[i].point.revision] BY <1>9, <3>4, <5>1
        <5> QED BY <2>5, <5>1, <5>2
      <4> QED BY <4>2, <4>3
    <3> QED BY <3>2, <3>3, <3>4 DEF Saves
  <2>7. ASSUME NEW r \in DOMAIN points' PROVE r <= next + 1 /\ (r <= next => points'[r].ir.contract = sources'[r])
    <3>1. CASE t.point # None /\ r = t.point.revision
      <4>1. points'[r].ir = t.point BY <3>1, PointFacts
      <4>2. r \in Nat \ {0} /\ r <= next BY <1>7, <3>1
      <4>3. CASE r = next
        <5>1. Points(ts[1], next) BY <1>4, <3>1, <4>3 DEF Points
        <5>2. ts[1].point.contract = t.save.contract BY <1>4, <2>3, <5>1
        <5>3. points'[r].ir.contract = sources'[r] BY <1>4, <2>1, <4>1, <4>3, <5>2
        <5>4. r <= next + 1 BY <1>6, <4>3
        <5> QED BY <5>3, <5>4
      <4>4. CASE r # next
        <5>1. r \in 1 .. current /\ r <= next + 1 /\ r <= current BY <1>6, <4>2, <4>4
        <5> QED BY <1>7, <2>5, <3>1, <4>1, <5>1
      <4> QED BY <4>3, <4>4
    <3>2. CASE t.point = None \/ r # t.point.revision
      <4>1. r \in DOMAIN points /\ points'[r] = points[r] BY <3>2, PointFacts
      <4>2. r \in Nat \ {0} BY <4>1 DEF SInv, Chains
      <4>3. r <= next /\ (r <= current => points[r].ir.contract = sources[r]) BY <1>3, <4>1
      <4>4. CASE r = next
        <5>1. ~Points(t, next) BY <3>2, <4>4 DEF Points
        <5> QED BY <1>6, <2>1, <2>3, <4>1, <4>4, <5>1
      <4>5. CASE r # next
        <5>1. r \in 1 .. current /\ r <= next + 1 /\ r <= current BY <1>6, <4>2, <4>3, <4>5
        <5> QED BY <2>5, <4>1, <4>3, <5>1
      <4> QED BY <4>4, <4>5
    <3> QED BY <3>1, <3>2
  <2>8. \A k \in StoreKey : receipts'[k] # <<"PREPARED">> BY <2>3, <2>4 DEF UncertainIn
  <2> QED BY <1>5, <2>1, <2>6, <2>7, <2>8, NoneAlone
<1> QED BY <1>12, <1>13
--------------------------------------------------------------------------------
(* A call that is begun *)

LEMMA CallKeeps ==
  ASSUME SInv, NEW e \in Engines, NEW ts, Call(e, ts), Listed(ts), CallOK(ts, DOMAIN points, DOMAIN sources, rows),
         ~together => AloneOK(ts, points, sources, current, receipts)
  PROVE  SInv'
<1>1. /\ UNCHANGED <<sources, states, current, rows, points, anchors, receipts, policies, answers>>
      /\ calls[e] = <<>> /\ calls' = [calls EXCEPT ![e] = ts]
      /\ together' = (together \/ \E f \in Engines \ {e} : calls[f] # <<>>)
  BY DEF Call
<1>2. Revisions' /\ Chains' /\ Grants' /\ Policies' BY <1>1 DEF SInv, Revisions, Chains, Grants, Policies, Listed
<1>3. LedgersSound' /\ ReceiptsSound' /\ CheckpointsSound' /\ AnchorsSound' /\ PoliciesSound'
  BY <1>1 DEF SInv, LedgersSound, ReceiptsSound, CheckpointsSound, AnchorsSound, PoliciesSound
<1>4. DOMAIN calls = Engines /\ \A f \in Engines : calls'[f] = IF f = e THEN ts ELSE calls[f]
  BY <1>1 DEF SInv, Calls
<1>5. Calls' BY <1>1, <1>4 DEF SInv, Calls
<1>6. OneAtATime'
  <2>1. together' \in BOOLEAN
    <3>1. (together \/ \E f \in Engines \ {e} : calls[f] # <<>>) \in BOOLEAN OBVIOUS
    <3> QED BY <1>1, <3>1
  <2>2. ASSUME ~together' PROVE ~together /\ \A f \in Engines : f = e \/ calls[f] = <<>> BY <1>1, <2>2
  <2>3. ASSUME ~together'
        PROVE  /\ \A f, g \in Engines : calls'[f] # <<>> /\ calls'[g] # <<>> => f = g
               /\ \A f \in Engines : AloneOK(calls'[f], points, sources, current, receipts)
    BY <1>4, <2>2, <2>3, NoneAlone
  <2>4. ASSUME ~together'
        PROVE  /\ \A r \in DOMAIN points : r <= current + 1 /\ (r <= current => points[r].ir.contract = sources[r])
               /\ \A k \in StoreKey : receipts[k] = <<"PREPARED">> => k.revision = current
    BY <2>2, <2>4 DEF SInv, OneAtATime
  <2> QED BY <1>1, <2>1, <2>3, <2>4 DEF OneAtATime
<1> QED BY <1>2, <1>3, <1>5, <1>6 DEF SInv

\* What a method reads of the current revision
LEMMA LoadedFacts ==
  ASSUME SInv, IntegrityHolds, current > 0
  PROVE  /\ IsIr(Loaded) /\ Loaded.revision = current /\ Loaded.contract = sources[current] /\ Resting(Loaded, rows)
         /\ current \in DOMAIN points /\ current \in DOMAIN sources /\ current \in Nat \ {0} /\ current \in Revision
<1>1. current \in 1 .. current /\ current \in DOMAIN sources BY DEF SInv, Revisions
<1>2. IsIr(Loaded) /\ Loaded.revision = current /\ Loaded.contract = sources[current] BY <1>1 DEF SInv, Revisions, Loaded
<1>3. \A n \in Tasks : Loaded.nodes[n].refs \subseteq EvidenceOf(current, n)
  BY <1>1 DEF IntegrityHolds, EvidencePresent, Loaded
<1>4. Resting(Loaded, rows) BY <1>2, <1>3 DEF Resting, Held, EvidenceOf
<1>5. current \in DOMAIN points BY <1>1 DEF SInv, Chains, Revisions
<1> QED BY <1>1, <1>2, <1>4, <1>5 DEF SInv, Revisions, IsIr, Irs

\* A transaction that stays in the current revision
Keeps(ir, ledger) == ir = None \/ (IsIr(ir) /\ ir.revision = current /\ ir.contract = sources[current] /\ Resting(ir, ledger))
Stays(t) ==
  /\ Keeps(t.save, rows \cup t.rows) /\ Keeps(t.point, rows \cup t.rows)
  /\ \A row \in t.rows : row.revision = current
  /\ t.receipt # None => /\ t.receipt.key \in StoreKey /\ t.receipt.status \in {"PREPARED", "COMMITTED"}
                         /\ t.receipt.key.revision = current /\ ApprovedAmong(rows, current)

LEMMA StaysOK ==
  ASSUME SInv, NEW ts, current > 0, \A i \in DOMAIN ts : Stays(ts[i])
  PROVE  CallOK(ts, DOMAIN points, DOMAIN sources, rows) /\ AloneOK(ts, points, sources, current, receipts)
<1>1. current \in Nat /\ current \in DOMAIN sources /\ current \in DOMAIN points BY DEF SInv, Revisions, Chains
<1>2. current = 1 \/ current - 1 \in DOMAIN points
  <2>1. PICK m \in 0 .. MaxRevisions : current <= m /\ DOMAIN points = 1 .. m BY DEF SInv, Chains
  <2> QED BY <1>1, <2>1
<1>3. ASSUME NEW i \in DOMAIN ts PROVE TxOK(ts[i], rows) /\ InTurn(ts, i, DOMAIN points, DOMAIN sources)
  <2>1. Stays(ts[i]) OBVIOUS
  <2>2. TxOK(ts[i], rows) BY <2>1 DEF Stays, Keeps, TxOK, Good
  <2>3. InTurn(ts, i, DOMAIN points, DOMAIN sources) BY <1>1, <1>2, <2>1 DEF Stays, Keeps, InTurn
  <2> QED BY <2>2, <2>3
<1>4. AloneOK(ts, points, sources, current, receipts)
  <2>1. current <= current + 1 /\ current + 1 # current BY <1>1
  <2> QED BY <2>1 DEF Stays, Keeps, AloneOK, Saves
<1> QED BY <1>3, <1>4 DEF CallOK

LEMMA OneTx == ASSUME NEW a PROVE Listed(<<a>>) /\ \A i \in DOMAIN <<a>> : <<a>>[i] = a
<1>1. <<a>> \in Seq({a}) OBVIOUS
<1>2. DOMAIN <<a>> = 1 .. 1 /\ (\A i \in 1 .. 1 : i = 1) /\ <<a>>[1] = a OBVIOUS
<1> QED BY <1>1, <1>2, ListedSeq

LEMMA TwoTx ==
  ASSUME NEW a, NEW b PROVE Listed(<<a, b>>) /\ \A i \in DOMAIN <<a, b>> : <<a, b>>[i] = a \/ <<a, b>>[i] = b
<1>1. <<a, b>> \in Seq({a, b}) OBVIOUS
<1>2. DOMAIN <<a, b>> = 1 .. 2 /\ (\A i \in 1 .. 2 : i = 1 \/ i = 2) /\ <<a, b>>[1] = a /\ <<a, b>>[2] = b OBVIOUS
<1> QED BY <1>1, <1>2, ListedSeq

\* A state of which one node is another
LEMMA WithNode ==
  ASSUME NEW ir, IsIr(ir), NEW n \in Tasks, NEW x \in NodeRecords, NEW new, new = [ir EXCEPT !.nodes[n] = x],
         n \in Acting => x.attempt <= TaskAttempts[n] /\ (x.status = "RUNNING" => x.attempt >= 1)
  PROVE  /\ IsIr(new) /\ new.revision = ir.revision /\ new.contract = ir.contract
         /\ new.nodes[n] = x /\ \A m \in Tasks : m = n \/ new.nodes[m] = ir.nodes[m]
         /\ \A ledger : Resting(ir, ledger) /\ x.refs \subseteq Held(ledger, ir.revision, n) => Resting(new, ledger)
<1>1. ir \in Irs /\ Budgeted(ir) /\ ir.nodes \in [Tasks -> NodeRecords] BY DEF IsIr, Irs
<1>2. new \in Irs /\ new.revision = ir.revision /\ new.contract = ir.contract /\ new.nodes = [ir.nodes EXCEPT ![n] = x]
  BY <1>1 DEF Irs
<1>3. new.nodes[n] = x /\ \A m \in Tasks : m = n \/ new.nodes[m] = ir.nodes[m] BY <1>1, <1>2
<1>4. Budgeted(new)
  <2>1. Acting \subseteq Tasks BY StoreAssumption
  <2> QED BY <1>1, <1>3, <2>1 DEF Budgeted
<1>5. ASSUME NEW ledger, Resting(ir, ledger), x.refs \subseteq Held(ledger, ir.revision, n) PROVE Resting(new, ledger)
  BY <1>2, <1>3, <1>5 DEF Resting
<1> QED BY <1>2, <1>3, <1>4, <1>5 DEF IsIr

LEMMA StartedOK ==
  ASSUME NEW ir, IsIr(ir), NEW n \in Tasks, n \in Acting => ir.nodes[n].attempt < TaskAttempts[n]
  PROVE  /\ IsIr(Started(ir, n)) /\ Started(ir, n).revision = ir.revision /\ Started(ir, n).contract = ir.contract
         /\ \A ledger : Resting(ir, ledger) => Resting(Started(ir, n), ledger)
<1> DEFINE x == [status |-> "RUNNING", attempt |-> ir.nodes[n].attempt + 1, refs |-> ir.nodes[n].refs]
<1>1. ir \in Irs /\ ir.nodes[n] \in NodeRecords BY DEF IsIr, Irs
<1>2. x \in NodeRecords BY <1>1 DEF NodeRecords, Statuses
<1>3. Started(ir, n) = [ir EXCEPT !.nodes[n] = x] BY <1>1 DEF Started, Irs, NodeNow
<1>4. n \in Acting => x.attempt <= TaskAttempts[n] /\ x.attempt >= 1 BY <1>1, StoreAssumption DEF NodeRecords
<1>5. \A ledger : Resting(ir, ledger) => x.refs \subseteq Held(ledger, ir.revision, n) BY DEF Resting
<1> HIDE DEF x
<1> QED BY <1>2, <1>3, <1>4, <1>5, WithNode

LEMMA AcceptedOK ==
  ASSUME NEW ir, IsIr(ir), NEW n \in Tasks
  PROVE  /\ IsIr(Accepted(ir, n)) /\ Accepted(ir, n).revision = ir.revision /\ Accepted(ir, n).contract = ir.contract
         /\ EvidenceRow(Accepted(ir, n), n) = EvidenceRow(ir, n)
         /\ \A ledger : Resting(ir, ledger) /\ EvidenceRow(ir, n) \in ledger => Resting(Accepted(ir, n), ledger)
<1> DEFINE id == EvidenceRow(ir, n).id
<1> DEFINE x == [status |-> "ACCEPTED", attempt |-> ir.nodes[n].attempt, refs |-> ir.nodes[n].refs \cup {id}]
<1>1. ir \in Irs /\ ir.nodes[n] \in NodeRecords BY DEF IsIr, Irs
<1>2. id = <<"EVIDENCE", ir.revision, n, ir.nodes[n].attempt>> BY DEF EvidenceRow, Row
<1>3. id \in RefIds BY <1>1, <1>2 DEF RefIds, Irs, NodeRecords
<1>4. x \in NodeRecords BY <1>1, <1>3 DEF NodeRecords, Statuses
<1>5. Accepted(ir, n) = [ir EXCEPT !.nodes[n] = x] BY <1>1 DEF Accepted, Irs, NodeNow
<1>6. n \in Acting => x.attempt <= TaskAttempts[n] /\ x.status # "RUNNING" BY DEF IsIr, Budgeted
<1>7. \A ledger : Resting(ir, ledger) => ir.nodes[n].refs \subseteq Held(ledger, ir.revision, n) BY DEF Resting
<1>8. \A ledger : EvidenceRow(ir, n) \in ledger => id \in Held(ledger, ir.revision, n) BY DEF Held, EvidenceRow, Row
<1>9. \A ledger : Resting(ir, ledger) /\ EvidenceRow(ir, n) \in ledger => x.refs \subseteq Held(ledger, ir.revision, n)
  BY <1>7, <1>8
<1>10. x.attempt = ir.nodes[n].attempt OBVIOUS
<1> HIDE DEF x
<1>11. /\ IsIr(Accepted(ir, n)) /\ Accepted(ir, n).revision = ir.revision /\ Accepted(ir, n).contract = ir.contract
       /\ Accepted(ir, n).nodes[n] = x
       /\ \A ledger : Resting(ir, ledger) /\ EvidenceRow(ir, n) \in ledger => Resting(Accepted(ir, n), ledger)
  <2> HIDE DEF id
  <2>1. /\ IsIr(Accepted(ir, n)) /\ Accepted(ir, n).revision = ir.revision /\ Accepted(ir, n).contract = ir.contract
        /\ \A ledger : Resting(ir, ledger) /\ x.refs \subseteq Held(ledger, ir.revision, n) => Resting(Accepted(ir, n), ledger)
    BY <1>4, <1>5, <1>6, WithNode
  <2>2. Accepted(ir, n).nodes[n] = x BY <1>1, <1>5 DEF Irs
  <2> QED BY <1>9, <2>1, <2>2
<1>12. EvidenceRow(Accepted(ir, n), n) = EvidenceRow(ir, n) BY <1>10, <1>11 DEF EvidenceRow, Row
<1> QED BY <1>11, <1>12

LEMMA FailedNowOK ==
  ASSUME NEW ir, IsIr(ir), NEW n \in Tasks
  PROVE  /\ IsIr(FailedNow(ir, n)) /\ FailedNow(ir, n).revision = ir.revision /\ FailedNow(ir, n).contract = ir.contract
         /\ \A ledger : Resting(ir, ledger) => Resting(FailedNow(ir, n), ledger)
<1> DEFINE new == FailedNow(ir, n)
<1>1. ir \in Irs /\ Budgeted(ir) /\ ir.nodes \in [Tasks -> NodeRecords] BY DEF IsIr, Irs
<1>2. new = [ir EXCEPT !.nodes = [m \in Tasks |-> IF m = n THEN NodeNow("FAILED", ir.nodes[m].attempt, ir.nodes[m].refs) ELSE Settled(ir.nodes[m])]]
  BY <1>1 DEF FailedNow, Irs
<1> HIDE DEF new
<1>3. /\ new.revision = ir.revision /\ new.contract = ir.contract
      /\ new.nodes = [m \in Tasks |-> IF m = n THEN NodeNow("FAILED", ir.nodes[m].attempt, ir.nodes[m].refs) ELSE Settled(ir.nodes[m])]
  BY <1>1, <1>2 DEF Irs
<1>4. ASSUME NEW m \in Tasks
      PROVE  /\ new.nodes[m] \in NodeRecords /\ new.nodes[m].attempt = ir.nodes[m].attempt /\ new.nodes[m].refs = ir.nodes[m].refs
             /\ new.nodes[m].status = "RUNNING" => ir.nodes[m].status = "RUNNING"
  <2>1. ir.nodes[m] \in NodeRecords BY <1>1
  <2>2. CASE m = n BY <1>3, <2>1, <2>2 DEF NodeNow, NodeRecords, Statuses
  <2>3. CASE m # n BY <1>3, <2>1, <2>3 DEF Settled, NodeNow, NodeRecords, Statuses
  <2> QED BY <2>2, <2>3
<1>5. new.nodes \in [Tasks -> NodeRecords] BY <1>3, <1>4
<1>6. new \in Irs BY <1>1, <1>2, <1>3, <1>5 DEF Irs
<1>7. Budgeted(new)
  <2>1. Acting \subseteq Tasks BY StoreAssumption
  <2> QED BY <1>1, <1>4, <2>1 DEF Budgeted
<1>8. \A ledger : Resting(ir, ledger) => Resting(new, ledger) BY <1>3, <1>4 DEF Resting
<1> QED BY <1>3, <1>6, <1>7, <1>8 DEF IsIr, new

LEMMA AgainOK ==
  ASSUME NEW ir, IsIr(ir), NEW n \in Tasks
  PROVE  /\ IsIr(Again(ir, n)) /\ Again(ir, n).revision = ir.revision /\ Again(ir, n).contract = ir.contract
         /\ \A ledger : Resting(ir, ledger) => Resting(Again(ir, n), ledger)
<1> DEFINE x == [status |-> "READY", attempt |-> ir.nodes[n].attempt, refs |-> ir.nodes[n].refs]
<1>1. ir \in Irs /\ ir.nodes[n] \in NodeRecords BY DEF IsIr, Irs
<1>2. x \in NodeRecords BY <1>1 DEF NodeRecords, Statuses
<1>3. Again(ir, n) = [ir EXCEPT !.nodes[n] = x] BY <1>1 DEF Again, Irs, NodeNow
<1>4. n \in Acting => x.attempt <= TaskAttempts[n] /\ x.status # "RUNNING" BY DEF IsIr, Budgeted
<1>5. \A ledger : Resting(ir, ledger) => x.refs \subseteq Held(ledger, ir.revision, n) BY DEF Resting
<1> HIDE DEF x
<1> QED BY <1>2, <1>3, <1>4, <1>5, WithNode

LEMMA RowsOf ==
  \A ir, n : /\ RunningRow(ir, n).revision = ir.revision /\ FailedRow(ir, n).revision = ir.revision
             /\ UsageRowOf(ir, n).revision = ir.revision /\ ApprovalRow(ir, n).revision = ir.revision
             /\ EvidenceRow(ir, n).revision = ir.revision /\ IntentRow(ir).revision = ir.revision
BY DEF RunningRow, FailedRow, UsageRowOf, ApprovalRow, EvidenceRow, IntentRow, Row

LEMMA RestingGrows ==
  ASSUME NEW ir, NEW ledger, NEW more, ledger \subseteq more, Resting(ir, ledger) PROVE Resting(ir, more)
<1>1. \A r, n : Held(ledger, r, n) \subseteq Held(more, r, n) BY DEF Held
<1> QED BY <1>1 DEF Resting

LEMMA StaysKeeps ==
  ASSUME SInv, NEW e \in Engines, NEW ts, Call(e, ts), Listed(ts), current > 0, \A i \in DOMAIN ts : Stays(ts[i])
  PROVE  SInv'
BY StaysOK, CallKeeps

LEMMA StartKeeps == ASSUME SInv, NEW e \in Engines, NEW n \in Tasks, CallStart(e, n) PROVE SInv'
<1> DEFINE ir == Started(Loaded, n)
<1> DEFINE a == [Tx EXCEPT !.save = ir, !.claim = {ClaimOf(ir, n)}]
<1> DEFINE b == [Tx EXCEPT !.rows = {RunningRow(ir, n)}]
<1>1. current > 0 /\ Loaded.nodes[n].attempt < TaskAttempts[n] /\ Call(e, <<a, b>>) BY DEF CallStart
<1>2. IntegrityHolds BY <1>1 DEF Call
<1>3. IsIr(ir) /\ ir.revision = current /\ ir.contract = sources[current] /\ Resting(ir, rows)
  BY <1>1, <1>2, LoadedFacts, StartedOK
<1>4. a.save = ir /\ a.point = None /\ a.rows = {} /\ a.receipt = None BY DEF Tx
<1>5. b.save = None /\ b.point = None /\ b.rows = {RunningRow(ir, n)} /\ b.receipt = None BY DEF Tx
<1>6. rows \cup {} = rows /\ RunningRow(ir, n).revision = current BY <1>3, RowsOf
<1> HIDE DEF ir, a, b
<1>7. Stays(a) BY <1>3, <1>4, <1>6 DEF Stays, Keeps
<1>8. Stays(b) BY <1>5, <1>6 DEF Stays, Keeps
<1>9. Listed(<<a, b>>) /\ \A i \in DOMAIN <<a, b>> : Stays(<<a, b>>[i]) BY <1>7, <1>8, TwoTx
<1> QED BY <1>1, <1>9, StaysKeeps

\* A result, accepted or failed, written with its rows stays in the revision.
LEMMA FinishedStays ==
  ASSUME NEW ir, NEW n \in Tasks, NEW with, IsIr(ir), ir.revision = current, ir.contract = sources[current],
         Resting(ir, rows), \A row \in with : row.revision = current
  PROVE  Stays(Failing(ir, n, with)) /\ (EvidenceRow(ir, n) \in with => Stays(Accepting(ir, n, with)))
<1>1. Stays(Failing(ir, n, with))
  <2> DEFINE failed == FailedNow(ir, n)
  <2> DEFINE t == Failing(ir, n, with)
  <2>1. t.save = failed /\ t.point = failed /\ t.rows = with \cup {FailedRow(ir, n)} /\ t.receipt = None BY DEF Failing, Tx
  <2>2. IsIr(failed) /\ failed.revision = current /\ failed.contract = sources[current] /\ Resting(failed, rows)
    BY FailedNowOK
  <2>3. FailedRow(ir, n).revision = current BY RowsOf
  <2> HIDE DEF failed, t
  <2>4. Resting(failed, rows \cup t.rows) BY <2>2, RestingGrows
  <2> QED BY <2>1, <2>2, <2>3, <2>4 DEF Stays, Keeps, t
<1>2. ASSUME EvidenceRow(ir, n) \in with PROVE Stays(Accepting(ir, n, with))
  <2> DEFINE accepted == Accepted(ir, n)
  <2> DEFINE t == Accepting(ir, n, with)
  <2>1. t.save = accepted /\ t.point = accepted /\ t.rows = with /\ t.receipt = None BY DEF Accepting, Tx
  <2>2. Resting(ir, rows \cup t.rows) BY RestingGrows
  <2>3. EvidenceRow(ir, n) \in rows \cup t.rows BY <1>2, <2>1
  <2> HIDE DEF t
  <2>4. IsIr(accepted) /\ accepted.revision = current /\ accepted.contract = sources[current] /\ Resting(accepted, rows \cup t.rows)
    BY <2>2, <2>3, AcceptedOK
  <2> HIDE DEF accepted
  <2> QED BY <2>1, <2>4 DEF Stays, Keeps, t
<1> QED BY <1>1, <1>2

LEMMA RecordResultKeeps == ASSUME SInv, NEW e \in Engines, NEW n \in Tasks, CallRecordResult(e, n) PROVE SInv'
<1> DEFINE with == {EvidenceRow(Loaded, n), UsageRowOf(Loaded, n)}
<1>1. current > 0 BY DEF CallRecordResult
<1>2. PICK a \in Finished(Loaded, n, with) : Call(e, <<a>>) BY DEF CallRecordResult
<1>3. IntegrityHolds BY <1>2 DEF Call
<1>4. IsIr(Loaded) /\ Resting(Loaded, rows) /\ Loaded.revision = current /\ Loaded.contract = sources[current]
  BY <1>1, <1>3, LoadedFacts
<1>5. EvidenceRow(Loaded, n) \in with /\ \A row \in with : row.revision = current BY <1>4, RowsOf
<1> HIDE DEF with
<1>6. Stays(Failing(Loaded, n, with)) /\ Stays(Accepting(Loaded, n, with)) BY <1>4, <1>5, FinishedStays
<1>7. Stays(a) BY <1>2, <1>6 DEF Finished
<1>8. Listed(<<a>>) /\ \A i \in DOMAIN <<a>> : Stays(<<a>>[i]) BY <1>7, OneTx
<1> QED BY <1>1, <1>2, <1>8, StaysKeeps

LEMMA RecordFailureKeeps == ASSUME SInv, NEW e \in Engines, NEW n \in Tasks, CallRecordFailure(e, n) PROVE SInv'
<1>1. current > 0 BY DEF CallRecordFailure
<1>2. PICK measured : measured \subseteq {UsageRowOf(Loaded, n)} /\ Call(e, <<Failing(Loaded, n, measured)>>) BY DEF CallRecordFailure
<1>3. IntegrityHolds BY <1>2 DEF Call
<1>4. IsIr(Loaded) /\ Resting(Loaded, rows) /\ Loaded.revision = current /\ Loaded.contract = sources[current]
  BY <1>1, <1>3, LoadedFacts
<1>5. \A row \in measured : row.revision = current BY <1>2, <1>4, RowsOf
<1>6. PICK a : a = Failing(Loaded, n, measured) OBVIOUS
<1>7. Stays(a) BY <1>4, <1>5, <1>6, FinishedStays
<1>8. Listed(<<a>>) /\ \A i \in DOMAIN <<a>> : Stays(<<a>>[i]) BY <1>7, OneTx
<1> QED BY <1>1, <1>2, <1>6, <1>8, StaysKeeps

LEMMA RetryKeeps == ASSUME SInv, NEW e \in Engines, NEW n \in Tasks, CallRetry(e, n) PROVE SInv'
<1> DEFINE ir == Again(Loaded, n)
<1> DEFINE a == [Tx EXCEPT !.save = ir]
<1>1. current > 0 /\ Call(e, <<a>>) BY DEF CallRetry
<1>2. IntegrityHolds BY <1>1 DEF Call
<1>3. a.save = ir /\ a.point = None /\ a.rows = {} /\ a.receipt = None BY DEF Tx
<1>4. IsIr(ir) /\ ir.revision = current /\ ir.contract = sources[current] /\ Resting(ir, rows)
  BY <1>1, <1>2, LoadedFacts, AgainOK
<1> HIDE DEF ir, a
<1>5. Resting(ir, rows \cup a.rows) BY <1>4, RestingGrows
<1>6. Stays(a) BY <1>3, <1>4, <1>5 DEF Stays, Keeps
<1>7. Listed(<<a>>) /\ \A i \in DOMAIN <<a>> : Stays(<<a>>[i]) BY <1>6, OneTx
<1> QED BY <1>1, <1>7, StaysKeeps

LEMMA ApproveKeeps == ASSUME SInv, NEW e \in Engines, NEW n \in Tasks, CallApprove(e, n) PROVE SInv'
<1> DEFINE ir == Started(Loaded, n)
<1> DEFINE with == {RunningRow(ir, n), EvidenceRow(ir, n), ApprovalRow(ir, n), UsageRowOf(ir, n)}
<1> DEFINE a == [Tx EXCEPT !.point = Loaded]
<1>1. current > 0 /\ n \in Approving BY DEF CallApprove
<1>2. PICK b \in Finished(ir, n, with) : Call(e, <<a, b>>) BY DEF CallApprove
<1>3. IntegrityHolds BY <1>2 DEF Call
<1>4. IsIr(Loaded) /\ Resting(Loaded, rows) /\ Loaded.revision = current /\ Loaded.contract = sources[current]
  BY <1>1, <1>3, LoadedFacts
<1>5. n \notin Acting BY <1>1, StoreAssumption
<1>6. IsIr(ir) /\ ir.revision = current /\ ir.contract = sources[current] /\ Resting(ir, rows)
  BY <1>4, <1>5, StartedOK
<1>7. a.save = None /\ a.point = Loaded /\ a.rows = {} /\ a.receipt = None BY DEF Tx
<1> HIDE DEF ir, a
<1>8. EvidenceRow(ir, n) \in with /\ \A row \in with : row.revision = current BY <1>6, RowsOf
<1> HIDE DEF with
<1>9. Stays(Failing(ir, n, with)) /\ Stays(Accepting(ir, n, with)) BY <1>6, <1>8, FinishedStays
<1>10. Stays(b) BY <1>2, <1>9 DEF Finished
<1>11. rows \cup {} = rows OBVIOUS
<1>12. Stays(a) BY <1>4, <1>7, <1>11 DEF Stays, Keeps
<1>13. Listed(<<a, b>>) /\ \A i \in DOMAIN <<a, b>> : Stays(<<a, b>>[i]) BY <1>10, <1>12, TwoTx
<1> QED BY <1>1, <1>2, <1>13, StaysKeeps

\* The key of a running action is one of the store's, in an approved revision.
LEMMA KeyFacts ==
  ASSUME SInv, NEW n \in Tasks, Acts(n), IntegrityHolds
  PROVE  KeyOf(n) \in StoreKey /\ KeyOf(n).revision = current /\ ApprovedAmong(rows, current) /\ current > 0
<1>1. current > 0 /\ n \in Acting /\ Status(n) = "RUNNING" /\ ApprovedIn(current) BY DEF Acts
<1>2. IsIr(Loaded) /\ current \in Revision BY <1>1, LoadedFacts
<1>3. Loaded.nodes[n].attempt \in 1 .. TaskAttempts[n]
  BY <1>1, <1>2, StoreAssumption DEF IsIr, Irs, NodeRecords, Budgeted, Status
<1>4. KeyOf(n) \in [revision : Revision, task : {n}, attempt : 1 .. TaskAttempts[n]] BY <1>2, <1>3 DEF KeyOf
<1>5. KeyOf(n) \in StoreKey BY <1>1, <1>4 DEF StoreKey
<1>6. KeyOf(n).revision = current BY DEF KeyOf
<1> QED BY <1>1, <1>5, <1>6 DEF ApprovedIn, ApprovedAmong

LEMMA PrepareKeeps == ASSUME SInv, NEW e \in Engines, NEW n \in Tasks, CallPrepare(e, n) PROVE SInv'
<1> DEFINE r == [key |-> KeyOf(n), status |-> "PREPARED"]
<1> DEFINE a == [Tx EXCEPT !.receipt = r]
<1>1. Acts(n) /\ Call(e, <<a>>) BY DEF CallPrepare
<1>2. IntegrityHolds BY <1>1 DEF Call
<1>3. a.save = None /\ a.point = None /\ a.rows = {} /\ a.receipt = r /\ r.key = KeyOf(n) /\ r.status = "PREPARED" BY DEF Tx
<1>4. KeyOf(n) \in StoreKey /\ KeyOf(n).revision = current /\ ApprovedAmong(rows, current) /\ current > 0
  BY <1>1, <1>2, KeyFacts
<1> HIDE DEF a, r
<1>5. Stays(a) BY <1>3, <1>4 DEF Stays, Keeps
<1>6. Listed(<<a>>) /\ \A i \in DOMAIN <<a>> : Stays(<<a>>[i]) BY <1>5, OneTx
<1> QED BY <1>1, <1>4, <1>6, StaysKeeps

LEMMA CommitKeeps == ASSUME SInv, NEW e \in Engines, NEW n \in Tasks, CallCommit(e, n) PROVE SInv'
<1> DEFINE r == [key |-> KeyOf(n), status |-> "COMMITTED"]
<1> DEFINE a == [Tx EXCEPT !.receipt = r]
<1> DEFINE b == [Tx EXCEPT !.point = Loaded]
<1>1. Acts(n) /\ Call(e, <<a, b>>) BY DEF CallCommit
<1>2. IntegrityHolds BY <1>1 DEF Call
<1>3. a.save = None /\ a.point = None /\ a.rows = {} /\ a.receipt = r /\ r.key = KeyOf(n) /\ r.status = "COMMITTED" BY DEF Tx
<1>4. b.save = None /\ b.point = Loaded /\ b.rows = {} /\ b.receipt = None BY DEF Tx
<1>5. KeyOf(n) \in StoreKey /\ KeyOf(n).revision = current /\ ApprovedAmong(rows, current) /\ current > 0
  BY <1>1, <1>2, KeyFacts
<1>6. IsIr(Loaded) /\ Resting(Loaded, rows) /\ Loaded.revision = current /\ Loaded.contract = sources[current]
  BY <1>2, <1>5, LoadedFacts
<1> HIDE DEF a, b, r
<1>7. Resting(Loaded, rows \cup b.rows) BY <1>6, RestingGrows
<1>8. Stays(a) BY <1>3, <1>5 DEF Stays, Keeps
<1>9. Stays(b) BY <1>4, <1>6, <1>7 DEF Stays, Keeps
<1>10. Listed(<<a, b>>) /\ \A i \in DOMAIN <<a, b>> : Stays(<<a, b>>[i]) BY <1>8, <1>9, TwoTx
<1> QED BY <1>1, <1>5, <1>10, StaysKeeps

LEMMA ThreeTx ==
  ASSUME NEW a, NEW b, NEW c, NEW ts, ts = <<a, b, c>>
  PROVE  Listed(ts) /\ DOMAIN ts = 1 .. 3 /\ ts[1] = a /\ ts[2] = b /\ ts[3] = c /\ \A i \in DOMAIN ts : i = 1 \/ i = 2 \/ i = 3
<1>1. <<a, b, c>> \in Seq({a, b, c}) OBVIOUS
<1>2. DOMAIN <<a, b, c>> = 1 .. 3 /\ (\A i \in 1 .. 3 : i = 1 \/ i = 2 \/ i = 3) OBVIOUS
<1>3. <<a, b, c>>[1] = a /\ <<a, b, c>>[2] = b /\ <<a, b, c>>[3] = c OBVIOUS
<1> QED BY <1>1, <1>2, <1>3, ListedSeq

LEMMA FourTx ==
  ASSUME NEW a, NEW b, NEW c, NEW d, NEW ts, ts = <<a, b, c, d>>
  PROVE  /\ Listed(ts) /\ DOMAIN ts = 1 .. 4 /\ ts[1] = a /\ ts[2] = b /\ ts[3] = c /\ ts[4] = d
         /\ \A i \in DOMAIN ts : i = 1 \/ i = 2 \/ i = 3 \/ i = 4
<1>1. <<a, b, c, d>> \in Seq({a, b, c, d}) OBVIOUS
<1>2. DOMAIN <<a, b, c, d>> = 1 .. 4 /\ (\A i \in 1 .. 4 : i = 1 \/ i = 2 \/ i = 3 \/ i = 4) OBVIOUS
<1>3. <<a, b, c, d>>[1] = a /\ <<a, b, c, d>>[2] = b /\ <<a, b, c, d>>[3] = c /\ <<a, b, c, d>>[4] = d OBVIOUS
<1> QED BY <1>1, <1>2, <1>3, ListedSeq

LEMMA FreshFacts == IsIr(FreshIr) /\ FreshIr.revision = 1 /\ \A ledger : Resting(FreshIr, ledger)
<1>1. NodeNow("READY", 0, {}) \in NodeRecords BY DEF NodeNow, NodeRecords, Statuses
<1>2. FreshIr.nodes = [n \in Tasks |-> NodeNow("READY", 0, {})] /\ FreshIr.revision = 1 /\ FreshIr.contract = [n \in Tasks |-> 1]
  BY DEF FreshIr
<1>3. FreshIr \in Irs BY <1>1, StoreAssumption DEF FreshIr, Irs, Revision
<1>4. \A n \in Tasks : FreshIr.nodes[n].refs = {} /\ FreshIr.nodes[n].attempt = 0 /\ FreshIr.nodes[n].status = "READY"
  BY <1>2 DEF NodeNow
<1>5. Budgeted(FreshIr) BY <1>4, StoreAssumption DEF Budgeted
<1> QED BY <1>2, <1>3, <1>4, <1>5 DEF IsIr, Resting

LEMMA KeysOfRevisions == \A k \in StoreKey : k.revision \in Revision
BY DEF StoreKey

LEMMA PlanKeeps == ASSUME SInv, NEW e \in Engines, CallPlan(e) PROVE SInv'
<1> DEFINE a == [Tx EXCEPT !.point = FreshIr]
<1> DEFINE b == [Tx EXCEPT !.save = FreshIr]
<1> DEFINE c == [Tx EXCEPT !.rows = {IntentRow(FreshIr)}]
<1>1. PICK ts : ts = <<a, b, c>> OBVIOUS
<1>2. current = 0 /\ Call(e, ts) BY <1>1 DEF CallPlan
<1>3. a.save = None /\ a.point = FreshIr /\ a.rows = {} /\ a.receipt = None BY DEF Tx
<1>4. b.save = FreshIr /\ b.point = None /\ b.rows = {} /\ b.receipt = None BY DEF Tx
<1>5. c.save = None /\ c.point = None /\ c.rows = {IntentRow(FreshIr)} /\ c.receipt = None BY DEF Tx
<1>6. IsIr(FreshIr) /\ FreshIr.revision = 1 /\ (\A ledger : Good(FreshIr, ledger)) /\ FreshIr # None
  BY FreshFacts, IrNotNone DEF Good, IsIr
<1>7. IntentRow(FreshIr).revision = 1 BY <1>6, RowsOf
<1> HIDE DEF a, b, c
<1>8. Listed(ts) /\ DOMAIN ts = 1 .. 3 /\ ts[1] = a /\ ts[2] = b /\ ts[3] = c /\ \A i \in DOMAIN ts : i = 1 \/ i = 2 \/ i = 3
  BY <1>1, ThreeTx
<1>9. Points(ts[1], 1) /\ Saves(ts[2], 1) BY <1>3, <1>4, <1>6, <1>8 DEF Points, Saves
<1>10. CallOK(ts, DOMAIN points, DOMAIN sources, rows)
  <2>1. \A i \in DOMAIN ts : TxOK(ts[i], rows) BY <1>3, <1>4, <1>5, <1>6, <1>8 DEF TxOK
  <2>2. 1 \in 1 .. 2 /\ 2 \in 1 .. 3 OBVIOUS
  <2>3. InTurn(ts, 1, DOMAIN points, DOMAIN sources) BY <1>3, <1>6, <1>8 DEF InTurn
  <2>4. InTurn(ts, 2, DOMAIN points, DOMAIN sources) BY <1>4, <1>6, <1>8, <1>9, <2>2 DEF InTurn
  <2>5. InTurn(ts, 3, DOMAIN points, DOMAIN sources) BY <1>5, <1>7, <1>8, <1>9, <2>2 DEF InTurn
  <2> QED BY <1>8, <2>1, <2>3, <2>4, <2>5 DEF CallOK
<1>11. ASSUME ~together PROVE AloneOK(ts, points, sources, current, receipts)
  <2>1. ~UncertainIn(receipts)
    <3>1. \A k \in StoreKey : receipts[k] = <<"PREPARED">> => k.revision = 0 BY <1>2, <1>11 DEF SInv, OneAtATime
    <3> QED BY <3>1, KeysOfRevisions DEF UncertainIn, Revision
  <2>2. 1 \in 1 .. 2 /\ current + 1 = 1 BY <1>2
  <2>3. Anew(ts, 2, points, 1, receipts) BY <1>3, <1>4, <1>5, <1>6, <1>8, <1>9, <2>1, <2>2 DEF Anew, Points
  <2> QED BY <1>2, <1>3, <1>4, <1>5, <1>6, <1>8, <2>2, <2>3 DEF AloneOK, Saves
<1> QED BY <1>2, <1>8, <1>10, <1>11, CallKeeps

\* What the revised graph rests on the ledger of the revision before it holds, or nothing.
LEMMA RevisedFacts ==
  ASSUME SInv, IntegrityHolds, current \in 1 .. MaxRevisions - 1, NEW changed \in SUBSET Tasks
  PROVE  IsIr(Revised(changed)) /\ Revised(changed).revision = current + 1 /\ \A more : Good(Revised(changed), rows \cup more)
<1> DEFINE new == Revised(changed)
<1>1. IsIr(Loaded) /\ current \in Nat /\ current > 0 BY LoadedFacts DEF SInv, Revisions
<1>2. Loaded.nodes \in [Tasks -> NodeRecords] /\ Loaded.contract \in [Tasks -> Nat] BY <1>1 DEF IsIr, Irs
<1>3. /\ new.revision = current + 1
      /\ new.contract = [n \in Tasks |-> IF n \in changed THEN current + 1 ELSE Loaded.contract[n]]
      /\ new.nodes = [n \in Tasks |-> IF n \notin changed \cup Approving \cup Acting /\ Status(n) \in {"ACCEPTED", "FROZEN"}
                                      THEN NodeNow("FROZEN", Loaded.nodes[n].attempt, Loaded.nodes[n].refs) ELSE FreshIr.nodes[n]]
      /\ DOMAIN new = {"revision", "contract", "nodes"} /\ new = [revision |-> new.revision, contract |-> new.contract, nodes |-> new.nodes]
  BY DEF Revised
<1> HIDE DEF new
<1>4. \A n \in Tasks : FreshIr.nodes[n] = NodeNow("READY", 0, {}) BY DEF FreshIr
<1>5. \A n \in Tasks : \/ new.nodes[n] = NodeNow("FROZEN", Loaded.nodes[n].attempt, Loaded.nodes[n].refs) /\ n \notin Acting
                       \/ new.nodes[n] = NodeNow("READY", 0, {})
  BY <1>3, <1>4
<1>6. ASSUME NEW n \in Tasks PROVE new.nodes[n] \in NodeRecords
  <2>1. Loaded.nodes[n].attempt \in Nat /\ Loaded.nodes[n].refs \in SUBSET RefIds BY <1>2 DEF NodeRecords
  <2>2. /\ NodeNow("FROZEN", Loaded.nodes[n].attempt, Loaded.nodes[n].refs) \in NodeRecords
        /\ NodeNow("READY", 0, {}) \in NodeRecords
    BY <2>1 DEF NodeNow, NodeRecords, Statuses
  <2> QED BY <1>5, <2>2
<1>7. new.contract \in [Tasks -> Nat] BY <1>1, <1>2, <1>3
<1>8. new.nodes \in [Tasks -> NodeRecords] BY <1>3, <1>6
<1>9. new.revision \in Revision BY <1>1, <1>3, StoreAssumption DEF Revision
<1>10. new \in Irs BY <1>3, <1>7, <1>8, <1>9 DEF Irs
<1>11. Budgeted(new)
  <2>1. \A n \in Acting : new.nodes[n] = NodeNow("READY", 0, {}) /\ TaskAttempts[n] \in Nat BY <1>5, StoreAssumption
  <2> QED BY <2>1 DEF Budgeted, NodeNow
<1>12. ASSUME NEW more PROVE Good(new, rows \cup more)
  <2>1. CASE \A n \in Tasks : new.nodes[n].refs = {} BY <2>1 DEF Good, Resting
  <2>2. CASE \E n \in Tasks : new.nodes[n].refs # {}
    <3>0. PICK n \in Tasks : new.nodes[n].refs # {} BY <2>2
    <3>1. PICK ref \in new.nodes[n].refs : TRUE BY <3>0
    <3>2. ref \in Loaded.nodes[n].refs
      <4>1. CASE new.nodes[n] = NodeNow("READY", 0, {}) BY <3>1, <4>1 DEF NodeNow
      <4>2. CASE new.nodes[n] = NodeNow("FROZEN", Loaded.nodes[n].attempt, Loaded.nodes[n].refs)
        <5>1. new.nodes[n].refs = Loaded.nodes[n].refs BY <4>2 DEF NodeNow
        <5> QED BY <3>1, <5>1
      <4> QED BY <1>5, <4>1, <4>2
    <3>3. Resting(Loaded, rows) /\ Loaded.revision = current BY <1>1, LoadedFacts
    <3>4. ref \in Held(rows, current, n) BY <3>2, <3>3 DEF Resting
    <3>5. PICK row \in rows : row.kind = "EVIDENCE" /\ row.revision = current /\ row.task = n /\ row.id = ref BY <3>4 DEF Held
    <3>6. row.revision # new.revision BY <1>1, <1>3, <3>5
    <3> QED BY <3>1, <3>5, <3>6 DEF Good, Carried
  <2> QED BY <2>1, <2>2
<1> QED BY <1>3, <1>10, <1>11, <1>12 DEF IsIr, new

LEMMA ReplanKeeps == ASSUME SInv, NEW e \in Engines, NEW changed \in SUBSET Tasks, CallReplan(e, changed) PROVE SInv'
<1>1. PICK new : new = Revised(changed) OBVIOUS
<1> DEFINE a == [Tx EXCEPT !.point = Loaded]
<1> DEFINE b == [Tx EXCEPT !.point = new]
<1> DEFINE c == [Tx EXCEPT !.save = new]
<1> DEFINE d == [Tx EXCEPT !.rows = {IntentRow(new)}]
<1>2. PICK ts : ts = <<a, b, c, d>> OBVIOUS
<1>3. current \in 1 .. MaxRevisions - 1 /\ ~Uncertain /\ Call(e, ts) BY <1>1, <1>2 DEF CallReplan, ReplanTransactions
<1>4. IntegrityHolds BY <1>3 DEF Call
<1>5. current \in Nat /\ current > 0 BY <1>3 DEF SInv, Revisions
<1>6. /\ IsIr(Loaded) /\ Loaded.revision = current /\ Loaded.contract = sources[current] /\ Resting(Loaded, rows)
      /\ current \in DOMAIN points /\ Loaded # None
  BY <1>4, <1>5, LoadedFacts, IrNotNone DEF IsIr
<1>7. IsIr(new) /\ new.revision = current + 1 /\ (\A more : Good(new, rows \cup more)) /\ new # None
  BY <1>1, <1>3, <1>4, RevisedFacts, IrNotNone DEF IsIr
<1>8. a.save = None /\ a.point = Loaded /\ a.rows = {} /\ a.receipt = None BY DEF Tx
<1>9. b.save = None /\ b.point = new /\ b.rows = {} /\ b.receipt = None BY DEF Tx
<1>10. c.save = new /\ c.point = None /\ c.rows = {} /\ c.receipt = None BY DEF Tx
<1>11. d.save = None /\ d.point = None /\ d.rows = {IntentRow(new)} /\ d.receipt = None BY DEF Tx
<1>12. IntentRow(new).revision = current + 1 BY <1>7, RowsOf
<1> HIDE DEF a, b, c, d
<1>13. /\ Listed(ts) /\ DOMAIN ts = 1 .. 4 /\ ts[1] = a /\ ts[2] = b /\ ts[3] = c /\ ts[4] = d
       /\ \A i \in DOMAIN ts : i = 1 \/ i = 2 \/ i = 3 \/ i = 4
  BY <1>2, FourTx
<1>14. Points(ts[2], current + 1) /\ Saves(ts[3], current + 1) BY <1>7, <1>9, <1>10, <1>13 DEF Points, Saves
<1>15. CallOK(ts, DOMAIN points, DOMAIN sources, rows)
  <2>1. Good(Loaded, rows \cup {}) BY <1>6 DEF Good
  <2>2. \A i \in DOMAIN ts : TxOK(ts[i], rows) BY <1>6, <1>7, <1>8, <1>9, <1>10, <1>11, <1>13, <2>1 DEF TxOK
  <2>3. 2 \in 1 .. 3 /\ 3 \in 1 .. 4 /\ (current + 1) - 1 = current BY <1>5
  <2>4. current = 1 \/ current - 1 \in DOMAIN points
    <3>1. PICK m \in 0 .. MaxRevisions : current <= m /\ DOMAIN points = 1 .. m BY DEF SInv, Chains
    <3> QED BY <1>5, <3>1
  <2>5. InTurn(ts, 1, DOMAIN points, DOMAIN sources) BY <1>6, <1>8, <1>13, <2>4 DEF InTurn
  <2>6. InTurn(ts, 2, DOMAIN points, DOMAIN sources) BY <1>6, <1>7, <1>9, <1>13, <2>3 DEF InTurn
  <2>7. InTurn(ts, 3, DOMAIN points, DOMAIN sources) BY <1>7, <1>10, <1>13, <1>14, <2>3 DEF InTurn
  <2>8. InTurn(ts, 4, DOMAIN points, DOMAIN sources) BY <1>11, <1>12, <1>13, <1>14, <2>3 DEF InTurn
  <2> QED BY <1>13, <2>2, <2>5, <2>6, <2>7, <2>8 DEF CallOK
<1>16. AloneOK(ts, points, sources, current, receipts)
  <2>1. ~UncertainIn(receipts) BY <1>3 DEF Uncertain, UncertainIn
  <2>2. 2 \in 1 .. 3 /\ current <= current + 1 /\ current # current + 1 /\ ~(current + 1 <= current) /\ current + 1 <= current + 1 BY <1>5
  <2>3. Anew(ts, 3, points, current + 1, receipts)
    BY <1>6, <1>7, <1>8, <1>9, <1>10, <1>11, <1>13, <1>14, <2>1, <2>2 DEF Anew, Points
  <2> QED BY <1>6, <1>7, <1>8, <1>9, <1>10, <1>11, <1>13, <2>2, <2>3 DEF AloneOK, Saves
<1> QED BY <1>3, <1>13, <1>15, <1>16, CallKeeps

\* The latest checkpoint is that of the last revision that has one.
LEMMA LatestFacts ==
  ASSUME SInv, NEW m \in 0 .. MaxRevisions, DOMAIN points = 1 .. m, DOMAIN points # {}
  PROVE  /\ m \in DOMAIN points /\ LatestPoint = points[m].ir /\ IsIr(LatestPoint) /\ LatestPoint.revision = m /\ Good(LatestPoint, rows)
         /\ LatestPoint # None /\ m >= 1 /\ m >= current
<1>1. MaxRevisions \in Nat BY StoreAssumption
<1>2. m >= 1 /\ m \in 1 .. m BY <1>1
<1>3. Max(1 .. m) = m
  <2>1. \A y \in 1 .. m : m >= y BY <1>1
  <2>2. \A x \in 1 .. m : (\A y \in 1 .. m : x >= y) => x = m BY <1>1, <1>2
  <2> QED BY <1>2, <2>1, <2>2 DEF Max
<1>4. LatestPoint = points[m].ir BY <1>3 DEF LatestPoint
<1>5. IsIr(points[m].ir) /\ Good(points[m].ir, rows) /\ points[m].ir.revision = m BY <1>2 DEF SInv, Chains, CheckpointsSound
<1>6. m >= current
  <2>1. PICK n \in 0 .. MaxRevisions : current <= n /\ 1 .. m = 1 .. n BY DEF SInv, Chains
  <2>2. n \in 1 .. n => n \in 1 .. m BY <2>1
  <2>3. current \in Nat BY DEF SInv, Revisions
  <2> QED BY <1>1, <1>2, <2>1, <2>2, <2>3
<1> QED BY <1>2, <1>4, <1>5, <1>6, IrNotNone DEF IsIr

LEMMA ResumeKeeps == ASSUME SInv, NEW e \in Engines, CallResume(e) PROVE SInv'
<1>1. PICK ir : ir = LatestPoint OBVIOUS
<1> DEFINE a == [Tx EXCEPT !.save = ir, !.point = ir]
<1> DEFINE b == [Tx EXCEPT !.rows = {IntentRow(ir)}]
<1> DEFINE c == [Tx EXCEPT !.point = ir]
<1>2. PICK ts : ts = <<a, b, c>> OBVIOUS
<1>3. DOMAIN points # {} /\ ~Uncertain /\ Call(e, ts) BY <1>1, <1>2 DEF CallResume
<1>4. PICK m \in 0 .. MaxRevisions : current <= m /\ DOMAIN points = 1 .. m BY DEF SInv, Chains
<1>5. /\ m \in DOMAIN points /\ ir = points[m].ir /\ IsIr(ir) /\ ir.revision = m /\ Good(ir, rows) /\ ir # None /\ m >= 1
      /\ m \in Nat /\ current \in Nat
  BY <1>1, <1>3, <1>4, LatestFacts, StoreAssumption DEF SInv, Revisions
<1>6. a.save = ir /\ a.point = ir /\ a.rows = {} /\ a.receipt = None BY DEF Tx
<1>7. b.save = None /\ b.point = None /\ b.rows = {IntentRow(ir)} /\ b.receipt = None BY DEF Tx
<1>8. c.save = None /\ c.point = ir /\ c.rows = {} /\ c.receipt = None BY DEF Tx
<1>9. IntentRow(ir).revision = m BY <1>5, RowsOf
<1> HIDE DEF a, b, c
<1>10. Listed(ts) /\ DOMAIN ts = 1 .. 3 /\ ts[1] = a /\ ts[2] = b /\ ts[3] = c /\ \A i \in DOMAIN ts : i = 1 \/ i = 2 \/ i = 3
  BY <1>2, ThreeTx
<1>11. Points(ts[1], m) /\ Saves(ts[1], m) BY <1>5, <1>6, <1>10 DEF Points, Saves
<1>12. CallOK(ts, DOMAIN points, DOMAIN sources, rows)
  <2>1. rows \cup {} = rows OBVIOUS
  <2>2. \A i \in DOMAIN ts : TxOK(ts[i], rows) BY <1>5, <1>6, <1>7, <1>8, <1>10, <2>1 DEF TxOK
  <2>3. 1 \in 1 .. 2 /\ (m = 1 \/ m - 1 \in DOMAIN points) BY <1>4, <1>5
  <2>4. InTurn(ts, 1, DOMAIN points, DOMAIN sources) BY <1>5, <1>6, <1>10, <2>3 DEF InTurn
  <2>5. InTurn(ts, 2, DOMAIN points, DOMAIN sources) BY <1>7, <1>9, <1>10, <1>11, <2>3 DEF InTurn
  <2>6. InTurn(ts, 3, DOMAIN points, DOMAIN sources) BY <1>5, <1>8, <1>10, <2>3 DEF InTurn
  <2> QED BY <1>10, <2>2, <2>4, <2>5, <2>6 DEF CallOK
<1>13. ASSUME ~together PROVE AloneOK(ts, points, sources, current, receipts)
  <2>1. ~UncertainIn(receipts) BY <1>3 DEF Uncertain, UncertainIn
  <2>2. m <= current + 1 /\ (m <= current => ir.contract = sources[m]) BY <1>5, <1>13 DEF SInv, OneAtATime
  <2>3. 1 \in 1 .. 1 OBVIOUS
  <2>4. m = current + 1 => Anew(ts, 1, points, current + 1, receipts)
    BY <1>6, <1>7, <1>8, <1>10, <1>11, <2>1, <2>3 DEF Anew, Points
  <2> QED BY <1>5, <1>6, <1>7, <1>8, <1>10, <2>2, <2>4 DEF AloneOK, Saves
<1> QED BY <1>3, <1>10, <1>12, <1>13, CallKeeps
--------------------------------------------------------------------------------
(* Policies *)

LEMMA Before ==
  ASSUME NEW S, NEW p \in Seq(S), NEW i \in 1 .. Len(p)
  PROVE  /\ SubSeq(p, 1, i - 1) \in Seq(S) /\ Len(SubSeq(p, 1, i - 1)) = i - 1
         /\ \A j \in 1 .. i - 1 : SubSeq(p, 1, i - 1)[j] = p[j]
<1>1. Len(p) \in Nat BY LenProperties
<1>2. 1 \in 1 .. Len(p) + 1 /\ i - 1 \in 1 - 1 .. Len(p) BY <1>1
<1> QED BY <1>1, <1>2, SubSeqProperties

LEMMA BeforeOfMore ==
  ASSUME NEW S, NEW p \in Seq(S), NEW x \in S, NEW i \in 1 .. Len(p)
  PROVE  SubSeq(Append(p, x), 1, i - 1) = SubSeq(p, 1, i - 1)
<1>1. /\ Len(p) \in Nat /\ Append(p, x) \in Seq(S) /\ Len(Append(p, x)) = Len(p) + 1
      /\ \A j \in 1 .. Len(p) : Append(p, x)[j] = p[j]
  BY LenProperties, AppendProperties
<1>2. i \in 1 .. Len(Append(p, x)) BY <1>1
<1>3. /\ SubSeq(Append(p, x), 1, i - 1) \in Seq(S) /\ Len(SubSeq(Append(p, x), 1, i - 1)) = i - 1
      /\ \A j \in 1 .. i - 1 : SubSeq(Append(p, x), 1, i - 1)[j] = Append(p, x)[j]
  BY <1>1, <1>2, Before
<1>4. /\ SubSeq(p, 1, i - 1) \in Seq(S) /\ Len(SubSeq(p, 1, i - 1)) = i - 1
      /\ \A j \in 1 .. i - 1 : SubSeq(p, 1, i - 1)[j] = p[j]
  BY Before
<1>5. \A j \in 1 .. i - 1 : j \in 1 .. Len(p) BY <1>1
<1> QED BY <1>1, <1>3, <1>4, <1>5, SeqEqual

LEMMA BeforeTheLast ==
  ASSUME NEW S, NEW p \in Seq(S), NEW x \in S PROVE SubSeq(Append(p, x), 1, Len(p)) = p
<1>1. /\ Len(p) \in Nat /\ Append(p, x) \in Seq(S) /\ Len(Append(p, x)) = Len(p) + 1
      /\ \A j \in 1 .. Len(p) : Append(p, x)[j] = p[j]
  BY LenProperties, AppendProperties
<1>2. Len(p) + 1 \in 1 .. Len(Append(p, x)) /\ (Len(p) + 1) - 1 = Len(p) BY <1>1
<1>3. /\ SubSeq(Append(p, x), 1, Len(p)) \in Seq(S) /\ Len(SubSeq(Append(p, x), 1, Len(p))) = Len(p)
      /\ \A j \in 1 .. Len(p) : SubSeq(Append(p, x), 1, Len(p))[j] = Append(p, x)[j]
  BY <1>1, <1>2, Before
<1> QED BY <1>1, <1>3, SeqEqual

\* Each policy that was saved follows the one before it.
LEMMA InOrder ==
  ASSUME Policies, PoliciesSound, NEW i \in DOMAIN policies
  PROVE  /\ i \in Nat \ {0} /\ DOMAIN policies = 1 .. Len(policies) /\ Len(policies) \in Nat
         /\ ValidCandidate(policies[i]) /\ Provenance(policies[i], policies[i].actor, policies[i].ref)
         /\ i = 1 => policies[i].status = "DRAFT"
         /\ i # 1 => /\ i - 1 \in DOMAIN policies /\ policies[i].status \in Following[policies[i - 1].status]
                     /\ policies[i].sample >= policies[i - 1].sample /\ policies[i - 1].refs \subseteq policies[i].refs
<1> DEFINE S == {policies[j] : j \in DOMAIN policies}
<1> DEFINE q == SubSeq(policies, 1, i - 1)
<1>1. policies \in Seq(S) BY DEF Policies, Listed
<1>2. Len(policies) \in Nat /\ DOMAIN policies = 1 .. Len(policies) /\ i \in 1 .. Len(policies) BY <1>1, LenProperties
<1> HIDE DEF S
<1>3. q \in Seq(S) /\ Len(q) = i - 1 /\ \A j \in 1 .. i - 1 : q[j] = policies[j] BY <1>1, <1>2, Before
<1>4. ValidTransition(q, policies[i]) /\ Provenance(policies[i], policies[i].actor, policies[i].ref) BY DEF PoliciesSound
<1> HIDE DEF q
<1>5. i = 1 => q = <<>> BY <1>3, EmptySeq
<1>6. i # 1 => q # <<>> /\ i - 1 \in 1 .. i - 1 /\ i - 1 \in DOMAIN policies
  <2>1. Len(<<>>) = 0 OBVIOUS
  <2> QED BY <1>2, <1>3, <2>1
<1>7. i # 1 => q[Len(q)] = policies[i - 1] BY <1>3, <1>6
<1> QED BY <1>2, <1>4, <1>5, <1>6, <1>7 DEF ValidTransition

LEMMA PolicyKeeps ==
  ASSUME SInv, NEW c \in Candidates, NEW actor, NEW ref, SavePolicyCandidate(c, actor, ref)
  PROVE  SInv'
<1> DEFINE row == PolicyRow(c, actor, ref)
<1> DEFINE S == {policies[j] : j \in DOMAIN policies} \cup {row}
<1>1. /\ UNCHANGED <<sources, states, current, rows, points, anchors, receipts, calls, answers, together>>
      /\ policies' = Append(policies, row) /\ Provenance(c, actor, ref) /\ ValidTransition(policies, c)
  BY DEF SavePolicyCandidate
<1>2. /\ row.status = c.status /\ row.sample = c.sample /\ row.refs = c.refs /\ row.normal = c.normal
      /\ row.confidence = c.confidence /\ row.actor = actor /\ row.ref = ref
  BY DEF PolicyRow
<1>3. row.sample \in Nat /\ row.status \in {"DRAFT", "SHADOW", "CANDIDATE", "APPROVED", "REJECTED", "RETIRED"}
  BY <1>2, StoreAssumption
<1> HIDE DEF row
<1>4. policies \in Seq({policies[j] : j \in DOMAIN policies}) BY DEF SInv, Policies, Listed
<1>5. policies \in Seq(S) /\ row \in S
  <2>1. {policies[j] : j \in DOMAIN policies} \subseteq S OBVIOUS
  <2> QED BY <1>4, <2>1
<1> HIDE DEF S
<1>6. /\ Len(policies) \in Nat /\ DOMAIN policies = 1 .. Len(policies) /\ policies' \in Seq(S)
      /\ DOMAIN policies' = 1 .. Len(policies) + 1 /\ policies'[Len(policies) + 1] = row
      /\ \A i \in 1 .. Len(policies) : policies'[i] = policies[i]
  BY <1>1, <1>5, LenProperties, AppendProperties
<1>7. \A i \in 1 .. Len(policies) + 1 : i \in 1 .. Len(policies) \/ i = Len(policies) + 1 BY <1>6
<1>8. Policies'
  <2>1. Listed(policies') BY <1>6, ListedSeq
  <2>2. \A i \in DOMAIN policies : policies[i].sample \in Nat /\ policies[i].status \in {"DRAFT", "SHADOW", "CANDIDATE", "APPROVED", "REJECTED", "RETIRED"}
    BY DEF SInv, Policies
  <2> QED BY <1>3, <1>6, <1>7, <2>1, <2>2 DEF Policies, Listed
<1>9. PoliciesSound'
  <2>1. SUFFICES ASSUME NEW i \in DOMAIN policies'
        PROVE ValidTransition(SubSeq(policies', 1, i - 1), policies'[i]) /\ Provenance(policies'[i], policies'[i].actor, policies'[i].ref)
    BY DEF PoliciesSound
  <2>2. CASE i \in 1 .. Len(policies)
    <3>1. SubSeq(policies', 1, i - 1) = SubSeq(policies, 1, i - 1) BY <1>1, <1>5, <2>2, BeforeOfMore
    <3>2. ValidTransition(SubSeq(policies, 1, i - 1), policies[i]) /\ Provenance(policies[i], policies[i].actor, policies[i].ref)
      BY <1>6, <2>2 DEF SInv, PoliciesSound
    <3> QED BY <1>6, <2>2, <3>1, <3>2
  <2>3. CASE i = Len(policies) + 1
    <3>1. i - 1 = Len(policies) BY <1>6, <2>3
    <3>2. SubSeq(policies', 1, i - 1) = policies BY <1>1, <1>5, <3>1, BeforeTheLast
    <3>3. ValidTransition(policies, row) BY <1>1, <1>2 DEF ValidTransition, ValidCandidate
    <3>4. Provenance(row, row.actor, row.ref) BY <1>1, <1>2 DEF Provenance
    <3> QED BY <1>6, <2>3, <3>2, <3>3, <3>4
  <2> QED BY <1>6, <1>7, <2>2, <2>3
<1>10. Revisions' /\ Chains' /\ Grants' /\ Calls' /\ OneAtATime'
  BY <1>1 DEF SInv, Revisions, Chains, Grants, Calls, OneAtATime
<1>11. LedgersSound' /\ ReceiptsSound' /\ CheckpointsSound' /\ AnchorsSound'
  BY <1>1 DEF SInv, LedgersSound, ReceiptsSound, CheckpointsSound, AnchorsSound
<1> QED BY <1>8, <1>9, <1>10, <1>11 DEF SInv
--------------------------------------------------------------------------------
(* Every step, and what follows *)

\* A call that ends: the transaction was refused, or the engine died.
LEMMA EndKeeps ==
  ASSUME SInv, NEW e \in Engines, calls' = [calls EXCEPT ![e] = <<>>],
         UNCHANGED <<sources, states, current, rows, points, anchors, receipts, policies, answers, together>>
  PROVE  SInv'
<1>1. Revisions' /\ Chains' /\ Grants' /\ Policies' BY DEF SInv, Revisions, Chains, Grants, Policies, Listed
<1>2. LedgersSound' /\ ReceiptsSound' /\ CheckpointsSound' /\ AnchorsSound' /\ PoliciesSound'
  BY DEF SInv, LedgersSound, ReceiptsSound, CheckpointsSound, AnchorsSound, PoliciesSound
<1>3. DOMAIN calls = Engines /\ \A f \in Engines : calls'[f] = IF f = e THEN <<>> ELSE calls[f]
  BY DEF SInv, Calls
<1>4. Listed(<<>>) /\ CallOK(<<>>, DOMAIN points, DOMAIN sources, rows)
  <2>1. DOMAIN <<>> = {} /\ <<>> \in Seq({}) OBVIOUS
  <2> QED BY <2>1, ListedSeq DEF CallOK
<1>5. Calls' BY <1>3, <1>4 DEF SInv, Calls
<1>6. OneAtATime' BY <1>3, NoneAlone DEF SInv, OneAtATime
<1> QED BY <1>1, <1>2, <1>5, <1>6 DEF SInv

LEMMA TransactKeeps == ASSUME SInv, NEW e \in Engines, Transact(e) PROVE SInv'
<1>1. PICK t : t = Head(calls[e]) OBVIOUS
<1>2. CASE Allowed(t)
  <2>1. Ran(e, t) BY <1>1, <1>2 DEF Transact, Ran
  <2> QED BY <2>1, RanRevisions, RanChains, RanGrants, RanCalls, RanSound, RanAlone DEF SInv
<1>3. CASE ~Allowed(t) BY <1>1, <1>3, EndKeeps DEF Transact
<1> QED BY <1>2, <1>3

LEMMA StoreInvInit == StoreInit => SInv
<1> SUFFICES ASSUME StoreInit PROVE SInv OBVIOUS
<1>1. /\ sources = <<>> /\ states = <<>> /\ current = 0 /\ rows = {} /\ points = <<>> /\ anchors = <<>>
      /\ receipts = [k \in StoreKey |-> <<>>] /\ policies = <<>> /\ together = FALSE
      /\ calls = [e \in Engines |-> <<>>] /\ answers = [k \in StoreKey |-> 0]
  BY DEF StoreInit
<1>2. DOMAIN <<>> = {} /\ 1 .. 0 = {} /\ Listed(<<>>)
  <2>1. <<>> \in Seq({}) /\ DOMAIN <<>> = {} /\ 1 .. 0 = {} OBVIOUS
  <2> QED BY <2>1, ListedSeq
<1>3. Revisions BY <1>1, <1>2 DEF Revisions
<1>4. Chains
  <2>1. 0 \in 0 .. MaxRevisions /\ 0 <= 0 BY StoreAssumption
  <2> QED BY <1>1, <1>2, <2>1 DEF Chains
<1>5. Grants BY <1>1 DEF Grants
<1>6. Calls BY <1>1, <1>2 DEF Calls, CallOK
<1>7. Policies /\ PoliciesSound BY <1>1, <1>2 DEF Policies, PoliciesSound
<1>8. <<>> # <<"PREPARED">> OBVIOUS
<1>9. OneAtATime BY <1>1, <1>2, <1>8, NoneAlone DEF OneAtATime
<1>10. LedgersSound /\ ReceiptsSound /\ CheckpointsSound /\ AnchorsSound
  BY <1>1, <1>2 DEF LedgersSound, ReceiptsSound, CheckpointsSound, AnchorsSound
<1> QED BY <1>3, <1>4, <1>5, <1>6, <1>7, <1>9, <1>10 DEF SInv

LEMMA StoreInvStep == SInv /\ [StoreNext]_storeVars => SInv'
<1> SUFFICES ASSUME SInv, [StoreNext]_storeVars PROVE SInv' OBVIOUS
<1>1. CASE PolicyNext BY <1>1, PolicyKeeps DEF PolicyNext
<1>2. ASSUME NEW e \in Engines, EngineNext(e) PROVE SInv'
  <2>1. CASE Transact(e) BY <2>1, TransactKeeps
  <2>2. CASE CallPlan(e) BY <2>2, PlanKeeps
  <2>3. CASE CallResume(e) BY <2>3, ResumeKeeps
  <2>4. CASE Stop(e) BY <2>4, EndKeeps DEF Stop
  <2>5. ASSUME NEW n \in Tasks,
               CallStart(e, n) \/ CallRecordResult(e, n) \/ CallRecordFailure(e, n) \/ CallRetry(e, n)
               \/ CallApprove(e, n) \/ CallPrepare(e, n) \/ CallCommit(e, n)
        PROVE  SInv'
    BY <2>5, StartKeeps, RecordResultKeeps, RecordFailureKeeps, RetryKeeps, ApproveKeeps, PrepareKeeps, CommitKeeps
  <2>6. ASSUME NEW changed \in SUBSET Tasks, CallReplan(e, changed) PROVE SInv' BY <2>6, ReplanKeeps
  <2> QED BY <1>2, <2>1, <2>2, <2>3, <2>4, <2>5, <2>6 DEF EngineNext
<1>3. CASE UNCHANGED storeVars
  <2>1. UNCHANGED <<sources, states, current, rows, points, anchors, receipts, policies, calls, answers, together>>
    BY <1>3 DEF storeVars
  <2>2. Revisions' /\ Chains' /\ Grants' /\ Policies' BY <2>1 DEF SInv, Revisions, Chains, Grants, Policies, Listed
  <2>4. Calls' /\ OneAtATime' BY <2>1 DEF SInv, Calls, OneAtATime
  <2>3. LedgersSound' /\ ReceiptsSound' /\ CheckpointsSound' /\ AnchorsSound' /\ PoliciesSound'
    BY <2>1 DEF SInv, LedgersSound, ReceiptsSound, CheckpointsSound, AnchorsSound, PoliciesSound
  <2> QED BY <2>2, <2>3, <2>4 DEF SInv
<1> QED BY <1>1, <1>2, <1>3 DEF StoreNext

LEMMA StoreInvHolds == StoreSpec => []SInv
BY StoreInvInit, StoreInvStep, PTL DEF StoreSpec

LEMMA Opens == SInv => StoreOpens
<1> SUFFICES ASSUME SInv, ~EvidencePresent PROVE \E r \in DOMAIN states : CarriedOver(states[r])
  <2>1. current \in Nat => (current > 0 => current \in 1 .. current) OBVIOUS
  <2> QED BY <2>1 DEF StoreOpens, IntegrityHolds, SInv, Revisions, RevisionsSound
<1>1. PICK r \in DOMAIN sources, n \in Tasks : ~(states[r].nodes[n].refs \subseteq EvidenceOf(r, n)) BY DEF EvidencePresent
<1>2. r \in DOMAIN states /\ Good(states[r], rows) /\ states[r].revision = r BY DEF SInv, Revisions
<1>3. ~Resting(states[r], rows) BY <1>1, <1>2 DEF Resting, Held, EvidenceOf
<1> QED BY <1>2, <1>3 DEF Good, Carried, CarriedOver

LEMMA Granted == SInv => GrantedOnce
<1> SUFFICES ASSUME SInv PROVE GrantedOnce OBVIOUS
<1>1. \A k \in StoreKey : (answers[k] = 0 \/ answers[k] = 1) /\ (receipts[k] # <<>> => ApprovedAmong(rows, k.revision))
  BY DEF SInv, Grants
<1> QED BY <1>1 DEF GrantedOnce, ApprovedIn, ApprovedAmong

LEMMA Replans == SInv => ReplanSafe
<1> SUFFICES ASSUME SInv, ~together, DOMAIN points # {}
             PROVE  Saveable(LatestPoint) /\ \A k \in StoreKey : receipts[k] = <<"PREPARED">> => k.revision = current
  BY DEF ReplanSafe
<1>1. PICK m \in 0 .. MaxRevisions : current <= m /\ DOMAIN points = 1 .. m BY DEF SInv, Chains
<1>2. /\ m \in DOMAIN points /\ LatestPoint = points[m].ir /\ LatestPoint.revision = m /\ m >= 1
      /\ current \in Nat /\ DOMAIN sources = 1 .. current /\ m \in Nat
  BY <1>1, LatestFacts, StoreAssumption DEF SInv, Revisions
<1>3. m <= current + 1 /\ (m <= current => points[m].ir.contract = sources[m]) BY <1>2 DEF SInv, OneAtATime
<1>4. \A k \in StoreKey : receipts[k] = <<"PREPARED">> => k.revision = current BY DEF SInv, OneAtATime
<1>5. m \in {current, current + 1} \ {0} BY <1>1, <1>2, <1>3
<1>6. m \in DOMAIN sources => sources[m] = points[m].ir.contract BY <1>2, <1>3
<1> QED BY <1>2, <1>4, <1>5, <1>6 DEF Saveable

LEMMA Earned == SInv => PolicyEarned
<1> DEFINE p == policies
<1> DEFINE L == Len(policies)
<1> SUFFICES ASSUME SInv, p # <<>>, CanPromote(p[L], p[L].ref)
    PROVE  /\ [i \in DOMAIN p |-> p[i].status] = <<"DRAFT", "SHADOW", "CANDIDATE", "APPROVED">>
           /\ \A i \in 1 .. 3 : p[i].refs \subseteq p[L].refs /\ p[i].sample <= p[L].sample
           /\ p[L].actor # Nobody /\ p[L].normal
  BY DEF PolicyEarned
<1>1. Policies /\ PoliciesSound /\ p \in Seq({p[i] : i \in DOMAIN p}) BY DEF SInv, Policies, Listed
<1>2. L \in Nat /\ L >= 1 /\ DOMAIN p = 1 .. L /\ L \in DOMAIN p BY <1>1, EmptySeq, LenProperties
<1>3. p[L].status = "APPROVED" /\ ValidCandidate(p[L]) BY DEF CanPromote
<1>4. \A i \in DOMAIN p :
        /\ i = 1 => p[i].status = "DRAFT"
        /\ i # 1 => /\ i - 1 \in DOMAIN p /\ p[i].status \in Following[p[i - 1].status]
                    /\ p[i].sample >= p[i - 1].sample /\ p[i - 1].refs \subseteq p[i].refs
  BY <1>1, InOrder
<1>5. \A i \in DOMAIN p : p[i].sample \in Nat /\ p[i].status \in {"DRAFT", "SHADOW", "CANDIDATE", "APPROVED", "REJECTED", "RETIRED"}
  BY <1>1 DEF Policies
<1>6. \A s \in {"DRAFT", "SHADOW", "CANDIDATE", "APPROVED", "REJECTED", "RETIRED"} :
        /\ "APPROVED" \in Following[s] => s = "CANDIDATE"
        /\ "CANDIDATE" \in Following[s] => s = "SHADOW"
        /\ "SHADOW" \in Following[s] => s = "DRAFT"
        /\ "DRAFT" \notin Following[s]
  BY DEF Following
<1>7. PICK c \in DOMAIN p : c = L - 1 /\ p[c].status = "CANDIDATE" BY <1>2, <1>3, <1>4, <1>5, <1>6
<1>8. PICK b \in DOMAIN p : b = c - 1 /\ p[b].status = "SHADOW" BY <1>2, <1>4, <1>5, <1>6, <1>7
<1>9. PICK a \in DOMAIN p : a = b - 1 /\ p[a].status = "DRAFT" BY <1>2, <1>4, <1>5, <1>6, <1>8
<1>10. a = 1 BY <1>2, <1>4, <1>5, <1>6, <1>9
<1>11. a = 1 /\ b = 2 /\ c = 3 /\ L = 4 /\ DOMAIN p = 1 .. 4 BY <1>2, <1>7, <1>8, <1>9, <1>10
<1>12. [i \in DOMAIN p |-> p[i].status] = <<"DRAFT", "SHADOW", "CANDIDATE", "APPROVED">>
  <2>1. p[1].status = "DRAFT" /\ p[2].status = "SHADOW" /\ p[3].status = "CANDIDATE" /\ p[4].status = "APPROVED"
    BY <1>3, <1>7, <1>8, <1>9, <1>11
  <2>2. \A i \in 1 .. 4 : i = 1 \/ i = 2 \/ i = 3 \/ i = 4 OBVIOUS
  <2>3. <<"DRAFT", "SHADOW", "CANDIDATE", "APPROVED">> = [i \in 1 .. 4 |-> <<"DRAFT", "SHADOW", "CANDIDATE", "APPROVED">>[i]] OBVIOUS
  <2>4. \A i \in 1 .. 4 : p[i].status = <<"DRAFT", "SHADOW", "CANDIDATE", "APPROVED">>[i] BY <2>1, <2>2
  <2> QED BY <1>11, <2>3, <2>4
<1>13. \A i \in 1 .. 3 : p[i].refs \subseteq p[L].refs /\ p[i].sample <= p[L].sample
  <2>1. /\ p[1].refs \subseteq p[2].refs /\ p[2].refs \subseteq p[3].refs /\ p[3].refs \subseteq p[4].refs
        /\ p[2].sample >= p[1].sample /\ p[3].sample >= p[2].sample /\ p[4].sample >= p[3].sample
        /\ p[1].sample \in Nat /\ p[2].sample \in Nat /\ p[3].sample \in Nat /\ p[4].sample \in Nat
    BY <1>4, <1>5, <1>11
  <2>2. \A i \in 1 .. 3 : i = 1 \/ i = 2 \/ i = 3 OBVIOUS
  <2> QED BY <1>11, <2>1, <2>2
<1>14. p[L].normal BY <1>3 DEF ValidCandidate
<1>15. p[L].actor # Nobody
  <2>1. Provenance(p[L], p[L].actor, p[L].ref) BY <1>1, <1>2, InOrder
  <2> QED BY <1>3, <2>1 DEF Provenance
<1> QED BY <1>12, <1>13, <1>14, <1>15

\* No sequence of calls, of any number of engines dying anywhere, makes the
\* store refuse itself, but for evidence that a replan froze (verify_integrity).
THEOREM StoreStaysOpen == StoreSpec => []StoreOpens
BY StoreInvHolds, Opens, PTL

\* A key of an external action is granted once, whatever engines ask for it and
\* die, and in an approved revision only (prepare_external_mutation).
THEOREM KeysAreGrantedOnce == StoreSpec => []GrantedOnce
BY StoreInvHolds, Granted, PTL

\* Where one engine at a time is stopped, anywhere, the latest checkpoint can be
\* saved and no revision is left with an uncertain receipt (plan, replan, resume).
THEOREM ReplansAreSafe == StoreSpec => []ReplanSafe
BY StoreInvHolds, Replans, PTL

\* A policy that may be promoted went through every stage, in order, on evidence
\* that only grew, and a human approved it (policy.py, save_policy_candidate).
THEOREM PoliciesAreEarned == StoreSpec => []PolicyEarned
BY StoreInvHolds, Earned, PTL
================================================================================
