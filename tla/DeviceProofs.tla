------------------------------ MODULE DeviceProofs ------------------------------
(***************************************************************************)
(* What runs on the user's own machine.  First the installer: through any  *)
(* failure, crash and edit the disk stays well formed, a rollback that     *)
(* reports success has restored what its manifest recorded, one that is    *)
(* asked for overwrites only what its transaction committed, and the fleet *)
(* hears of an installation only when it is whole.  The argument is the    *)
(* progress of the one running process (IInv): how far a rollback has come *)
(* says what of the disk is already as it was.  Then the real benchmark,   *)
(* and the validation of the security rules.                               *)
(***************************************************************************)
EXTENDS InstallTransaction, BenchmarkRun, SecurityValidation,
        SequenceTheorems, FiniteSetTheorems, SumTheorems, TLAPS

(* Every owned file has its place in the order the files are restored in.  *)
LEMMA FileOrderFacts ==
  /\ FileOrder \in Seq(OwnedFiles) /\ Len(FileOrder) = Len(AgentOrder) + 2
  /\ \A k \in 1 .. Len(FileOrder) : FileOrder[k] \in OwnedFiles
  /\ \A f \in OwnedFiles : \E k \in 1 .. Len(FileOrder) : f = FileOrder[k]
  /\ \A k \in 1 .. Len(AgentOrder) : AgentOrder[k] \in OwnedFiles
  /\ "device" \in OwnedFiles /\ "srcctl" \in OwnedFiles
  /\ Len(AgentOrder) \in Nat
<1>1. AgentOrder \in Seq(AgentFiles)
  BY InstallAssumption
<1> DEFINE rest == <<"device", "srcctl">>
<1>2. rest \in Seq({"device", "srcctl"}) /\ Len(rest) = 2 /\ rest[1] = "device" /\ rest[2] = "srcctl"
  OBVIOUS
<1> HIDE DEF rest
<1> DEFINE S == AgentFiles \cup {"device", "srcctl"}
<1>a. AgentOrder \in Seq(S) /\ rest \in Seq(S)
  BY <1>1, <1>2
<1> HIDE DEF S
<1>3. /\ FileOrder \in Seq(S) /\ Len(FileOrder) = Len(AgentOrder) + 2
      /\ Len(AgentOrder) \in Nat
      /\ \A k \in 1 .. Len(AgentOrder) + 2 :
           FileOrder[k] = IF k <= Len(AgentOrder) THEN AgentOrder[k] ELSE rest[k - Len(AgentOrder)]
  BY <1>a, <1>2, ConcatProperties DEF FileOrder, rest
<1>4. DOMAIN FileOrder = 1 .. Len(FileOrder)
  BY <1>3
<1>5. \A k \in 1 .. Len(AgentOrder) : FileOrder[k] = AgentOrder[k] /\ k \in DOMAIN FileOrder
  BY <1>3, <1>4
<1>6. /\ FileOrder[Len(AgentOrder) + 1] = "device" /\ FileOrder[Len(AgentOrder) + 2] = "srcctl"
      /\ {Len(AgentOrder) + 1, Len(AgentOrder) + 2} \subseteq DOMAIN FileOrder
  BY <1>2, <1>3, <1>4
<1> QED
  BY <1>3, <1>4, <1>5, <1>6 DEF OwnedFiles

(* What the running process is doing, by the command it was given.         *)
ApplyJobs == [op : {"apply"}, at : ApplySteps, v : Versions, sc : BOOLEAN, boot : BOOLEAN, i : 1 .. Len(AgentOrder) + 1]
UndoJobs(ts) == [op : {"undo"}, at : UndoSteps, t : ts, auto : BOOLEAN, i : 1 .. Len(FileOrder) + 1, old : SUBSET Versions]
ShareJobs == [op : {"share"}, at : {"fleet", "sync"}]

LEMMA JobFacts ==
  ASSUME TypeOK
  PROVE  /\ job.op \in {"none", "apply", "undo", "share"}
         /\ job.op = "none" => job = Idle
         /\ job.op = "apply" => job \in ApplyJobs
         /\ job.op = "undo" => job \in UndoJobs(DOMAIN txns)
         /\ job.op = "share" => job \in ShareJobs
BY DEF TypeOK, Jobs, Idle, ApplyJobs, UndoJobs, ShareJobs

(* The registry is as the transaction found it.                            *)
RegistryRestored ==
  /\ (market = Missing) = (Pre.market = Missing) /\ (plugin = Missing) = (Pre.plugin = Missing)
  /\ plugin # Missing => plugin.v = Pre.plugin.v

(* A transaction has its manifest, and a plugin goes to a marketplace.     *)
Installing ==
  job.op = "apply" =>
    /\ IF job.at = "create" THEN Len(txns) < MaxTxns ELSE txns # <<>>
    /\ job.at = "plugin" => market = <<"checkout">>

(* No plugin was recorded without the marketplace it came from.            *)
Recorded == \A t \in DOMAIN txns : txns[t].pre.plugin # Missing => txns[t].pre.market # Missing

(* How far a rollback has come.                                            *)
Restoring ==
  job.op = "undo" =>
    /\ job.at = "check" => job.i = 1
    /\ job.at = "files" => \A k \in 1 .. job.i - 1 : files[FileOrder[k]] = Pre.files[FileOrder[k]]
    /\ job.at \notin {"check", "files"} => files = Pre.files
    /\ job.at = "plugin" /\ Pre.plugin # Missing => market # Missing
    /\ job.at \in {"cacheout", "cachein", "done"} => RegistryRestored
    /\ job.at = "done" => cache = Pre.cache

(* The fleet is told by a process whose installation is whole.             *)
Sharing == job.op = "share" => \E v \in Versions : Matches(v, FALSE)

IInv == TypeOK /\ Installing /\ Recorded /\ Restoring /\ UndoesOnlyItsOwn /\ Sharing
-------------------------------------------------------------------------------
(* A manifest's state changes, nothing else of any.                         *)
LEMMA SetStateFacts ==
  ASSUME txns \in Seq(TxnManifests), NEW t \in DOMAIN txns, NEW s \in TxnStates, SetState(t, s)
  PROVE  /\ txns' \in Seq(TxnManifests) /\ Len(txns') = Len(txns) /\ DOMAIN txns' = DOMAIN txns
         /\ \A u \in DOMAIN txns : /\ txns'[u].pre = txns[u].pre /\ txns'[u].post = txns[u].post
                                   /\ txns'[u].state = IF u = t THEN s ELSE txns[u].state
<1> DEFINE m == [txns[t] EXCEPT !.state = s]
<1>1. m \in TxnManifests /\ m.state = s /\ m.pre = txns[t].pre /\ m.post = txns[t].post
  <2>1. txns[t] \in TxnManifests
    OBVIOUS
  <2> QED BY <2>1 DEF TxnManifests
<1>2. txns' = [txns EXCEPT ![t] = m]
  BY DEF SetState
<1> HIDE DEF m
<1>3. txns' \in Seq(TxnManifests) /\ Len(txns') = Len(txns) /\ DOMAIN txns' = DOMAIN txns
  BY <1>1, <1>2
<1>4. \A u \in DOMAIN txns : txns'[u] = IF u = t THEN m ELSE txns[u]
  BY <1>2
<1> QED
  BY <1>1, <1>3, <1>4

LEMMA CreateFacts ==
  ASSUME TypeOK, CreateTxn, txns' # txns
  PROVE  /\ txns' \in Seq(TxnManifests) /\ Len(txns') = Len(txns) + 1
         /\ \A u \in DOMAIN txns : txns'[u] = txns[u]
         /\ DOMAIN txns' = DOMAIN txns \cup {Len(txns')}
         /\ txns'[Len(txns')].pre = Capture /\ txns'[Len(txns')].state = "PREPARED"
         /\ plugin # Missing => market # Missing
<1> DEFINE m == [state |-> "PREPARED", target |-> job.v, pre |-> Capture, post |-> Missing]
<1>1. job \in ApplyJobs
  BY JobFacts DEF CreateTxn, At
<1>2. Capture \in Captures
  BY DEF TypeOK, Capture, Captures
<1>3. m \in TxnManifests
  BY <1>1, <1>2 DEF TxnManifests, TxnStates, ApplyJobs
<1>4. txns' = Append(txns, m)
  BY DEF CreateTxn
<1>5. txns \in Seq(TxnManifests)
  BY DEF TypeOK
<1> HIDE DEF m
<1>6. /\ txns' \in Seq(TxnManifests) /\ Len(txns') = Len(txns) + 1
      /\ \A u \in 1 .. Len(txns) : txns'[u] = txns[u]
      /\ txns'[Len(txns) + 1] = m
  BY <1>3, <1>4, <1>5
<1>7. plugin # Missing => market # Missing
  BY DEF CreateTxn
<1> QED
  BY <1>5, <1>6, <1>7 DEF m


LEMMA CommitFacts ==
  ASSUME TypeOK, Commit, txns # <<>>
  PROVE  /\ txns' \in Seq(TxnManifests) /\ Len(txns') = Len(txns) /\ DOMAIN txns' = DOMAIN txns
         /\ \A u \in DOMAIN txns : /\ txns'[u].pre = txns[u].pre
                                   /\ txns'[u].state = IF u = Len(txns) THEN "COMMITTED" ELSE txns[u].state
<1> DEFINE n == Len(txns)
           m == [txns[n] EXCEPT !.state = "COMMITTED", !.post = Capture]
<1>1. txns \in Seq(TxnManifests) /\ n \in DOMAIN txns
  BY DEF TypeOK
<1>2. m \in TxnManifests /\ m.pre = txns[n].pre /\ m.state = "COMMITTED"
  <2>1. txns[n] \in TxnManifests /\ Capture \in Captures
    BY <1>1 DEF TypeOK, Capture, Captures
  <2> QED BY <2>1 DEF TxnManifests, TxnStates
<1>3. txns' = [txns EXCEPT ![n] = m]
  BY DEF Commit, This
<1> HIDE DEF n, m
<1>4. \A u \in DOMAIN txns : txns'[u] = IF u = n THEN m ELSE txns[u]
  BY <1>1, <1>3
<1>5. txns' \in Seq(TxnManifests) /\ Len(txns') = Len(txns) /\ DOMAIN txns' = DOMAIN txns
  BY <1>1, <1>2, <1>3
<1> QED
  BY <1>2, <1>4, <1>5 DEF n

(* A step adds at most one manifest; what the others found stays recorded. *)
LEMMA TxnsStep ==
  ASSUME IInv, Next
  PROVE  /\ txns' \in Seq(TxnManifests) /\ Len(txns') <= MaxTxns /\ DOMAIN txns \subseteq DOMAIN txns'
         /\ Recorded'
<1>1. txns \in Seq(TxnManifests) /\ Len(txns) <= MaxTxns /\ MaxTxns \in Nat /\ Recorded /\ TypeOK
  BY InstallAssumption DEF IInv, TypeOK
<1>2. CASE CreateTxn /\ txns' # txns
  <2>1. Len(txns) < MaxTxns
    BY <1>2 DEF CreateTxn, At, Installing, IInv
  <2>2. \A u \in DOMAIN txns' : u \in DOMAIN txns \/ u = Len(txns')
    BY <1>1, <1>2, CreateFacts
  <2>3. Recorded'
    BY <1>1, <1>2, <2>2, CreateFacts DEF Recorded, Capture
  <2> QED BY <1>1, <1>2, <2>1, <2>3, CreateFacts
<1>3. CASE \E t \in DOMAIN txns, st \in TxnStates : SetState(t, st)
  BY <1>1, <1>3, SetStateFacts DEF Recorded
<1>4. CASE Commit
  <2>1. txns # <<>>
    BY <1>4 DEF Commit, At, Installing, IInv
  <2> QED BY <1>1, <1>4, <2>1, CommitFacts DEF Recorded
<1>5. CASE UNCHANGED txns
  BY <1>1, <1>5 DEF Recorded
<1>6. CASE MarkApplying
  <2>1. Len(txns) \in DOMAIN txns
    BY <1>1, <1>6 DEF MarkApplying, At, Installing, IInv
  <2> QED BY <1>3, <1>6, <2>1 DEF MarkApplying, TxnStates, This
<1>7. CASE RollbackDone
  <2>1. job.t \in DOMAIN txns
    BY <1>1, <1>7, JobFacts DEF RollbackDone, At, UndoJobs
  <2> QED BY <1>3, <1>7, <2>1 DEF RollbackDone, TxnStates
<1>8. CASE RollbackFails
  <2>1. job.t \in DOMAIN txns
    BY <1>1, <1>8, JobFacts DEF RollbackFails, UndoJobs
  <2> QED BY <1>3, <1>5, <1>8, <2>1 DEF RollbackFails, TxnStates
<1> QED
  BY <1>2, <1>4, <1>5, <1>6, <1>7, <1>8
     DEF Next, Work, Failures, CreateTxn, Unplug, Unmarket, Remarket, Replug, WriteAgent, WriteDevice, WriteSrcctl,
         CheckRollback, RestoreFile, UndoUnplug, UndoUnmarket, UndoMarket, UndoPlugin, UndoVerify, CacheOut, CacheIn,
         ShareFleet, SyncFleet, ApplyFails, ShareFails, Crash, OtherDevice, InstallApply, Bootstrap, Begin, Rollback,
         UserEdit

LEMMA GoToFacts ==
  ASSUME TypeOK, NEW s, GoTo(s)
  PROVE  /\ job.op = "apply" /\ s \in ApplySteps => job' \in ApplyJobs
         /\ job.op = "undo" /\ s \in UndoSteps => job' \in UndoJobs(DOMAIN txns)
         /\ job.op \in {"apply", "undo"} =>
              /\ job' = [job EXCEPT !.at = s] /\ job'.op = job.op /\ job'.at = s /\ job'.i = job.i
         /\ job.op = "undo" => job'.t = job.t /\ job'.auto = job.auto
BY JobFacts DEF GoTo, ApplyJobs, UndoJobs

LEMMA NextFileFacts ==
  ASSUME TypeOK, job' = [job EXCEPT !.i = @ + 1], job.op \in {"apply", "undo"},
         job.i <= IF job.op = "apply" THEN Len(AgentOrder) ELSE Len(FileOrder)
  PROVE  /\ job.op = "apply" => job' \in ApplyJobs
         /\ job.op = "undo" => job' \in UndoJobs(DOMAIN txns) /\ job'.t = job.t /\ job'.auto = job.auto
         /\ job'.op = job.op /\ job'.at = job.at /\ job'.i = job.i + 1
<1>1. Len(AgentOrder) \in Nat /\ Len(FileOrder) \in Nat
  BY FileOrderFacts
<1> QED
  BY <1>1, JobFacts DEF ApplyJobs, UndoJobs

LEMMA JobStep ==
  ASSUME IInv, Next
  PROVE  \/ job' = Idle
         \/ job' \in ShareJobs
         \/ job' \in ApplyJobs
         \/ job' \in UndoJobs(DOMAIN txns')
<1>1. TypeOK /\ DOMAIN txns \subseteq DOMAIN txns'
  BY TxnsStep DEF IInv
<1>2. UndoJobs(DOMAIN txns) \subseteq UndoJobs(DOMAIN txns')
  BY <1>1 DEF UndoJobs
<1>3. CASE UNCHANGED job
  BY <1>1, <1>2, <1>3, JobFacts
<1>4. CASE \E s \in ApplySteps : job.op = "apply" /\ GoTo(s)
  BY <1>1, <1>4, GoToFacts
<1>5. CASE \E s \in UndoSteps : job.op = "undo" /\ GoTo(s)
  BY <1>1, <1>2, <1>5, GoToFacts
<1>6. CASE job' = Idle
  BY <1>6
<1>7. CASE CreateTxn \/ MarkApplying \/ Unplug \/ Unmarket \/ Remarket \/ Replug \/ WriteDevice \/ WriteSrcctl
  BY <1>4, <1>6, <1>7
     DEF CreateTxn, MarkApplying, Unplug, Unmarket, Remarket, Replug, WriteDevice, WriteSrcctl, At, ApplySteps
<1>8. CASE WriteAgent
  <2>1. job.op = "apply"
    BY <1>8 DEF WriteAgent, At
  <2>2. CASE job.i > Len(AgentOrder)
    BY <1>4, <1>8, <2>1, <2>2 DEF WriteAgent, ApplySteps
  <2>3. CASE ~(job.i > Len(AgentOrder))
    <3>1. job.i \in Nat /\ Len(AgentOrder) \in Nat
      BY <1>1, <2>1, JobFacts, FileOrderFacts DEF ApplyJobs
    <3>2. job' = [job EXCEPT !.i = @ + 1]
      BY <1>8, <2>3 DEF WriteAgent
    <3> QED BY <1>1, <2>1, <2>3, <3>1, <3>2, NextFileFacts
  <2> QED BY <2>2, <2>3
<1>9. CASE RestoreFile
  <2>1. job.op = "undo"
    BY <1>9 DEF RestoreFile, At
  <2>2. CASE job.i > Len(FileOrder)
    BY <1>5, <1>9, <2>1, <2>2 DEF RestoreFile, UndoSteps
  <2>3. CASE ~(job.i > Len(FileOrder))
    <3>1. job.i \in Nat /\ Len(FileOrder) \in Nat
      BY <1>1, <2>1, JobFacts, FileOrderFacts DEF UndoJobs
    <3>2. job' = [job EXCEPT !.i = @ + 1]
      BY <1>9, <2>3 DEF RestoreFile
    <3> QED BY <1>1, <1>2, <2>1, <2>3, <3>1, <3>2, NextFileFacts
  <2> QED BY <2>2, <2>3
<1>10. CASE Commit \/ ShareFleet
  BY <1>1, <1>6, <1>10, JobFacts DEF Commit, ShareFleet, ShareJobs, At, GoTo
<1>11. CASE CheckRollback \/ UndoUnplug \/ UndoUnmarket \/ UndoMarket \/ UndoPlugin \/ UndoVerify \/ CacheIn
  BY <1>5, <1>11 DEF CheckRollback, UndoUnplug, UndoUnmarket, UndoMarket, UndoPlugin, UndoVerify, CacheIn, At, UndoSteps
<1>12. CASE CacheOut
  <2>1. job \in UndoJobs(DOMAIN txns) /\ cache \in SUBSET Versions
    BY <1>1, <1>12, JobFacts DEF CacheOut, At, TypeOK
  <2> QED BY <1>2, <1>12, <2>1 DEF CacheOut, UndoJobs, UndoSteps
<1>13. CASE ApplyFails
  <2>1. Len(txns) \in DOMAIN txns /\ Len(FileOrder) \in Nat
    BY <1>1, <1>13, FileOrderFacts DEF ApplyFails, Installing, IInv, TypeOK
  <2> QED BY <1>2, <1>13, <2>1 DEF ApplyFails, UndoJobs, UndoSteps, This
<1>14. ASSUME NEW t \in Txns, Rollback(t) PROVE job' \in UndoJobs(DOMAIN txns')
  BY <1>1, <1>14, FileOrderFacts DEF Rollback, UndoJobs, UndoSteps
<1>15. ASSUME NEW v \in Versions, NEW sc \in BOOLEAN, NEW boot \in BOOLEAN, Begin(v, sc, boot)
       PROVE  job' = Idle \/ job' \in ShareJobs \/ job' \in ApplyJobs
  BY <1>15, FileOrderFacts DEF Begin, ApplyJobs, ShareJobs, ApplySteps
<1> QED
  BY <1>3, <1>6, <1>7, <1>8, <1>9, <1>10, <1>11, <1>12, <1>13, <1>14, <1>15
     DEF Next, Work, Failures, RollbackDone, SyncFleet, RollbackFails, ShareFails, Crash, OtherDevice, InstallApply,
         Bootstrap, UserEdit

(* The actions that need the registry of a marketplace have one.           *)
LEMMA DiskStep ==
  ASSUME IInv, Next
  PROVE  /\ files' \in [OwnedFiles -> Content] /\ market' \in Market
         /\ plugin' \in Plugin /\ cache' \subseteq Versions
<1>1. /\ TypeOK /\ files \in [OwnedFiles -> Content] /\ market \in Market /\ plugin \in Plugin
      /\ cache \subseteq Versions /\ txns \in Seq(TxnManifests)
  BY DEF IInv, TypeOK
<1>2. \A t \in DOMAIN txns : txns[t].pre \in Captures
  <2>1. \A t \in DOMAIN txns : txns[t] \in TxnManifests
    BY <1>1
  <2> QED BY <2>1 DEF TxnManifests
<1>3. job.op = "apply" => job.v \in Versions
  BY <1>1, JobFacts DEF ApplyJobs
<1>4. job.op = "undo" => Pre \in Captures /\ job.old \in SUBSET Versions /\ job.t \in Txns
  <2>1. job.op = "undo" => job.t \in DOMAIN txns /\ job.old \in SUBSET Versions
    BY <1>1, JobFacts DEF UndoJobs
  <2>2. DOMAIN txns \subseteq Txns
    BY <1>1, InstallAssumption DEF TypeOK, Txns
  <2> QED BY <1>2, <2>1, <2>2 DEF Pre
<1>5. CASE UNCHANGED disk
  BY <1>1, <1>5 DEF disk
<1>6. CASE \E f \in OwnedFiles, c \in Content : WriteFile(f, c)
  BY <1>1, <1>6 DEF WriteFile
<1>7. CASE RemovePlugin \/ RemoveMarket
  BY <1>1, <1>7 DEF RemovePlugin, RemoveMarket, Market, Plugin
<1>8. CASE \E m \in Sources : AddMarket(m)
  BY <1>1, <1>8 DEF AddMarket, Market
<1>9. CASE \E v \in Versions : AddPlugin(v) /\ market \in Sources
  BY <1>1, <1>9 DEF AddPlugin, Plugin
<1>10. CASE Remarket
  BY <1>8, <1>10 DEF Remarket, Sources
<1>11. CASE Replug
  BY <1>3, <1>9, <1>11 DEF Replug, Installing, IInv, At, Sources
<1>12. CASE WriteAgent
  <2>1. job.i \in 1 .. Len(AgentOrder) + 1 /\ Len(AgentOrder) \in Nat
    BY <1>1, <1>12, JobFacts, FileOrderFacts DEF WriteAgent, At, ApplyJobs
  <2>2. job.v \in Content
    BY <1>3, <1>12 DEF WriteAgent, At, Content
  <2>3. CASE job.i > Len(AgentOrder)
    BY <1>5, <1>12, <2>3 DEF WriteAgent
  <2>4. CASE ~(job.i > Len(AgentOrder))
    <3>1. AgentOrder[job.i] \in OwnedFiles
      BY <2>1, <2>4, FileOrderFacts
    <3> QED BY <1>6, <1>12, <2>2, <2>4, <3>1 DEF WriteAgent
  <2> QED BY <2>3, <2>4
<1>13. CASE WriteDevice \/ WriteSrcctl
  BY <1>3, <1>5, <1>6, <1>13, FileOrderFacts DEF WriteDevice, WriteSrcctl, At, Content
<1>14. CASE RestoreFile
  <2>1. job.i \in 1 .. Len(FileOrder) + 1 /\ Len(FileOrder) \in Nat
    BY <1>1, <1>14, JobFacts, FileOrderFacts DEF RestoreFile, At, UndoJobs
  <2> QED BY <1>4, <1>5, <1>6, <1>14, <2>1, FileOrderFacts DEF RestoreFile, At, Captures
<1>15. CASE UndoMarket
  BY <1>4, <1>5, <1>8, <1>15 DEF UndoMarket, At, Captures, Market, Sources
<1>16. CASE UndoPlugin
  <2>1. Pre.plugin # Missing => market \in Sources /\ Pre.plugin.v \in Versions
    BY <1>1, <1>4, <1>16 DEF UndoPlugin, At, Restoring, IInv, Market, Captures, Plugin
  <2> QED BY <1>5, <1>9, <1>16, <2>1 DEF UndoPlugin
<1>17. CASE CacheOut \/ CacheIn \/ RollbackFails
  <2>1. CASE CacheOut \/ CacheIn
    BY <1>1, <1>4, <2>1 DEF CacheOut, CacheIn, At, Captures
  <2>2. CASE RollbackFails
    <3>1. job.op = "undo" /\ UNCHANGED <<files, market, plugin>>
      BY <2>2 DEF RollbackFails
    <3>2. job.old \in SUBSET Versions /\ Pre.cache \in SUBSET Versions
      BY <1>4, <3>1 DEF Captures
    <3>3. cache' \in (SUBSET job.old) \cup (SUBSET Pre.cache) \/ cache' = cache
      BY <2>2 DEF RollbackFails
    <3>4. cache' \subseteq Versions
      <4>1. CASE cache' \subseteq job.old
        BY <3>2, <4>1
      <4>2. CASE cache' \subseteq Pre.cache
        BY <3>2, <4>2
      <4>3. CASE cache' = cache
        BY <1>1, <4>3
      <4>4. cache' \subseteq job.old \/ cache' \subseteq Pre.cache \/ cache' = cache
        BY <3>3
      <4> QED BY <4>1, <4>2, <4>3, <4>4
    <3>5. files' = files /\ market' = market /\ plugin' = plugin
      BY <3>1
    <3> QED BY <1>1, <3>4, <3>5
  <2> QED BY <1>17, <2>1, <2>2
<1>18. ASSUME NEW f \in UserFiles, UserEdit(f) PROVE files' \in [OwnedFiles -> Content]
  BY <1>1, <1>18 DEF UserEdit, WriteFile, Content
<1> QED
  BY <1>1, <1>5, <1>7, <1>10, <1>11, <1>12, <1>13, <1>14, <1>15, <1>16, <1>17, <1>18
     DEF Next, Work, Failures, CreateTxn, MarkApplying, Unplug, Unmarket, Commit, CheckRollback, UndoUnplug,
         UndoUnmarket, UndoVerify, RollbackDone, ShareFleet, SyncFleet, ApplyFails, ShareFails, Crash, OtherDevice,
         InstallApply, Bootstrap, Begin, Rollback, UserEdit, WriteFile

LEMMA TypeStep ==
  ASSUME IInv, Next
  PROVE  TypeOK'
<1>1. fleet \in {Missing, "own", "other"} /\ shared \in {Missing, "own", "other"}
  BY DEF IInv, TypeOK
<1>2. fleet' \in {Missing, "own", "other"} /\ shared' \in {Missing, "own", "other"}
  BY <1>1
     DEF Next, Work, Failures, CreateTxn, MarkApplying, Unplug, Unmarket, Remarket, Replug, WriteAgent, WriteDevice,
         WriteSrcctl, Commit, CheckRollback, RestoreFile, UndoUnplug, UndoUnmarket, UndoMarket, UndoPlugin, UndoVerify,
         CacheOut, CacheIn, RollbackDone, ShareFleet, SyncFleet, ApplyFails, RollbackFails, ShareFails, Crash,
         OtherDevice, InstallApply, Bootstrap, EnsureStore, Begin, Rollback, UserEdit
<1>3. job' \in Jobs'
  BY JobStep DEF Jobs, ApplyJobs, UndoJobs, ShareJobs, Idle
<1> QED
  BY <1>2, <1>3, TxnsStep, DiskStep DEF TypeOK

LEMMA InstallingStep ==
  ASSUME IInv, Next
  PROVE  Installing'
<1> SUFFICES ASSUME job'.op = "apply" PROVE Installing'
  BY DEF Installing
<1>1. TypeOK /\ Installing /\ txns \in Seq(TxnManifests)
  BY DEF IInv, TypeOK
<1>2. CASE CreateTxn
  <2>1. job.op = "apply" /\ txns' # txns /\ GoTo("mark")
    BY <1>1, <1>2 DEF CreateTxn, At, Idle
  <2> QED BY <1>1, <1>2, <2>1, CreateFacts, GoToFacts DEF Installing
<1>3. CASE MarkApplying
  BY <1>1, <1>3, GoToFacts DEF MarkApplying, At, Installing, SetState
<1>4. CASE Unplug \/ Unmarket \/ Remarket \/ Replug \/ WriteDevice \/ WriteSrcctl
  BY <1>1, <1>4, GoToFacts DEF Unplug, Unmarket, Remarket, Replug, WriteDevice, WriteSrcctl, At, Installing, AddMarket
<1>5. CASE WriteAgent
  BY <1>1, <1>5, GoToFacts, JobFacts DEF WriteAgent, At, Installing, ApplyJobs
<1>6. ASSUME NEW v \in Versions, NEW sc \in BOOLEAN, NEW boot \in BOOLEAN, Begin(v, sc, boot)
      PROVE  Installing'
  BY <1>6 DEF Begin, Installing, Idle
<1>7. CASE OtherDevice
  BY <1>1, <1>7 DEF OtherDevice, Installing, disk
<1>8. job'.op = "undo" => ~(job'.op = "apply")
  OBVIOUS
<1>9. CASE job' = Idle
  BY <1>9 DEF Idle
<1>10. CASE CheckRollback \/ UndoUnplug \/ UndoUnmarket \/ UndoMarket \/ UndoPlugin \/ UndoVerify \/ CacheIn
  BY <1>1, <1>10, GoToFacts DEF CheckRollback, UndoUnplug, UndoUnmarket, UndoMarket, UndoPlugin, UndoVerify, CacheIn, At
<1>11. CASE RestoreFile \/ CacheOut
  BY <1>1, <1>11, JobFacts DEF RestoreFile, CacheOut, At, GoTo, UndoJobs
<1>13. CASE ShareFleet \/ Commit \/ ApplyFails
  BY <1>1, <1>13, JobFacts DEF ShareFleet, Commit, ApplyFails, At, GoTo, ShareJobs, Idle
<1>12. ASSUME NEW t \in Txns, Rollback(t) PROVE Installing'
  BY <1>12 DEF Rollback
<1> QED
  BY <1>2, <1>3, <1>4, <1>5, <1>6, <1>7, <1>9, <1>10, <1>11, <1>12, <1>13
     DEF Next, Work, Failures, RollbackDone, SyncFleet, RollbackFails, ShareFails, Crash, InstallApply, Bootstrap, UserEdit,
         Idle

(* A rollback begins with its check, after a failure or when asked for.     *)
LEMMA RollbackBegins ==
  ASSUME IInv, Next, job.op # "undo", job'.op = "undo"
  PROVE  ApplyFails \/ \E t \in Txns : Rollback(t)
<1>0. TypeOK
  BY DEF IInv
<1>1. ASSUME NEW s, GoTo(s), job.op \in {"apply", "undo"} PROVE FALSE
  BY <1>0, <1>1, GoToFacts
<1>2. ~CreateTxn /\ ~MarkApplying /\ ~Unplug /\ ~Unmarket /\ ~Remarket /\ ~Replug /\ ~WriteDevice /\ ~WriteSrcctl
  BY <1>1 DEF CreateTxn, MarkApplying, Unplug, Unmarket, Remarket, Replug, WriteDevice, WriteSrcctl, At, Idle
<1>3. ~WriteAgent
  BY <1>0, <1>1, JobFacts DEF WriteAgent, At, ApplyJobs
<1>4. ~Commit /\ ~ShareFleet
  BY <1>0, JobFacts DEF Commit, ShareFleet, At, GoTo, Idle, ShareJobs
<1>5. job' # job /\ job' # Idle
  BY DEF Idle
<1>6. \A v, sc, boot : ~Begin(v, sc, boot)
  BY DEF Begin, Idle
<1> QED
  BY <1>2, <1>3, <1>4, <1>5, <1>6
     DEF Next, Work, Failures, CheckRollback, RestoreFile, UndoUnplug, UndoUnmarket, UndoMarket, UndoPlugin,
         UndoVerify, CacheOut, CacheIn, RollbackDone, SyncFleet, RollbackFails, ShareFails, Crash, OtherDevice,
         InstallApply, Bootstrap, UserEdit, At

(* Every step of a rollback but its last leaves the manifests alone.        *)
LEMMA RestoringStep ==
  ASSUME IInv, Next
  PROVE  Restoring'
<1> SUFFICES ASSUME job'.op = "undo" PROVE Restoring'
  BY DEF Restoring
<1>1. /\ TypeOK /\ Restoring /\ txns \in Seq(TxnManifests) /\ files \in [OwnedFiles -> Content]
      /\ \A t \in DOMAIN txns : txns[t].pre \in Captures
  <2>1. \A t \in DOMAIN txns : txns[t] \in TxnManifests
    BY DEF IInv, TypeOK
  <2> QED BY <2>1 DEF IInv, TypeOK, TxnManifests
<1>2. job.op = "undo" => job \in UndoJobs(DOMAIN txns) /\ job.t \in DOMAIN txns /\ Pre \in Captures /\ job.i \in Nat
  BY <1>1, JobFacts, FileOrderFacts DEF UndoJobs, Pre
<1>3. CASE job.op # "undo"
  BY <1>1, <1>3, RollbackBegins DEF ApplyFails, Rollback, Restoring
<1>4. CASE CheckRollback
  BY <1>1, <1>2, <1>4, GoToFacts DEF CheckRollback, At, Restoring
<1>5. CASE RestoreFile
  <2>1. UNCHANGED txns /\ job.at = "files" /\ job.op = "undo" /\ Len(FileOrder) \in Nat
    BY <1>5, FileOrderFacts DEF RestoreFile, At
  <2>2. CASE job.i > Len(FileOrder)
    <3>1. \A f \in OwnedFiles : files[f] = Pre.files[f]
      <4>1. \A k \in 1 .. Len(FileOrder) : files[FileOrder[k]] = Pre.files[FileOrder[k]]
        BY <1>1, <1>2, <2>1, <2>2 DEF Restoring
      <4> QED BY <4>1, FileOrderFacts
    <3>2. Pre.files \in [OwnedFiles -> Content]
      BY <1>2, <2>1 DEF Captures
    <3>3. files = Pre.files
      BY <1>1, <3>1, <3>2
    <3>4. UNCHANGED files /\ GoTo("unplug")
      BY <1>5, <2>2 DEF RestoreFile, disk
    <3> QED BY <1>1, <2>1, <3>3, <3>4, GoToFacts DEF Restoring, Pre
  <2>3. CASE ~(job.i > Len(FileOrder))
    <3> DEFINE f == FileOrder[job.i]
    <3>1. job' = [job EXCEPT !.i = @ + 1] /\ files' = [files EXCEPT ![f] = Pre.files[f]]
      BY <1>5, <2>3 DEF RestoreFile, WriteFile
    <3>2. job'.i = job.i + 1 /\ job'.at = "files" /\ job'.t = job.t
      BY <1>2, <2>1, <3>1 DEF UndoJobs
    <3>3. ASSUME NEW k \in 1 .. job.i PROVE files'[FileOrder[k]] = Pre.files[FileOrder[k]]
      <4>1. FileOrder[k] \in OwnedFiles
        BY <1>2, <2>1, <2>3, FileOrderFacts
      <4> QED BY <1>1, <1>2, <2>1, <3>1, <4>1 DEF Restoring
    <3> QED BY <1>2, <2>1, <3>2, <3>3 DEF Restoring, Pre
  <2> QED BY <2>2, <2>3
<1>6. CASE UndoUnplug \/ UndoUnmarket
  BY <1>1, <1>2, <1>6, GoToFacts DEF UndoUnplug, UndoUnmarket, RemovePlugin, RemoveMarket, At, Restoring, Pre
<1>7. CASE UndoMarket
  <2>1. job.op = "undo" /\ UNCHANGED txns /\ job.t \in Txns
    BY <1>1, <1>2, <1>7, InstallAssumption DEF UndoMarket, At, TypeOK, Txns
  <2>2. Pre.plugin # Missing => Pre.market # Missing
    BY <1>2, <2>1 DEF Recorded, IInv, Pre
  <2>3. Pre.plugin # Missing => market' # Missing
    BY <1>7, <2>1, <2>2, InstallAssumption DEF UndoMarket, AddMarket, Sources
  <2>4. UNCHANGED files
    BY <1>7 DEF UndoMarket, AddMarket, disk
  <2> QED BY <1>1, <1>7, <2>1, <2>3, <2>4, GoToFacts DEF UndoMarket, At, Restoring, Pre
<1>8. CASE UndoPlugin
  BY <1>1, <1>2, <1>8, GoToFacts DEF UndoPlugin, AddPlugin, At, Restoring, Pre, disk
<1>9. CASE UndoVerify
  BY <1>1, <1>2, <1>9, GoToFacts DEF UndoVerify, At, Restoring, RegistryRestored, Pre, disk
<1>10. CASE CacheOut
  BY <1>1, <1>2, <1>10 DEF CacheOut, At, Restoring, RegistryRestored, Pre, UndoJobs
<1>11. CASE CacheIn
  BY <1>1, <1>2, <1>11, GoToFacts DEF CacheIn, At, Restoring, RegistryRestored, Pre
<1>12. CASE OtherDevice
  BY <1>1, <1>12 DEF OtherDevice, Restoring, RegistryRestored, Pre, disk
<1>13. CASE job.op = "undo"
  <2>1. job # Idle /\ job' # Idle
    BY <1>13 DEF Idle
  <2> QED
    BY <1>4, <1>5, <1>6, <1>7, <1>8, <1>9, <1>10, <1>11, <1>12, <1>13, <2>1
       DEF Next, Work, Failures, CreateTxn, MarkApplying, Unplug, Unmarket, Remarket, Replug, WriteAgent, WriteDevice,
           WriteSrcctl, Commit, RollbackDone, ShareFleet, SyncFleet, ApplyFails, RollbackFails, ShareFails, Crash,
           InstallApply, Bootstrap, Begin, Rollback, UserEdit, At
<1> QED
  BY <1>3, <1>13

(* What is not yet restored is still as the transaction committed it: the  *)
(* guard is read once, and nothing but the rollback writes after it.       *)
LEMMA UndoesStep ==
  ASSUME IInv, Next
  PROVE  UndoesOnlyItsOwn'
<1> SUFFICES ASSUME job'.op = "undo", job'.at # "check", ~job'.auto PROVE UndoesOnlyItsOwn'
  BY DEF UndoesOnlyItsOwn
<1>1. TypeOK /\ UndoesOnlyItsOwn /\ job' # Idle /\ job' \in UndoJobs(DOMAIN txns')
  BY JobStep DEF IInv, Idle, ApplyJobs, ShareJobs
<1>2. job.op = "undo" => job \in UndoJobs(DOMAIN txns) /\ job.i \in 1 .. Len(FileOrder) + 1 /\ Len(FileOrder) \in Nat
  BY <1>1, JobFacts, FileOrderFacts DEF UndoJobs
<1>3. CASE CheckRollback
  BY <1>1, <1>2, <1>3, GoToFacts DEF CheckRollback, RollbackAllowed, PostUnchanged, At, UndoesOnlyItsOwn, disk
<1>4. CASE RestoreFile
  <2>1. UNCHANGED txns /\ job.at = "files" /\ job.op = "undo"
    BY <1>4 DEF RestoreFile, At
  <2>2. CASE job.i > Len(FileOrder)
    BY <1>1, <1>2, <1>4, <2>1, <2>2, GoToFacts DEF RestoreFile, UndoesOnlyItsOwn, disk
  <2>3. CASE ~(job.i > Len(FileOrder))
    <3> DEFINE f == FileOrder[job.i]
    <3>1. job' = [job EXCEPT !.i = @ + 1] /\ files' = [files EXCEPT ![f] = Pre.files[f]]
      BY <1>4, <2>3 DEF RestoreFile, WriteFile
    <3>2. job'.i = job.i + 1 /\ job'.at = "files" /\ job'.t = job.t /\ job'.auto = job.auto
      BY <1>2, <2>1, <3>1 DEF UndoJobs
    <3>3. ASSUME NEW k \in job.i + 1 .. Len(FileOrder)
          PROVE  files'[FileOrder[k]] = txns[job.t].post.files[FileOrder[k]]
      <4>1. FileOrder[k] # f
        <5>1. job.i \in 1 .. Len(FileOrder) /\ k \in 1 .. Len(FileOrder) /\ k # job.i
          BY <1>2, <2>1, <2>3
        <5>2. DOMAIN FileOrder = 1 .. Len(FileOrder)
          BY FileOrderFacts
        <5> QED BY <5>1, <5>2, InstallAssumption
      <4>2. files[FileOrder[k]] = txns[job.t].post.files[FileOrder[k]]
        BY <1>1, <1>2, <2>1, <3>2 DEF UndoesOnlyItsOwn
      <4> QED BY <3>1, <4>1, <4>2
    <3>4. job'.i > 1
      BY <1>2, <2>1, <3>2
    <3> QED BY <2>1, <3>2, <3>3, <3>4 DEF UndoesOnlyItsOwn
  <2> QED BY <2>2, <2>3
<1>5. CASE UndoUnplug \/ UndoUnmarket \/ UndoMarket \/ UndoPlugin \/ UndoVerify \/ CacheIn
  <2>1. UNCHANGED files /\ UNCHANGED txns /\ job.op = "undo" /\ job.at # "check"
    BY <1>5
       DEF UndoUnplug, UndoUnmarket, UndoMarket, UndoPlugin, UndoVerify, CacheIn, RemovePlugin, RemoveMarket, AddMarket,
           AddPlugin, At, disk
  <2>2. job'.i = job.i /\ job'.t = job.t /\ job'.auto = job.auto /\ job'.at # "files"
    BY <1>1, <1>5, <2>1, GoToFacts DEF UndoUnplug, UndoUnmarket, UndoMarket, UndoPlugin, UndoVerify, CacheIn
  <2> QED BY <1>1, <2>1, <2>2 DEF UndoesOnlyItsOwn
<1>6. CASE CacheOut
  BY <1>1, <1>2, <1>6 DEF CacheOut, At, UndoesOnlyItsOwn, UndoJobs
<1>7. CASE OtherDevice
  BY <1>1, <1>7 DEF OtherDevice, UndoesOnlyItsOwn, PostUnchanged, disk
<1>8. CASE job.op = "undo"
  <2>1. job # Idle
    BY <1>8 DEF Idle
  <2> QED
    BY <1>1, <1>3, <1>4, <1>5, <1>6, <1>7, <1>8, <2>1
       DEF Next, Work, Failures, CreateTxn, MarkApplying, Unplug, Unmarket, Remarket, Replug, WriteAgent, WriteDevice,
           WriteSrcctl, Commit, RollbackDone, ShareFleet, SyncFleet, ApplyFails, RollbackFails, ShareFails, Crash,
           InstallApply, Bootstrap, Begin, Rollback, UserEdit, At
<1>9. CASE job.op # "undo"
  <2>1. job'.at = "check"
    BY <1>1, <1>9, RollbackBegins DEF ApplyFails, Rollback
  <2> QED BY <2>1
<1> QED
  BY <1>8, <1>9

LEMMA SharingStep ==
  ASSUME IInv, Next
  PROVE  Sharing'
<1> SUFFICES ASSUME job'.op = "share" PROVE Sharing'
  BY DEF Sharing
<1>1. TypeOK /\ Sharing /\ job' # Idle
  BY DEF IInv, Idle
<1>2. CASE Commit
  <2>1. Matches(job.v, FALSE) /\ UNCHANGED disk /\ job.v \in Versions
    BY <1>1, <1>2, JobFacts DEF Commit, Matches, At, ApplyJobs
  <2> QED BY <2>1 DEF Sharing, Matches, disk
<1>3. ASSUME NEW v \in Versions, NEW sc \in BOOLEAN, NEW boot \in BOOLEAN, Begin(v, sc, boot)
      PROVE  Sharing'
  <2>1. Matches(v, sc) /\ UNCHANGED disk
    BY <1>3 DEF Begin, Idle
  <2> QED BY <2>1 DEF Sharing, Matches, disk
<1>4. CASE ShareFleet \/ OtherDevice
  <2>1. job.op = "share" /\ UNCHANGED disk
    BY <1>4 DEF ShareFleet, OtherDevice, At
  <2> QED BY <1>1, <2>1 DEF Sharing, Matches, disk
<1>5. ASSUME NEW s, GoTo(s), job.op \in {"apply", "undo"} PROVE FALSE
  BY <1>1, <1>5, GoToFacts
<1>6. ~CreateTxn /\ ~MarkApplying /\ ~Unplug /\ ~Unmarket /\ ~Remarket /\ ~Replug /\ ~WriteDevice /\ ~WriteSrcctl
  BY <1>1, <1>5 DEF CreateTxn, MarkApplying, Unplug, Unmarket, Remarket, Replug, WriteDevice, WriteSrcctl, At
<1>7. ~CheckRollback /\ ~UndoUnplug /\ ~UndoUnmarket /\ ~UndoMarket /\ ~UndoPlugin /\ ~UndoVerify /\ ~CacheIn
  BY <1>5 DEF CheckRollback, UndoUnplug, UndoUnmarket, UndoMarket, UndoPlugin, UndoVerify, CacheIn, At
<1>8. ~WriteAgent /\ ~RestoreFile /\ ~CacheOut
  BY <1>1, <1>5, JobFacts DEF WriteAgent, RestoreFile, CacheOut, At, ApplyJobs, UndoJobs
<1>9. job' # Idle /\ job'.op # "undo"
  BY DEF Idle
<1>10. ~RollbackDone /\ ~SyncFleet /\ ~RollbackFails /\ ~ShareFails /\ ~Crash
  BY <1>9 DEF RollbackDone, SyncFleet, RollbackFails, ShareFails, Crash
<1>11. ~ApplyFails /\ \A t \in Txns : ~Rollback(t)
  BY <1>9 DEF ApplyFails, Rollback
<1>12. \A f \in UserFiles : ~UserEdit(f)
  BY <1>9 DEF UserEdit
<1>13. Commit \/ ShareFleet \/ OtherDevice
       \/ \E v \in Versions, sc \in BOOLEAN, boot \in BOOLEAN : Begin(v, sc, boot)
  <2>1. ~Work \/ Commit \/ ShareFleet
    BY <1>6, <1>7, <1>8, <1>10 DEF Work
  <2>2. ~Failures
    BY <1>10, <1>11 DEF Failures
  <2> QED BY <1>10, <1>11, <1>12, <2>1, <2>2 DEF Next, InstallApply, Bootstrap
<1> QED
  BY <1>2, <1>3, <1>4, <1>13
-------------------------------------------------------------------------------
LEMMA InitIInv == Init => IInv
<1> SUFFICES ASSUME Init PROVE IInv
  OBVIOUS
<1>1. Missing \in Content /\ Missing \in Market /\ Missing \in Plugin
  BY DEF Content, Market, Plugin
<1>2. TypeOK
  BY <1>1, InstallAssumption DEF Init, TypeOK, Jobs
<1> QED
  BY <1>2 DEF Init, IInv, Installing, Recorded, Restoring, UndoesOnlyItsOwn, Sharing, Idle

LEMMA IInvStep == IInv /\ [Next]_vars => IInv'
<1> SUFFICES ASSUME IInv, [Next]_vars PROVE IInv'
  OBVIOUS
<1>1. CASE Next
  BY <1>1, TypeStep, InstallingStep, TxnsStep, RestoringStep, UndoesStep, SharingStep DEF IInv
<1>2. CASE UNCHANGED vars
  BY <1>2
     DEF IInv, vars, disk, TypeOK, Jobs, Installing, Recorded, Restoring, RegistryRestored, Pre, UndoesOnlyItsOwn,
         PostUnchanged, Sharing, Matches
<1> QED
  BY <1>1, <1>2

LEMMA InstallInv == InstallSpec => []IInv
BY InitIInv, IInvStep, PTL DEF InstallSpec

(* The disk, the manifests and the process stay within their types through *)
(* every failure, crash and rollback: above all, no step of an install or  *)
(* of a rollback registers a plugin while no marketplace is registered.    *)
THEOREM InstallTypeCorrect == InstallSpec => []TypeOK
<1>1. IInv => TypeOK
  BY DEF IInv
<1> QED
  BY <1>1, InstallInv, PTL

(* A rollback somebody asks for overwrites only what its transaction       *)
(* committed (rollback_installation, _assert_post_state_unchanged).        *)
THEOREM RollbacksUndoTheirOwn == InstallSpec => []UndoesOnlyItsOwn
<1>1. IInv => UndoesOnlyItsOwn
  BY DEF IInv
<1> QED
  BY <1>1, InstallInv, PTL

(* A rollback that reports success has restored files, cache and registry  *)
(* as its manifest recorded them (rollback_installation).                  *)
THEOREM RollbacksRestore == InstallSpec => RollbackRestores
<1>1. IInv /\ [Next]_vars =>
       [\A t \in DOMAIN txns : (~RolledBack(t) /\ RolledBack(t)') =>
          LET pre == txns[t].pre IN
          /\ files' = pre.files /\ cache' = pre.cache
          /\ (market' = Missing) = (pre.market = Missing) /\ (plugin' = Missing) = (pre.plugin = Missing)
          /\ plugin' # Missing => plugin'.v = pre.plugin.v]_vars
  <2> SUFFICES ASSUME IInv, Next, NEW t \in DOMAIN txns, ~RolledBack(t), RolledBack(t)'
               PROVE  /\ files' = txns[t].pre.files /\ cache' = txns[t].pre.cache
                      /\ (market' = Missing) = (txns[t].pre.market = Missing)
                      /\ (plugin' = Missing) = (txns[t].pre.plugin = Missing)
                      /\ plugin' # Missing => plugin'.v = txns[t].pre.plugin.v
    OBVIOUS
  <2>1. TypeOK /\ Restoring /\ txns \in Seq(TxnManifests)
    BY DEF IInv, TypeOK
  <2>2. CASE RollbackDone
    <3>1. job.op = "undo" /\ job.at = "done" /\ job.t \in DOMAIN txns
      BY <2>1, <2>2, JobFacts DEF RollbackDone, At, UndoJobs
    <3>2. t = job.t
      BY <2>1, <2>2, <3>1, SetStateFacts DEF RollbackDone, RolledBack, TxnStates
    <3> QED BY <2>1, <2>2, <3>1, <3>2 DEF RollbackDone, Restoring, RegistryRestored, Pre, disk
  <2>3. txns' # txns /\ txns'[t].state # txns[t].state
    BY DEF RolledBack
  <2>4. ~CreateTxn
    BY <2>1, <2>3, CreateFacts
  <2>5. ~MarkApplying
    BY <2>1, SetStateFacts DEF MarkApplying, RolledBack, TxnStates, This, Installing, IInv, At
  <2>6. ~RollbackFails
    BY <2>1, <2>3, SetStateFacts, JobFacts DEF RollbackFails, RolledBack, TxnStates, UndoJobs
  <2>7. ~Commit
    BY <2>1, CommitFacts DEF RolledBack
  <2> QED
    BY <2>2, <2>3, <2>4, <2>5, <2>6, <2>7
       DEF Next, Work, Failures, Unplug, Unmarket, Remarket, Replug, WriteAgent, WriteDevice, WriteSrcctl,
           CheckRollback, RestoreFile, UndoUnplug, UndoUnmarket, UndoMarket, UndoPlugin, UndoVerify, CacheOut, CacheIn,
           ShareFleet, SyncFleet, ApplyFails, ShareFails, Crash, OtherDevice, InstallApply, Bootstrap, Begin, Rollback,
           UserEdit
<1> QED
  BY <1>1, InstallInv, PTL DEF InstallSpec, RollbackRestores

(* The fleet section is published only over an installation that is whole  *)
(* on the disk (bootstrap, write_fleet_sentinel and sync).                 *)
THEOREM FleetFollowsInstall == InstallSpec => FleetAfterInstall
<1>1. IInv /\ [Next]_vars => [(shared' # shared /\ job' # job) => \E v \in Versions : Matches(v, FALSE)]_vars
  <2> SUFFICES ASSUME IInv, Next, shared' # shared, job' # job PROVE \E v \in Versions : Matches(v, FALSE)
    OBVIOUS
  <2>1. SyncFleet
    BY DEF Next, Work, Failures, CreateTxn, MarkApplying, Unplug, Unmarket, Remarket, Replug, WriteAgent, WriteDevice,
         WriteSrcctl, Commit, CheckRollback, RestoreFile, UndoUnplug, UndoUnmarket, UndoMarket, UndoPlugin, UndoVerify,
         CacheOut, CacheIn, RollbackDone, ShareFleet, ApplyFails, RollbackFails, ShareFails, Crash,
         OtherDevice, InstallApply, Bootstrap, Begin, Rollback, UserEdit
  <2> QED BY <2>1 DEF SyncFleet, At, IInv, Sharing
<1> QED
  BY <1>1, InstallInv, PTL DEF InstallSpec, FleetAfterInstall

(* What a command reports, to its user or to the fleet, is on the disk.     *)
THEOREM ReportsAreTrue == InstallSpec => ReportsTrue
BY RollbacksRestore, FleetFollowsInstall DEF ReportsTrue
-------------------------------------------------------------------------------
(* The real benchmark                                                      *)

(* The evaluation log of a run under the treatment of its mode, so far.    *)
Treatment(m) == IF ~On(m) THEN <<>> ELSE IF Recalls(m) THEN <<"start", "recall">> ELSE <<"start">>

Modes == {"A", "B", "C", "D", "E", "F"}
RunSteps == {"waiting", "treated", "materialized", "broker", "registered", "model", "SIGTERM", "SIGKILL", "acceptance",
             "finishing", "ended", "raised"}
Outcomes == {"cancelled", "success", "partial", "failed"}
Evaluations == LET begun == {<<>>, <<"start">>, <<"start", "recall">>} IN
  begun \cup {Append(e, o) : e \in begun, o \in Outcomes}
Sandboxes == {Fresh.sandbox} \cup HostGrants
RunRecords ==
  [at : RunSteps, condition : BOOLEAN, eval : Evaluations, matches : 0 .. MaxMatches, auth : BOOLEAN,
   sandbox : Sandboxes, launcher : BOOLEAN, rest : BOOLEAN, apart : BOOLEAN, timed : BOOLEAN, tests : BOOLEAN,
   stuck : BOOLEAN, counted : Nat \cup {Unknown}]
Rows == [run : Slots, mode : Modes, condition : BOOLEAN, success : BOOLEAN, useful : Nat, accepted : BOOLEAN, timed : BOOLEAN,
         tokens : {TotalTokens(out) : out \in Outputs}]
BenchTypeOK ==
  /\ main \in {"planned", "running", "refused", "failed", "done", "died"} /\ work \in Plans /\ offset \in 0 .. Len(work)
  /\ run \in [Slots -> RunRecords] /\ results \in Seq(Rows)

(* A run waits for its batch, and is treated once it has begun.            *)
RunsInTurn ==
  /\ \A i \in Slots : i > offset => run[i].at = "waiting"
  /\ \A i \in Slots : run[i].at \notin {"waiting", "ended", "raised"} => run[i].eval = Treatment(work[i])
  /\ \A i \in Slots : run[i].at \in {"waiting", "treated", "materialized", "broker", "registered", "model"} => ~run[i].timed

Within(rows) == ~Oversized(rows) /\ Accounted(rows) <= MaxTotalTokens

(* Batches follow each other: all but the last have ended, within limits.  *)
BatchesInTurn ==
  /\ main = "planned" => offset = 0
  /\ offset = Len(work) \/ \E q \in Nat : offset = q * Parallelism
  /\ \A i \in 1 .. offset : i \in Batch \/ run[i].at = "ended"
  /\ (main = "running" /\ offset > 0) =>
       Within({k \in DOMAIN results : results[k].run \notin Batch})

(* Every run that ended has one row.                                       *)
OneRowEach ==
  /\ \A k \in DOMAIN results : run[results[k].run].at = "ended" /\ results[k].mode = work[results[k].run]
                              /\ results[k].run <= offset
  /\ \A j, k \in DOMAIN results : results[j].run = results[k].run => j = k
  /\ \A i \in Slots : run[i].at = "ended" => \E k \in DOMAIN results : results[k].run = i

(* When main is done, all is done.                                         *)
DoneWhole ==
  main = "done" =>
    /\ offset = Len(work) /\ \A i \in 1 .. offset : run[i].at = "ended"
    /\ Within(DOMAIN results)
    /\ summary = Summarized(results)
Summaries == summary = None \/ \E rows \in Seq(Rows) : summary = Summarized(rows)

BenchInv ==
  /\ BenchTypeOK /\ RunsInTurn /\ ModelConfined /\ NothingOutlivesTheBroker /\ BatchesInTurn /\ OneRowEach /\ RowsBacked
  /\ DoneWhole /\ Summaries

-------------------------------------------------------------------------------
(* What a run's own steps do to it.                                        *)
Confined(r) ==
  Running(r) =>
    /\ r.sandbox["solver"] \cap {"harness read", "broker", "network", "private home"} = {}
    /\ r.sandbox["acceptance"] \cap {"workspace write", "broker", "network", "private home"} = {}
Contained(r) ==
  /\ r.at \in {"waiting", "treated", "materialized", "finishing", "ended", "raised"} => ~r.auth \/ r.stuck
  /\ (r.timed /\ r.at \in {"acceptance", "finishing", "ended"}) => ~r.launcher /\ ~r.rest
  /\ r.at \in {"waiting", "treated", "materialized", "broker", "registered", "model"} => ~r.timed
InTreatment(i, r) == r.at \notin {"waiting", "ended", "raised"} => r.eval = Treatment(work[i])
GoesOn(i, r) ==
  /\ r \in RunRecords /\ run' = [run EXCEPT ![i] = r] /\ UNCHANGED <<main, work, offset, summary, results>>
  /\ run[i].at \notin {"ended", "raised"} /\ r.at \notin {"waiting", "ended"} /\ i <= offset
  /\ Confined(r) /\ Contained(r) /\ InTreatment(i, r)

LEMMA SlotsFacts == BenchTypeOK => Slots \subseteq Nat \ {0} /\ DOMAIN work = 1 .. Len(work) /\ DOMAIN work \subseteq Slots
                                   /\ offset \in Nat /\ Len(work) \in Nat /\ work \in Seq(Modes)
BY BenchmarkAssumption DEF BenchTypeOK, Slots, Modes

(* Leaving the broker home changes nothing else, but that it may raise.    *)
LEMMA BrokerLeft ==
  ASSUME NEW r \in RunRecords, NEW left \in LeaveBroker(r)
  PROVE  /\ left \in RunRecords /\ left.at \in {r.at, "raised"} /\ (~left.auth \/ left.stuck)
         /\ left.eval = r.eval /\ left.sandbox = r.sandbox
         /\ left.timed = r.timed /\ left.launcher = r.launcher /\ left.rest = r.rest
<1>1. \/ left = [r EXCEPT !.auth = FALSE]
      \/ left = [r EXCEPT !.auth = FALSE, !.at = "raised"]
      \/ left = [r EXCEPT !.at = "raised", !.stuck = TRUE]
  BY DEF LeaveBroker
<1> QED BY <1>1 DEF RunRecords, RunSteps

(* A run that has not ended goes on, or ends.                              *)
LEMMA RunStepFacts ==
  ASSUME BenchTypeOK, RunsInTurn, ModelConfined, NothingOutlivesTheBroker, NEW i \in Slots, RunStep(i),
         \A out \in Outputs, changed \in SUBSET (Files \cup {"stray"}), finished \in BOOLEAN : ~Judge(i, out, changed, finished)
  PROVE  \E r : GoesOn(i, r)
<1>1. /\ run \in [Slots -> RunRecords] /\ Confined(run[i]) /\ Contained(run[i]) /\ InTreatment(i, run[i])
      /\ run[i] \in RunRecords
      /\ run[i].at # "waiting" => i <= offset
  <2>1. i \in Nat /\ offset \in Nat /\ run \in [Slots -> RunRecords]
    BY SlotsFacts DEF BenchTypeOK
  <2>2. run[i].at # "waiting" => i <= offset
    BY <2>1 DEF RunsInTurn
  <2> QED BY <2>1, <2>2 DEF BenchTypeOK, RunsInTurn, ModelConfined, NothingOutlivesTheBroker, Confined, Contained, InTreatment
<1> DEFINE old == run[i]
<1> USE DEF RunAt, MainRests, Becomes, InTreatment, Contained, GoesOn, RunRecords, RunSteps, Confined, Running
<1>2. ASSUME NEW matches \in 0 .. MaxMatches, Treat(i, matches)
      PROVE  GoesOn(i, [old EXCEPT !.at = "treated", !.matches = matches, !.eval = Treatment(work[i])])
  <2>1. Treatment(work[i]) \in Evaluations
    BY DEF Treatment, Evaluations
  <2> QED BY <1>1, <1>2, <2>1 DEF Treat, Treatment
<1>3. ASSUME TreatmentFails(i) PROVE \E r : GoesOn(i, r)
  <2>1. \A e \in {<<>>, <<"start">>} : e \in Evaluations
    BY DEF Evaluations
  <2>2. PICK e \in {<<>>, <<"start">>} : run' = [run EXCEPT ![i] = [old EXCEPT !.at = "raised", !.eval = e]]
    BY <1>3 DEF TreatmentFails
  <2>3. GoesOn(i, [old EXCEPT !.at = "raised", !.eval = e])
    BY <1>1, <1>3, <2>1, <2>2 DEF TreatmentFails
  <2> QED BY <2>3
<1>4. ASSUME Materialize(i) PROVE GoesOn(i, [old EXCEPT !.at = "materialized"])
  BY <1>1, <1>4 DEF Materialize
<1>5. ASSUME VerifyPlugin(i) PROVE GoesOn(i, [old EXCEPT !.at = "registered"])
  BY <1>1, <1>5 DEF VerifyPlugin
<1>6. ASSUME EnterBroker(i) PROVE \E r : GoesOn(i, r)
  <2>1. PICK granted \in HostGrants : run' = [run EXCEPT ![i] = [old EXCEPT !.at = "broker", !.auth = TRUE, !.sandbox = granted]]
    BY <1>6 DEF EnterBroker
  <2>2. granted \in Sandboxes
    BY DEF Sandboxes
  <2>3. GoesOn(i, [old EXCEPT !.at = "broker", !.auth = TRUE, !.sandbox = granted])
    BY <1>1, <1>6, <2>1, <2>2 DEF EnterBroker
  <2> QED BY <2>3
<1>7. ASSUME StartModel(i) PROVE GoesOn(i, [old EXCEPT !.at = "model", !.launcher = TRUE, !.rest = TRUE])
  <2>1. ProbeFailures("solver", old.sandbox["solver"]) = {} /\ ProbeFailures("acceptance", old.sandbox["acceptance"]) = {}
    BY <1>7 DEF StartModel, Profiles
  <2>2. /\ old.sandbox["solver"] \cap {"harness read", "broker", "network", "private home"} = {}
        /\ old.sandbox["acceptance"] \cap {"workspace write", "broker", "network", "private home"} = {}
    BY <2>1 DEF ProbeFailures
  <2> QED BY <1>1, <1>7, <2>2 DEF StartModel
<1>8. ASSUME RunRaises(i) PROVE \E r : GoesOn(i, r)
  <2> DEFINE raised == [old EXCEPT !.at = "raised"]
  <2>1. PICK left \in LeaveBroker(raised) : run' = [run EXCEPT ![i] = left]
    BY <1>8 DEF RunRaises
  <2>2. raised \in RunRecords /\ raised.at = "raised"
    BY <1>1
  <2>3. left \in RunRecords /\ left.at = "raised" /\ (~left.auth \/ left.stuck)
    <3> HIDE DEF raised
    <3> QED BY <2>1, <2>2, BrokerLeft
  <2> HIDE DEF raised
  <2>4. GoesOn(i, left)
    BY <1>1, <1>8, <2>1, <2>3 DEF RunRaises
  <2> QED BY <2>4
<1>9. ASSUME ModelEnds(i) PROVE \E r : GoesOn(i, r)
  <2>1. PICK stays \in BOOLEAN : run' = [run EXCEPT ![i] = [old EXCEPT !.at = "acceptance", !.launcher = FALSE, !.rest = stays]]
    BY <1>9 DEF ModelEnds
  <2>2. GoesOn(i, [old EXCEPT !.at = "acceptance", !.launcher = FALSE, !.rest = stays])
    BY <1>1, <1>9, <2>1 DEF ModelEnds
  <2> QED BY <2>2
<1>10. ASSUME TimesOut(i) PROVE \E r : GoesOn(i, r)
  <2>1. PICK apart \in BOOLEAN : run' = [run EXCEPT ![i] = [old EXCEPT !.at = "SIGTERM", !.timed = TRUE, !.apart = apart]]
    BY <1>10 DEF TimesOut
  <2>2. GoesOn(i, [old EXCEPT !.at = "SIGTERM", !.timed = TRUE, !.apart = apart])
    BY <1>1, <1>10, <2>1 DEF TimesOut
  <2> QED BY <2>2
<1>11. ASSUME Terminate(i) PROVE \E r : GoesOn(i, r)
  <2>1. CASE run' = [run EXCEPT ![i] = [old EXCEPT !.at = "acceptance", !.launcher = FALSE, !.rest = FALSE]]
    <3>1. GoesOn(i, [old EXCEPT !.at = "acceptance", !.launcher = FALSE, !.rest = FALSE])
      BY <1>1, <1>11, <2>1 DEF Terminate
    <3> QED BY <3>1
  <2>2. CASE run' = [run EXCEPT ![i] = [old EXCEPT !.at = "SIGKILL"]]
    <3>1. GoesOn(i, [old EXCEPT !.at = "SIGKILL"])
      BY <1>1, <1>11, <2>2 DEF Terminate
    <3> QED BY <3>1
  <2>3. ASSUME NEW launcher \in BOOLEAN, NEW rest \in BOOLEAN,
               NEW left \in LeaveBroker([old EXCEPT !.at = "raised", !.launcher = launcher, !.rest = rest]),
               run' = [run EXCEPT ![i] = left]
        PROVE  \E r : GoesOn(i, r)
    <3> DEFINE raised == [old EXCEPT !.at = "raised", !.launcher = launcher, !.rest = rest]
    <3>1. raised \in RunRecords /\ raised.at = "raised" /\ left \in LeaveBroker(raised)
      BY <1>1
    <3> HIDE DEF raised
    <3>2. left \in RunRecords /\ left.at = "raised" /\ (~left.auth \/ left.stuck)
      BY <3>1, BrokerLeft
    <3>3. GoesOn(i, left)
      BY <1>1, <1>11, <2>3, <3>2 DEF Terminate
    <3> QED BY <3>3
  <2>4. [Gone(old) EXCEPT !.at = "acceptance"] = [old EXCEPT !.at = "acceptance", !.launcher = FALSE, !.rest = FALSE]
    BY <1>1 DEF Gone
  <2> QED BY <1>11, <2>1, <2>2, <2>3, <2>4 DEF Terminate
<1>12. ASSUME NEW pass \in BOOLEAN, Accept(i, pass) PROVE \E r : GoesOn(i, r)
  <2> DEFINE tested == [old EXCEPT !.at = "finishing", !.tests = pass]
  <2>1. PICK left \in LeaveBroker(tested) : run' = [run EXCEPT ![i] = left]
    BY <1>12 DEF Accept
  <2>2. /\ tested \in RunRecords /\ tested.at = "finishing" /\ tested.eval = old.eval /\ tested.sandbox = old.sandbox
        /\ tested.timed = old.timed /\ tested.launcher = old.launcher /\ tested.rest = old.rest
    BY <1>1
  <2> HIDE DEF tested
  <2>3. /\ left \in RunRecords /\ left.at \in {"finishing", "raised"} /\ (~left.auth \/ left.stuck)
        /\ left.eval = old.eval /\ left.sandbox = old.sandbox
        /\ left.timed = old.timed /\ left.launcher = old.launcher /\ left.rest = old.rest
    BY <2>1, <2>2, BrokerLeft
  <2>4. GoesOn(i, left)
    BY <1>1, <1>12, <2>1, <2>3 DEF Accept
  <2> QED BY <2>4
<1> HIDE DEF GoesOn
<1> QED
  BY <1>2, <1>3, <1>4, <1>5, <1>6, <1>7, <1>8, <1>9, <1>10, <1>11, <1>12 DEF RunStep

(* What a run says when it ends, and its row.                              *)
Backed(row, eval, counted) ==
  (row.condition /\ On(row.mode)) =>
    /\ Len(eval) = IF Recalls(row.mode) THEN 3 ELSE 2
    /\ (eval[Len(eval)] = "success") <=> (row.accepted /\ ~row.timed)
    /\ Recalls(row.mode) => counted = row.useful
EndsWith(i, r, row) ==
  /\ r \in RunRecords /\ run' = [run EXCEPT ![i] = r] /\ UNCHANGED <<main, work, offset, summary>>
  /\ run[i].at = "finishing" /\ r.at = "ended" /\ i <= offset /\ Confined(r) /\ Contained(r)
  /\ row \in Rows /\ results' = Append(results, row) /\ row.run = i /\ row.mode = work[i] /\ Backed(row, r.eval, r.counted)

LEMMA TreatmentFacts ==
  ASSUME NEW m \in Modes, NEW o \in Outcomes
  PROVE  /\ Treatment(m) \in Evaluations /\ Append(Treatment(m), o) \in Evaluations
         /\ On(m) => Len(Append(Treatment(m), o)) = IF Recalls(m) THEN 3 ELSE 2
         /\ Append(Treatment(m), o)[Len(Append(Treatment(m), o))] = o
<1>1. CASE Treatment(m) = <<>>
  <2>1. Append(<<>>, o) = <<o>>
    OBVIOUS
  <2>2. ~On(m)
    BY <1>1 DEF Treatment
  <2> QED BY <1>1, <2>1, <2>2 DEF Treatment, Evaluations, Recalls, On, EvaluationMode
<1>2. CASE Treatment(m) = <<"start">>
  BY <1>2 DEF Treatment, Evaluations, Recalls, On, EvaluationMode
<1>3. CASE Treatment(m) = <<"start", "recall">>
  BY <1>3 DEF Treatment, Evaluations, Recalls, On, EvaluationMode
<1> QED BY <1>1, <1>2, <1>3 DEF Treatment

LEMMA JudgeFacts ==
  ASSUME BenchTypeOK, RunsInTurn, ModelConfined, NothingOutlivesTheBroker, NEW i \in Slots,
         NEW out \in Outputs, NEW changed \in SUBSET (Files \cup {"stray"}), NEW finished \in BOOLEAN,
         Judge(i, out, changed, finished)
  PROVE  \E r, row : EndsWith(i, r, row)
<1> DEFINE m == work[i]
           old == run[i]
           marked == MarkersPass(m, out, old.matches)
           useful == Useful(m, out, old.matches)
           pass == old.tests /\ ChangesPass(changed)
           returned == out.returned /\ ~old.timed
           outcome == Outcome(old, pass, marked, returned)
           counted == Counted(out.logged, On(m) /\ finished, useful)
           condition == FinishCondition(m, marked, finished) /\ RoundTrips(m, marked, counted, useful)
           row == [run |-> i, mode |-> m, condition |-> condition, success |-> returned /\ condition, useful |-> useful,
                   accepted |-> pass /\ condition, timed |-> old.timed, tokens |-> TotalTokens(out)]
           r == [old EXCEPT !.at = "ended", !.condition = condition, !.counted = counted,
                   !.eval = IF On(m) /\ finished THEN Append(@, outcome) ELSE @]
<1>1. run' = [run EXCEPT ![i] = r] /\ results' = Append(results, row) /\ old.at = "finishing" /\ UNCHANGED <<main, work, offset, summary>>
  BY DEF Judge, Becomes, MainRests, RunAt
<1>2. /\ i \in Nat \ {0} /\ offset \in Nat /\ offset <= Len(work) /\ Len(work) \in Nat /\ work \in Seq(Modes)
      /\ old \in RunRecords /\ Confined(old) /\ Contained(old)
  <2>1. /\ i \in Nat \ {0} /\ offset \in Nat /\ offset <= Len(work) /\ Len(work) \in Nat /\ work \in Seq(Modes)
        /\ run \in [Slots -> RunRecords]
    BY SlotsFacts DEF BenchTypeOK
  <2>2. Confined(old) /\ Contained(old)
    BY DEF ModelConfined, NothingOutlivesTheBroker, RunsInTurn, Confined, Contained
  <2> QED BY <2>1, <2>2
<1>3. i <= offset /\ old.eval = Treatment(m)
  BY <1>1, <1>2 DEF RunsInTurn
<1>4. m \in Modes
  BY <1>2, <1>3
<1>5. outcome \in Outcomes /\ (outcome = "success" <=> (~old.timed /\ pass /\ marked)) /\ condition \in BOOLEAN /\ (condition => marked)
  BY DEF Outcome, Outcomes, FinishCondition
<1>6. (condition /\ On(m) => finished) /\ (condition /\ Recalls(m) => counted = useful)
  BY <1>5 DEF FinishCondition, RoundTrips
<1>0. useful \in Nat /\ counted \in Nat \cup {Unknown}
  <2>1. out.ranks \in Seq(Nat) /\ out.logged \in Nat \cup {Unknown}
    BY BenchmarkAssumption
  <2>2. useful \in Nat
    BY <2>1 DEF Useful
  <2> HIDE DEF useful
  <2> QED BY <2>1, <2>2, BenchmarkAssumption DEF Counted
<1>7. Append(old.eval, outcome) \in Evaluations
  BY <1>3, <1>4, <1>5, TreatmentFacts
<1> HIDE DEF condition, outcome, marked, pass, counted, useful
<1>8. r \in RunRecords /\ r.at = "ended" /\ r.sandbox = old.sandbox /\ r.auth = old.auth /\ r.timed = old.timed
      /\ r.launcher = old.launcher /\ r.rest = old.rest
      /\ r.counted = counted /\ r.stuck = old.stuck
      /\ r.eval = (IF On(m) /\ finished THEN Append(old.eval, outcome) ELSE old.eval)
  <2>1. PICK eval : eval = IF On(m) /\ finished THEN Append(old.eval, outcome) ELSE old.eval
    OBVIOUS
  <2>2. eval \in Evaluations
    BY <1>2, <1>7, <2>1 DEF RunRecords
  <2>3. r = [old EXCEPT !.at = "ended", !.condition = condition, !.counted = counted, !.eval = eval]
    BY <1>2, <2>1 DEF RunRecords
  <2>4. condition \in BOOLEAN /\ counted \in Nat \cup {Unknown}
    BY <1>0, <1>5
  <2> HIDE DEF r
  <2> QED BY <1>2, <2>1, <2>2, <2>3, <2>4 DEF RunRecords, RunSteps
<1>9. Confined(r) /\ Contained(r)
  <2> HIDE DEF r
  <2> QED BY <1>1, <1>2, <1>8 DEF Confined, Contained, Running
<1>10. row \in Rows
  <2>1. (pass /\ condition) \in BOOLEAN /\ (returned /\ condition) \in BOOLEAN /\ old.timed \in BOOLEAN
    BY <1>2, <1>5 DEF RunRecords
  <2> QED BY <1>0, <1>4, <2>1, <1>5 DEF Rows
<1>11. Backed(row, r.eval, r.counted)
  <2>1. row.condition = condition /\ row.mode = m /\ row.accepted = (pass /\ condition) /\ row.timed = old.timed
        /\ row.useful = useful
    OBVIOUS
  <2> HIDE DEF row, r
  <2>2. condition /\ On(m) => r.eval = Append(Treatment(m), outcome)
    BY <1>3, <1>6, <1>8
  <2>3. /\ On(m) => Len(Append(Treatment(m), outcome)) = IF Recalls(m) THEN 3 ELSE 2
        /\ Append(Treatment(m), outcome)[Len(Append(Treatment(m), outcome))] = outcome
    BY <1>4, <1>5, TreatmentFacts
  <2>4. old.timed \in BOOLEAN
    BY <1>2 DEF RunRecords
  <2>5. SUFFICES ASSUME condition, On(m)
                 PROVE  /\ Len(r.eval) = IF Recalls(m) THEN 3 ELSE 2
                        /\ (r.eval[Len(r.eval)] = "success") <=> ((pass /\ condition) /\ ~old.timed)
    <3>1. r.counted = counted /\ (condition /\ Recalls(m) => counted = useful)
      BY <1>6, <1>8
    <3> QED BY <2>1, <3>1 DEF Backed
  <2> QED BY <2>2, <2>3, <2>4, <2>5, <1>5
<1>12. EndsWith(i, r, row)
  <2> HIDE DEF r
  <2>1. row.run = i /\ row.mode = work[i]
    OBVIOUS
  <2> HIDE DEF row
  <2> QED BY <1>1, <1>3, <1>8, <1>9, <1>10, <1>11, <2>1 DEF EndsWith
<1> QED BY <1>12
-------------------------------------------------------------------------------
(* The batches                                                             *)

(* A sum is of what is added up, by whatever name it goes.                 *)
LEMMA SumCongruence ==
  ASSUME NEW f, NEW g, NEW S, \A x \in S : f[x] = g[x]
  PROVE  SumOf(f, S) = SumOf(g, S)
<1> DEFINE pick(s) == CHOOSE x \in s : TRUE
           Body(h, it) == [s \in SUBSET S |-> IF s = {} THEN 0 ELSE h[pick(s)] + it[s \ {pick(s)}]]
<1>1. \A it : Body(f, it) = Body(g, it)
  <2>1. \A s \in SUBSET S : s # {} => pick(s) \in S
    OBVIOUS
  <2> HIDE DEF pick
  <2>2. \A s \in SUBSET S : s # {} => f[pick(s)] = g[pick(s)]
    BY <2>1
  <2> QED BY <2>2
<1>2. (CHOOSE it : it = Body(f, it)) = (CHOOSE it : it = Body(g, it))
  <2> HIDE DEF Body
  <2> QED BY <1>1
<1>3. SumOf(f, S) = (CHOOSE it : it = Body(f, it))[S]
  BY DEF SumOf, MapThenSumSet, MapThenFoldSet
<1>4. SumOf(g, S) = (CHOOSE it : it = Body(g, it))[S]
  BY DEF SumOf, MapThenSumSet, MapThenFoldSet
<1> QED BY <1>2, <1>3, <1>4

(* Rows that are not touched cost what they cost.                          *)
LEMMA WithinKept ==
  ASSUME NEW S, S \subseteq DOMAIN results, \A k \in S : k \in DOMAIN results' /\ results'[k] = results[k], Within(S)
  PROVE  Within(S)'
<1>1. \A k \in S : Cost'[k] = Cost[k]
  BY DEF Cost
<1>2. Accounted(S)' = Accounted(S)
  <2>1. SumOf(Cost', S) = SumOf(Cost, S)
    BY <1>1, SumCongruence
  <2>2. Accounted(S) = SumOf(Cost, S) /\ Accounted(S)' = SumOf(Cost', S)
    BY DEF Accounted
  <2> QED BY <2>1, <2>2
<1> QED BY <1>2 DEF Within, Oversized

LEMMA DivFacts ==
  ASSUME NEW q \in Nat, NEW p \in Nat \ {0}, NEW n \in Int
  PROVE  (n \div p = q) <=> (q * p <= n /\ n < q * p + p)
OBVIOUS

LEMMA QuotientOf ==
  ASSUME NEW q \in Nat, NEW p \in Nat \ {0}, NEW a \in Nat, NEW b \in Nat, a = q * p, a < b, b <= a + p
  PROVE  /\ (b - 1) \div p = q
         /\ \A i \in 1 .. b : ((i - 1) \div p = q) <=> i > a
<1>1. q * p \in Nat /\ q * p <= b - 1 /\ b - 1 < q * p + p
  OBVIOUS
<1>2. (b - 1) \div p = q
  BY <1>1, DivFacts
<1>3. ASSUME NEW i \in 1 .. b PROVE ((i - 1) \div p = q) <=> i > a
  <2>1. ((i - 1) \div p = q) <=> (q * p <= i - 1 /\ i - 1 < q * p + p)
    BY DivFacts
  <2> QED BY <1>1, <2>1
<1> QED BY <1>2, <1>3

(* A batch that is handed out begins where the one before it ended.        *)
LEMMA SubmitFacts ==
  ASSUME BenchTypeOK, BatchesInTurn, Submit
  PROVE  /\ offset' \in Nat /\ offset < offset' /\ offset' <= Len(work)
         /\ offset' = Len(work) \/ \E q \in Nat : offset' = q * Parallelism
         /\ \A i \in 1 .. offset' : i \in Batch' <=> i > offset
<1>1. offset \in Nat /\ Len(work) \in Nat /\ Parallelism \in Nat \ {0} /\ offset < Len(work)
  BY SlotsFacts, BenchmarkAssumption DEF Submit
<1>2. PICK q \in Nat : offset = q * Parallelism
  BY <1>1 DEF BatchesInTurn
<1>3. offset' \in {offset + Parallelism, Len(work)} /\ offset' <= offset + Parallelism /\ offset' <= Len(work)
  <2> DEFINE n == IF offset + Parallelism <= Len(work) THEN offset + Parallelism ELSE Len(work)
             ends == {offset + Parallelism, Len(work)}
  <2>1. n \in ends /\ \A y \in ends : n <= y
    BY <1>1
  <2>2. \A x \in ends : (\A y \in ends : x <= y) => x = n
    BY <1>1
  <2>3. Min(ends) = n
    <3> HIDE DEF n, ends
    <3> QED BY <2>1, <2>2 DEF Min
  <2>4. offset' = Min(ends)
    BY DEF Submit
  <2> HIDE DEF ends
  <2>5. offset' = n
    BY <2>3, <2>4
  <2> QED BY <1>1, <2>5
<1>4. offset + Parallelism = (q + 1) * Parallelism /\ q + 1 \in Nat
  BY <1>1, <1>2
<1>5. offset < offset' /\ offset' \in Nat
  BY <1>1, <1>3
<1>6. /\ (offset' - 1) \div Parallelism = q
      /\ \A i \in 1 .. offset' : ((i - 1) \div Parallelism = q) <=> i > offset
  <2>1. q \in Nat /\ Parallelism \in Nat \ {0} /\ offset \in Nat /\ offset' \in Nat
    BY <1>1, <1>2, <1>5
  <2>2. offset = q * Parallelism /\ offset < offset' /\ offset' <= offset + Parallelism
    BY <1>2, <1>3, <1>5
  <2>3. PICK a, b : a = offset /\ b = offset'
    OBVIOUS
  <2>4. q \in Nat /\ Parallelism \in Nat \ {0} /\ a \in Nat /\ b \in Nat
    BY <2>1, <2>3
  <2>5. a = q * Parallelism /\ a < b /\ b <= a + Parallelism
    BY <2>2, <2>3
  <2>6. /\ (b - 1) \div Parallelism = q
        /\ \A i \in 1 .. b : ((i - 1) \div Parallelism = q) <=> i > a
    BY <2>4, <2>5, QuotientOf
  <2> QED BY <2>3, <2>6
<1>7. \A i \in 1 .. offset' : i \in Batch' <=> i > offset
  BY <1>6 DEF Batch
<1> QED BY <1>1, <1>3, <1>4, <1>5, <1>7

(* The cardinalities of a summary fit each other.                          *)
LEMMA SummaryFits ==
  ASSUME NEW rows \in Seq(Rows)
  PROVE  /\ Exportable(Summarized(rows))
         /\ \A m \in DOMAIN Summarized(rows) : Summarized(rows)[m].evidence \in {0, Summarized(rows)[m].size}
<1> SUFFICES ASSUME NEW m \in Modes
             PROVE  LET s == Summarized(rows)[m] IN s.tokens <= s.size /\ s.accepted <= s.evidence /\ s.evidence \in {0, s.size}
  BY DEF Exportable, Summarized, Modes
<1> DEFINE mine == {k \in DOMAIN rows : rows[k].mode = m}
           whole == mine # {} /\ \A k \in mine : rows[k].condition
           evidence == IF whole THEN mine ELSE {}
           accepted == {k \in evidence : rows[k].accepted}
           metered == Metered(rows, evidence)
<1>1. IsFiniteSet(mine)
  <2>1. IsFiniteSet(1 .. Len(rows)) /\ mine \subseteq 1 .. Len(rows)
    BY FS_Interval
  <2> QED BY <2>1, FS_Subset
<1>2. evidence \subseteq mine /\ accepted \subseteq evidence /\ metered \subseteq mine
  BY DEF Metered
<1>3. Cardinality(metered) <= Cardinality(mine)
  BY <1>1, <1>2, FS_Subset
<1>4. Cardinality(accepted) <= Cardinality(evidence)
  BY <1>1, <1>2, FS_Subset
<1>5. Cardinality(evidence) \in {0, Cardinality(mine)}
  BY FS_EmptySet
<1>6. LET s == Summarized(rows)[m] IN
      s.size = Cardinality(mine) /\ s.evidence = Cardinality(evidence) /\ s.accepted = Cardinality(accepted) /\ s.tokens = Cardinality(metered)
  BY DEF Summarized, ModeSummary, Modes
<1> QED BY <1>3, <1>4, <1>5, <1>6

(* Each planned run has its row in the summary, and only one.              *)
LEMMA SummaryCounts ==
  ASSUME BenchTypeOK, OneRowEach, \A i \in DOMAIN work : run[i].at = "ended", NEW m \in Modes
  PROVE  Summarized(results)[m].size = Cardinality({i \in DOMAIN work : work[i] = m})
<1> DEFINE mine == {k \in DOMAIN results : results[k].mode = m}
           planned == {i \in DOMAIN work : work[i] = m}
           f == [k \in mine |-> results[k].run]
<1>1. IsFiniteSet(mine)
  <2>1. IsFiniteSet(1 .. Len(results)) /\ mine \subseteq 1 .. Len(results)
    BY FS_Interval DEF BenchTypeOK
  <2> QED BY <2>1, FS_Subset
<1>2. ExistsBijection(mine, planned)
  <2>1. \A k \in mine : f[k] \in planned
    <3> SUFFICES ASSUME NEW k \in mine PROVE results[k].run \in planned
      OBVIOUS
    <3>1. results[k].run \in Slots /\ results[k].run <= offset /\ work[results[k].run] = m
      <4>1. k \in DOMAIN results /\ results[k].mode = m
        OBVIOUS
      <4>2. results[k] \in Rows
        BY <4>1 DEF BenchTypeOK
      <4> QED BY <4>1, <4>2 DEF OneRowEach, Rows
    <3>2. results[k].run \in DOMAIN work
      BY <3>1, SlotsFacts DEF BenchTypeOK
    <3> QED BY <3>1, <3>2
  <2>2. \A j, k \in mine : f[j] = f[k] => j = k
    BY DEF OneRowEach
  <2>3. \A i \in planned : \E k \in mine : f[k] = i
    <3> SUFFICES ASSUME NEW i \in planned PROVE \E k \in mine : results[k].run = i
      OBVIOUS
    <3>1. i \in Slots
      BY SlotsFacts
    <3>2. PICK k \in DOMAIN results : results[k].run = i
      BY <3>1 DEF OneRowEach
    <3> QED BY <3>2 DEF OneRowEach
  <2>4. f \in Bijection(mine, planned)
    BY <2>1, <2>2, <2>3 DEF Bijection, Injection, Surjection, IsInjective
  <2> QED BY <2>4 DEF ExistsBijection
<1>3. Cardinality(mine) = Cardinality(planned)
  BY <1>1, <1>2, FS_Bijection
<1> QED BY <1>3 DEF Summarized, ModeSummary, Modes
-------------------------------------------------------------------------------
(* The invariant                                                           *)

LEMMA RowFacts == BenchTypeOK => \A k \in DOMAIN results : results[k] \in Rows /\ results[k].run \in Slots
<1> SUFFICES ASSUME BenchTypeOK, NEW k \in DOMAIN results PROVE results[k] \in Rows /\ results[k].run \in Slots
  OBVIOUS
<1>1. results[k] \in Rows
  BY DEF BenchTypeOK
<1> QED BY <1>1 DEF Rows

(* A step of a run that goes on is the run's own.                          *)
LEMMA GoesOnKeeps ==
  ASSUME BenchInv, NEW i \in Slots, NEW r, GoesOn(i, r)
  PROVE  BenchInv'
<1>1. /\ BenchTypeOK /\ RunsInTurn /\ BatchesInTurn /\ OneRowEach /\ i \in Nat \ {0} /\ offset \in Nat
      /\ \A k \in DOMAIN results : results[k] \in Rows /\ results[k].run \in Slots
  BY SlotsFacts, RowFacts DEF BenchInv
<1>2. /\ run' \in [Slots -> RunRecords] /\ run'[i] = r /\ \A j \in Slots \ {i} : run'[j] = run[j]
      /\ r \in RunRecords /\ UNCHANGED <<main, work, offset, summary, results>>
  BY <1>1 DEF BenchTypeOK, GoesOn
<1>3. \A j \in Slots : run[j].at = "ended" => run'[j] = run[j]
  BY <1>2 DEF GoesOn
<1>4. \A j \in Slots : run'[j].at = "ended" => run[j].at = "ended"
  BY <1>2 DEF GoesOn
<1>5. BenchTypeOK'
  BY <1>1, <1>2 DEF BenchTypeOK
<1>6. RunsInTurn' /\ ModelConfined' /\ NothingOutlivesTheBroker'
  <2>1. \A j \in Slots : Confined(run'[j]) /\ Contained(run'[j]) /\ InTreatment(j, run'[j])
    <3>1. \A j \in Slots : Confined(run[j]) /\ Contained(run[j]) /\ InTreatment(j, run[j])
      BY DEF BenchInv, RunsInTurn, ModelConfined, NothingOutlivesTheBroker, Confined, Contained, InTreatment
    <3>2. Confined(r) /\ Contained(r) /\ InTreatment(i, r)
      BY DEF GoesOn
    <3> QED BY <1>2, <3>1, <3>2
  <2>2. \A j \in Slots : j > offset => run'[j].at = "waiting"
    BY <1>1, <1>2 DEF GoesOn, RunsInTurn
  <2> QED BY <1>2, <2>1, <2>2 DEF RunsInTurn, ModelConfined, NothingOutlivesTheBroker, Confined, Contained, InTreatment
<1>7. BatchesInTurn'
  <2>1. Batch' = Batch
    BY <1>2 DEF Batch
  <2>2. \A j \in 1 .. offset : j \in Batch \/ run'[j].at = "ended"
    <3>1. \A j \in 1 .. offset : j \in Slots
      BY SlotsFacts, <1>1 DEF BenchTypeOK
    <3> QED BY <1>1, <1>3, <3>1 DEF BatchesInTurn
  <2>3. ASSUME main = "running", offset > 0
        PROVE  Within({k \in DOMAIN results : results[k].run \notin Batch})'
    <3>1. PICK S : S = {k \in DOMAIN results : results[k].run \notin Batch}
      OBVIOUS
    <3>2. {k \in DOMAIN results : results[k].run \notin Batch}' = S
      BY <1>2, <2>1, <3>1
    <3>3. Within(S)
      BY <1>1, <2>3, <3>1 DEF BatchesInTurn
    <3>4. Within(S)'
      BY <1>2, <3>1, <3>3, WithinKept
    <3> QED BY <3>2, <3>4
  <2>4. offset' = Len(work)' \/ \E q \in Nat : offset' = q * Parallelism
    BY <1>1, <1>2 DEF BatchesInTurn
  <2> QED BY <1>1, <1>2, <2>1, <2>2, <2>3, <2>4 DEF BatchesInTurn
<1>8. OneRowEach'
  BY <1>1, <1>2, <1>3, <1>4 DEF OneRowEach
<1>9. RowsBacked'
  <2>1. \A k \in DOMAIN results : run'[results[k].run] = run[results[k].run]
    BY <1>1, <1>3 DEF OneRowEach
  <2> QED BY <1>2, <2>1 DEF BenchInv, RowsBacked
<1>10. DoneWhole'
  <2>1. main # "done"
    BY <1>1 DEF GoesOn, BenchInv, DoneWhole
  <2> QED BY <1>2, <2>1 DEF DoneWhole
<1>11. Summaries'
  BY <1>2 DEF BenchInv, Summaries
<1> QED BY <1>5, <1>6, <1>7, <1>8, <1>9, <1>10, <1>11 DEF BenchInv

(* A run that ends has its row, and its log backs the row.                 *)
LEMMA EndKeeps ==
  ASSUME BenchInv, NEW i \in Slots, NEW r, NEW row, EndsWith(i, r, row)
  PROVE  BenchInv'
<1>1. /\ BenchTypeOK /\ RunsInTurn /\ BatchesInTurn /\ OneRowEach /\ i \in Nat \ {0} /\ offset \in Nat
      /\ \A k \in DOMAIN results : results[k] \in Rows /\ results[k].run \in Slots
  BY SlotsFacts, RowFacts DEF BenchInv
<1>2. /\ run' \in [Slots -> RunRecords] /\ run'[i] = r /\ \A j \in Slots \ {i} : run'[j] = run[j]
      /\ r \in RunRecords /\ UNCHANGED <<main, work, offset, summary>>
      /\ run[i].at = "finishing" /\ r.at = "ended" /\ i <= offset
      /\ row \in Rows /\ row.run = i /\ row.mode = work[i]
  BY <1>1 DEF BenchTypeOK, EndsWith
<1> DEFINE n == Len(results)
<1>3. /\ results' \in Seq(Rows) /\ n \in Nat /\ DOMAIN results = 1 .. n /\ DOMAIN results' = 1 .. n + 1
      /\ results'[n + 1] = row /\ \A k \in 1 .. n : results'[k] = results[k]
  BY <1>1, <1>2 DEF EndsWith, BenchTypeOK
<1>4. \A k \in DOMAIN results : results[k].run # i /\ run'[results[k].run] = run[results[k].run]
  BY <1>1, <1>2 DEF OneRowEach
<1>5. BenchTypeOK'
  BY <1>1, <1>2, <1>3 DEF BenchTypeOK
<1>6. RunsInTurn' /\ ModelConfined' /\ NothingOutlivesTheBroker'
  <2>1. \A j \in Slots : Confined(run'[j]) /\ Contained(run'[j]) /\ InTreatment(j, run'[j])
    <3>1. \A j \in Slots : Confined(run[j]) /\ Contained(run[j]) /\ InTreatment(j, run[j])
      BY DEF BenchInv, RunsInTurn, ModelConfined, NothingOutlivesTheBroker, Confined, Contained, InTreatment
    <3>2. Confined(r) /\ Contained(r) /\ InTreatment(i, r)
      BY <1>2 DEF EndsWith, InTreatment
    <3> QED BY <1>2, <3>1, <3>2
  <2>2. \A j \in Slots : j > offset => run'[j].at = "waiting"
    BY <1>1, <1>2 DEF RunsInTurn
  <2> QED BY <1>2, <2>1, <2>2 DEF RunsInTurn, ModelConfined, NothingOutlivesTheBroker, Confined, Contained, InTreatment
<1>7. BatchesInTurn'
  <2>1. Batch' = Batch /\ i \in Batch
    BY <1>1, <1>2 DEF Batch, BatchesInTurn
  <2>2. \A j \in 1 .. offset : j \in Batch \/ run'[j].at = "ended"
    <3>1. \A j \in 1 .. offset : j \in Slots
      BY SlotsFacts, <1>1 DEF BenchTypeOK
    <3> QED BY <1>1, <1>2, <3>1 DEF BatchesInTurn
  <2>3. ASSUME main = "running", offset > 0
        PROVE  Within({k \in DOMAIN results : results[k].run \notin Batch})'
    <3>1. PICK S : S = {k \in DOMAIN results : results[k].run \notin Batch}
      OBVIOUS
    <3>2. {k \in DOMAIN results : results[k].run \notin Batch}' = S
      BY <1>2, <1>3, <2>1, <3>1
    <3>3. Within(S)
      BY <1>1, <2>3, <3>1 DEF BatchesInTurn
    <3>4. Within(S)'
      BY <1>3, <3>1, <3>3, WithinKept
    <3> QED BY <3>2, <3>4
  <2>4. (main' = "running" /\ offset' > 0) => Within({k \in DOMAIN results : results[k].run \notin Batch})'
    BY <1>2, <2>3
  <2>5. offset' = Len(work)' \/ \E q \in Nat : offset' = q * Parallelism
    BY <1>1, <1>2 DEF BatchesInTurn
  <2>6. (main' = "planned" => offset' = 0) /\ \A j \in 1 .. offset' : j \in Batch' \/ run'[j].at = "ended"
    BY <1>1, <1>2, <2>1, <2>2 DEF BatchesInTurn
  <2> QED BY <2>4, <2>5, <2>6 DEF BatchesInTurn
<1>8. OneRowEach'
  <2>1. \A k \in DOMAIN results' : run'[results'[k].run].at = "ended" /\ results'[k].mode = work'[results'[k].run] /\ results'[k].run <= offset'
    BY <1>1, <1>2, <1>3, <1>4 DEF OneRowEach
  <2>2. \A j, k \in DOMAIN results' : results'[j].run = results'[k].run => j = k
    BY <1>1, <1>2, <1>3, <1>4 DEF OneRowEach
  <2>3. ASSUME NEW j \in Slots, run'[j].at = "ended" PROVE \E k \in DOMAIN results' : results'[k].run = j
    <3>1. CASE j = i
      <4>1. n + 1 \in DOMAIN results'
        BY <1>3
      <4> QED BY <1>2, <1>3, <3>1, <4>1
    <3>2. CASE j # i
      <4>1. PICK k \in DOMAIN results : results[k].run = j
        BY <1>1, <1>2, <2>3, <3>2 DEF OneRowEach
      <4>2. k \in DOMAIN results' /\ results'[k] = results[k]
        BY <1>3
      <4> QED BY <4>1, <4>2
    <3> QED BY <3>1, <3>2
  <2> QED BY <2>1, <2>2, <2>3 DEF OneRowEach
<1>9. RowsBacked'
  <2>1. \A k \in DOMAIN results : Backed(results[k], run[results[k].run].eval, run[results[k].run].counted)
    BY DEF BenchInv, RowsBacked, Backed
  <2>2. Backed(row, r.eval, r.counted)
    BY DEF EndsWith
  <2>3. \A k \in DOMAIN results' : Backed(results'[k], run'[results'[k].run].eval, run'[results'[k].run].counted)
    BY <1>2, <1>3, <1>4, <2>1, <2>2
  <2> QED BY <2>3 DEF RowsBacked, Backed
<1>10. DoneWhole'
  <2>1. main # "done"
    BY <1>1, <1>2 DEF BenchInv, DoneWhole
  <2> QED BY <1>2, <2>1 DEF DoneWhole
<1>11. Summaries'
  BY <1>2 DEF BenchInv, Summaries
<1> QED BY <1>5, <1>6, <1>7, <1>8, <1>9, <1>10, <1>11 DEF BenchInv
-------------------------------------------------------------------------------
(* main between the batches                                                *)

(* What no step of main changes.                                           *)
LEMMA MainKeeps ==
  ASSUME BenchInv, UNCHANGED <<work, run, results>>, main' \in {"planned", "running", "refused", "failed", "done", "died"},
         offset' \in 0 .. Len(work), offset <= offset'
  PROVE  /\ BenchTypeOK' /\ RunsInTurn' /\ ModelConfined' /\ NothingOutlivesTheBroker' /\ OneRowEach' /\ RowsBacked'
         /\ \A S : Within(S)' = Within(S)
<1>1. BenchTypeOK' /\ offset \in Nat /\ offset' \in Nat /\ Slots \subseteq Nat
  BY SlotsFacts DEF BenchInv, BenchTypeOK
<1>2. RunsInTurn'
  BY <1>1 DEF BenchInv, RunsInTurn
<1>3. OneRowEach'
  <2>1. \A k \in DOMAIN results : results[k].run \in Nat
    BY <1>1, RowFacts DEF BenchInv
  <2> QED BY <1>1, <2>1 DEF BenchInv, OneRowEach
<1>4. ModelConfined' /\ NothingOutlivesTheBroker' /\ RowsBacked'
  BY DEF BenchInv, ModelConfined, NothingOutlivesTheBroker, RowsBacked
<1>5. Cost' = Cost
  BY DEF Cost
<1>6. \A S : Within(S)' = Within(S)
  BY <1>5 DEF Within, Oversized, Accounted
<1> QED BY <1>1, <1>2, <1>3, <1>4, <1>6

LEMMA PlanKeeps == BenchInv /\ (Plan \/ MainFails \/ MainDies \/ SummarizeCommand) => BenchInv'
<1> SUFFICES ASSUME BenchInv, Plan \/ MainFails \/ MainDies \/ SummarizeCommand PROVE BenchInv'
  OBVIOUS
<1>1. /\ UNCHANGED <<work, run, results, offset>> /\ main' \in {"planned", "running", "refused", "failed", "done", "died"}
      /\ main' # main => main' # "done" /\ (main' = "running" => offset = 0)
      /\ main' # "planned" \/ main = "planned"
      /\ summary' \in {summary, Summarized(results)} /\ (summary' # summary => summary' = Summarized(results))
      /\ offset \in Nat /\ offset \in 0 .. Len(work)
  BY SlotsFacts DEF BenchInv, BenchTypeOK, BatchesInTurn, Plan, MainFails, MainDies, SummarizeCommand
<1>2. /\ BenchTypeOK' /\ RunsInTurn' /\ ModelConfined' /\ NothingOutlivesTheBroker' /\ OneRowEach' /\ RowsBacked'
      /\ \A S : Within(S)' = Within(S)
  BY <1>1, MainKeeps
<1>3. Batch' = Batch /\ Summarized(results)' = Summarized(results)
  <2>1. Batch' = Batch
    BY <1>1 DEF Batch
  <2>2. Summarized(results)' = Summarized(results)
    BY <1>1
  <2> QED BY <2>1, <2>2
<1>4. BatchesInTurn'
  <2>1. {k \in DOMAIN results : results[k].run \notin Batch}' = {k \in DOMAIN results : results[k].run \notin Batch}
    BY <1>1, <1>3
  <2> QED BY <1>1, <1>2, <1>3, <2>1 DEF BenchInv, BatchesInTurn
<1>5. DoneWhole'
  BY <1>1, <1>2, <1>3 DEF BenchInv, DoneWhole
<1>6. Summaries'
  <2>1. results \in Seq(Rows)
    BY DEF BenchInv, BenchTypeOK
  <2> QED BY <1>1, <2>1 DEF BenchInv, Summaries
<1> QED BY <1>2, <1>4, <1>5, <1>6 DEF BenchInv

(* The next batch is handed out over rows that are within the ceilings.    *)
LEMMA SubmitKeeps == BenchInv /\ Submit => BenchInv'
<1> SUFFICES ASSUME BenchInv, Submit PROVE BenchInv'
  OBVIOUS
<1>1. /\ UNCHANGED <<work, run, results, main, summary>> /\ main = "running"
      /\ offset \in Nat /\ offset' \in Nat /\ offset < offset' /\ offset' \in 0 .. Len(work)
      /\ offset' = Len(work) \/ \E q \in Nat : offset' = q * Parallelism
      /\ \A i \in 1 .. offset' : i \in Batch' <=> i > offset
      /\ MayGoOn
  <2>1. /\ UNCHANGED <<work, run, results, main, summary>> /\ main = "running" /\ MayGoOn
    BY DEF Submit
  <2>2. offset \in Nat /\ Len(work) \in Nat
    BY SlotsFacts DEF BenchInv
  <2>3. /\ offset' \in Nat /\ offset < offset' /\ offset' <= Len(work)
        /\ offset' = Len(work) \/ \E q \in Nat : offset' = q * Parallelism
        /\ \A i \in 1 .. offset' : i \in Batch' <=> i > offset
    BY SubmitFacts DEF BenchInv
  <2>4. offset' \in 0 .. Len(work)
    BY <2>2, <2>3
  <2> QED BY <2>1, <2>2, <2>3, <2>4
<1>2. /\ BenchTypeOK' /\ RunsInTurn' /\ ModelConfined' /\ NothingOutlivesTheBroker' /\ OneRowEach' /\ RowsBacked'
      /\ \A S : Within(S)' = Within(S)
  BY <1>1, MainKeeps
<1>3. \A i \in 1 .. offset : run[i].at = "ended"
  BY <1>1 DEF BenchInv, BatchesInTurn, MayGoOn, RunAt
<1>4. BatchesInTurn'
  <2>1. \A k \in DOMAIN results : results[k].run \in 1 .. offset
    BY <1>1, RowFacts, SlotsFacts DEF BenchInv, OneRowEach
  <2>2. {k \in DOMAIN results : results[k].run \notin Batch}' = DOMAIN results
    <3>1. \A k \in DOMAIN results : results[k].run \notin Batch'
      BY <1>1, <2>1
    <3> QED BY <1>1, <3>1
  <2>3. Within(DOMAIN results)
    BY <1>1 DEF MayGoOn, Within
  <2>4. Within({k \in DOMAIN results : results[k].run \notin Batch})'
    BY <1>2, <2>2, <2>3
  <2>5. \A i \in 1 .. offset' : i \in Batch' \/ run'[i].at = "ended"
    BY <1>1, <1>3
  <2> QED BY <1>1, <2>4, <2>5 DEF BatchesInTurn
<1>5. DoneWhole' /\ Summaries'
  BY <1>1 DEF BenchInv, DoneWhole, Summaries
<1> QED BY <1>2, <1>4, <1>5 DEF BenchInv

LEMMA FinishKeeps == BenchInv /\ Finish => BenchInv'
<1> SUFFICES ASSUME BenchInv, Finish PROVE BenchInv'
  OBVIOUS
<1>1. /\ UNCHANGED <<work, run, results, offset>> /\ main' \in {"done", "failed"} /\ offset = Len(work)
      /\ IF main' = "done" THEN summary' = Summarized(results) ELSE UNCHANGED summary
      /\ offset \in Nat /\ offset \in 0 .. Len(work) /\ MayGoOn
  BY SlotsFacts DEF BenchInv, BenchTypeOK, Finish
<1>2. /\ BenchTypeOK' /\ RunsInTurn' /\ ModelConfined' /\ NothingOutlivesTheBroker' /\ OneRowEach' /\ RowsBacked'
      /\ \A S : Within(S)' = Within(S)
  BY <1>1, MainKeeps
<1>3. Batch' = Batch /\ Summarized(results)' = Summarized(results)
  <2>1. Batch' = Batch
    BY <1>1 DEF Batch
  <2>2. Summarized(results)' = Summarized(results)
    BY <1>1
  <2> QED BY <2>1, <2>2
<1>4. BatchesInTurn'
  BY <1>1, <1>3 DEF BenchInv, BatchesInTurn
<1>5. DoneWhole'
  <2>1. \A i \in 1 .. offset : run[i].at = "ended"
    BY <1>1 DEF BenchInv, BatchesInTurn, MayGoOn, RunAt
  <2>2. Within(DOMAIN results)'
    BY <1>1, <1>2 DEF MayGoOn, Within
  <2> QED BY <1>1, <1>3, <2>1, <2>2 DEF DoneWhole
<1>6. Summaries'
  <2>1. results \in Seq(Rows)
    BY DEF BenchInv, BenchTypeOK
  <2> QED BY <1>1, <2>1 DEF BenchInv, Summaries
<1> QED BY <1>2, <1>4, <1>5, <1>6 DEF BenchInv
-------------------------------------------------------------------------------
LEMMA InitBenchInv == BenchInit => BenchInv
<1> SUFFICES ASSUME BenchInit PROVE BenchInv
  OBVIOUS
<1>1. main = "planned" /\ offset = 0 /\ results = <<>> /\ summary = None /\ run = [i \in Slots |-> Fresh] /\ work \in Plans
  BY DEF BenchInit
<1>2. Fresh \in RunRecords /\ Fresh.at = "waiting" /\ ~Fresh.auth /\ ~Fresh.timed
  <2>1. Fresh.sandbox \in Sandboxes /\ 0 \in 0 .. MaxMatches
    BY BenchmarkAssumption DEF Sandboxes
  <2>2. <<>> \in Evaluations
    BY DEF Evaluations
  <2> QED BY <2>1, <2>2 DEF RunRecords, RunSteps, Fresh
<1>3. BenchTypeOK
  BY <1>1, <1>2, BenchmarkAssumption DEF BenchTypeOK
<1>4. RunsInTurn /\ ModelConfined /\ NothingOutlivesTheBroker
  BY <1>1, <1>2 DEF RunsInTurn, ModelConfined, NothingOutlivesTheBroker, Running
<1>5. BatchesInTurn
  <2>1. 0 = 0 * Parallelism
    BY BenchmarkAssumption
  <2> QED BY <1>1, <2>1 DEF BatchesInTurn
<1>6. OneRowEach /\ RowsBacked
  BY <1>1, <1>2 DEF OneRowEach, RowsBacked
<1>7. DoneWhole /\ Summaries
  BY <1>1 DEF DoneWhole, Summaries
<1> QED BY <1>3, <1>4, <1>5, <1>6, <1>7 DEF BenchInv

LEMMA BenchInvStep == BenchInv /\ [BenchNext]_benchVars => BenchInv'
<1> SUFFICES ASSUME BenchInv, [BenchNext]_benchVars PROVE BenchInv'
  OBVIOUS
<1>0. BenchTypeOK /\ RunsInTurn /\ ModelConfined /\ NothingOutlivesTheBroker
  BY DEF BenchInv
<1>1. ASSUME NEW i \in Slots, RunStep(i) PROVE BenchInv'
  <2>1. CASE \E out \in Outputs, changed \in SUBSET (Files \cup {"stray"}), finished \in BOOLEAN : Judge(i, out, changed, finished)
    BY <1>0, <2>1, JudgeFacts, EndKeeps
  <2>2. CASE \A out \in Outputs, changed \in SUBSET (Files \cup {"stray"}), finished \in BOOLEAN : ~Judge(i, out, changed, finished)
    BY <1>0, <1>1, <2>2, RunStepFacts, GoesOnKeeps
  <2> QED BY <2>1, <2>2
<1>2. CASE Plan \/ MainFails \/ MainDies \/ SummarizeCommand
  BY <1>2, PlanKeeps
<1>3. CASE Submit
  BY <1>3, SubmitKeeps
<1>4. CASE Finish
  BY <1>4, FinishKeeps
<1>5. CASE UNCHANGED benchVars
  <2>1. BenchTypeOK' /\ RunsInTurn' /\ ModelConfined' /\ NothingOutlivesTheBroker' /\ OneRowEach' /\ RowsBacked'
    BY <1>5 DEF benchVars, BenchInv, BenchTypeOK, RunsInTurn, ModelConfined, NothingOutlivesTheBroker, OneRowEach, RowsBacked
  <2>2. Batch' = Batch /\ Cost' = Cost
    BY <1>5 DEF benchVars, Batch, Cost
  <2>3. BatchesInTurn' /\ DoneWhole' /\ Summaries'
    BY <1>5, <2>2 DEF benchVars, BenchInv, BatchesInTurn, DoneWhole, Summaries, Within, Oversized, Accounted
  <2> QED BY <2>1, <2>3 DEF BenchInv
<1> QED BY <1>1, <1>2, <1>3, <1>4, <1>5 DEF BenchNext

LEMMA BenchInvHolds == Spec => []BenchInv
BY InitBenchInv, BenchInvStep, PTL DEF Spec

(* What a benchmark hands to a model, the tests that judge it, credentials, *)
(* the network, is out of the model's reach on any host.  Whatever step of a *)
(* run raises, no copy of the credentials is left but one that could not be *)
(* removed, and after a timeout the acceptance and the accounting find the  *)
(* model's process group ended; a descendant in a session of its own, and   *)
(* what a killed main leaves, are not of this (_verify_sandbox_profiles,    *)
(* _isolated_codex_home, _model_process_tree).                              *)
THEOREM ModelIsContained == Spec => []ModelContained
<1>1. BenchInv => ModelContained
  BY DEF BenchInv, ModelContained
<1> QED BY <1>1, BenchInvHolds, PTL

(* No model is at work after a batch that broke a ceiling, for every number *)
(* of threads, every plan and every ceiling (run, the accounting between    *)
(* batches).                                                                *)
THEOREM CeilingsAreHeld == Spec => []CeilingsHold
<1>1. BenchInv => CeilingsHold
  <2> SUFFICES ASSUME BenchInv, main \in {"running", "done"}, main = "done" \/ \E i \in Batch : run[i].launcher
               PROVE  LET before == {k \in DOMAIN results : main = "done" \/ results[k].run \notin Batch} IN
                      ~Oversized(before) /\ Accounted(before) <= MaxTotalTokens
    BY DEF CeilingsHold
  <2>1. CASE main = "done"
    <3>1. {k \in DOMAIN results : main = "done" \/ results[k].run \notin Batch} = DOMAIN results
      BY <2>1
    <3> QED BY <2>1, <3>1 DEF BenchInv, DoneWhole, Within
  <2>2. CASE main = "running" /\ \E i \in Batch : run[i].launcher
    <3>1. offset > 0
      BY <2>2, SlotsFacts DEF BenchInv, Batch
    <3>2. {k \in DOMAIN results : main = "done" \/ results[k].run \notin Batch} = {k \in DOMAIN results : results[k].run \notin Batch}
      BY <2>2
    <3> QED BY <2>2, <3>1, <3>2 DEF BenchInv, BatchesInTurn, Within
  <2> QED BY <2>1, <2>2
<1> QED BY <1>1, BenchInvHolds, PTL

(* Nothing is summarised that no run did: a row that claims its treatment   *)
(* has the evaluation log for it, and the summary of a finished benchmark   *)
(* counts every planned run once (run_one, summarize, to_d1_aggregate).     *)
THEOREM ResultsAreBacked == Spec => []ResultsBacked
<1>1. BenchInv => RowsBacked
  BY DEF BenchInv
<1>2. BenchInv => SummaryWhole
  <2> SUFFICES ASSUME BenchInv PROVE SummaryWhole
    OBVIOUS
  <2>1. ASSUME main = "done", NEW m \in DOMAIN summary
        PROVE  summary[m].size = Cardinality({i \in DOMAIN work : work[i] = m})
    <3>1. summary = Summarized(results) /\ \A i \in DOMAIN work : run[i].at = "ended"
      BY <2>1, SlotsFacts DEF BenchInv, DoneWhole
    <3>2. m \in Modes
      BY <3>1, <2>1 DEF Summarized, Modes
    <3> QED BY <3>1, <3>2, SummaryCounts DEF BenchInv
  <2>2. ASSUME summary # None
        PROVE  Exportable(summary) /\ \A m \in DOMAIN summary : summary[m].evidence \in {0, summary[m].size}
    <3>1. PICK rows \in Seq(Rows) : summary = Summarized(rows)
      BY <2>2 DEF BenchInv, Summaries
    <3> QED BY <3>1, SummaryFits
  <2> QED BY <2>1, <2>2 DEF SummaryWhole
<1> QED BY <1>1, <1>2, BenchInvHolds, PTL DEF ResultsBacked
--------------------------------------------------------------------------------
(* The validation of the security rules                                    *)

(* Of a finite set of numbers, as many are its first n as there can be.     *)
LEMMA FirstOf ==
  ASSUME NEW A, IsFiniteSet(A), A \subseteq Nat, NEW n \in Nat, n <= Cardinality(A)
  PROVE  Cardinality({i \in A : Cardinality({j \in A : j <= i}) <= n}) = n
<1> DEFINE rank == [i \in A |-> Cardinality({j \in A : j <= i})]
           B == {i \in A : rank[i] <= n}
<1>1. \A T \in SUBSET A : IsFiniteSet(T) /\ Cardinality(T) \in Nat /\ Cardinality(T) <= Cardinality(A)
  BY FS_Subset, FS_CardinalityType
<1>2. \A i \in A : rank[i] \in 1 .. Cardinality(A)
  <2> TAKE i \in A
  <2>1. {j \in A : j <= i} \in SUBSET A /\ i \in {j \in A : j <= i}
    OBVIOUS
  <2>2. Cardinality({j \in A : j <= i}) # 0
    BY <1>1, <2>1, FS_EmptySet
  <2> QED BY <1>1, <2>1, <2>2
<1>3. ASSUME NEW i \in A, NEW k \in A, i < k PROVE rank[i] < rank[k]
  <2>1. PICK S : S = {j \in A : j <= i}
    OBVIOUS
  <2>2. PICK T : T = {j \in A : j <= k}
    OBVIOUS
  <2>3. S \in SUBSET T /\ k \in T /\ k \notin S /\ T \in SUBSET A
    <3>1. \A j \in A : j <= i => j <= k
      BY <1>3
    <3>2. ~(k <= i) /\ k <= k
      BY <1>3
    <3> QED BY <2>1, <2>2, <3>1, <3>2
  <2>4. IsFiniteSet(T) /\ Cardinality(S) \in Nat /\ Cardinality(T) \in Nat
    BY <1>1, <2>3
  <2>5. Cardinality(S) <= Cardinality(T) /\ Cardinality(S) # Cardinality(T)
    BY <2>3, <2>4, FS_Subset
  <2>6. Cardinality(S) < Cardinality(T)
    BY <2>4, <2>5
  <2> QED BY <2>1, <2>2, <2>6
<1>4. ASSUME NEW i \in A, NEW k \in A, i # k PROVE rank[i] # rank[k]
  <2>1. i \in Nat /\ k \in Nat /\ (i < k \/ k < i)
    BY <1>4
  <2>2. rank[i] \in Nat /\ rank[k] \in Nat
    BY <1>2
  <2>3. rank[i] < rank[k] \/ rank[k] < rank[i]
    BY <1>3, <2>1
  <2> HIDE DEF rank
  <2> QED BY <2>2, <2>3
<1> HIDE DEF rank
<1>5. ASSUME NEW T \in SUBSET A, NEW a \in Int, NEW b \in Int, \A i \in T : rank[i] \in a .. b, a <= b + 1
      PROVE  Cardinality(T) <= b - a + 1
  <2>1. IsFiniteSet(a .. b) /\ Cardinality(a .. b) = b - a + 1
    BY <1>5, FS_Interval
  <2>2. [i \in T |-> rank[i]] \in [T -> a .. b]
    BY <1>5
  <2>3. ~(Cardinality(a .. b) < Cardinality(T))
    <3> SUFFICES ASSUME Cardinality(a .. b) < Cardinality(T) PROVE FALSE
      OBVIOUS
    <3>1. PICK f : f = [i \in T |-> rank[i]]
      OBVIOUS
    <3>2. f \in [T -> a .. b] /\ IsFiniteSet(T) /\ IsFiniteSet(a .. b)
      BY <1>1, <2>1, <2>2, <3>1
    <3>3. \E x, y \in T : x # y /\ f[x] = f[y]
      BY <3>2, FS_PigeonHole
    <3> QED BY <1>4, <3>1, <3>3
  <2>4. Cardinality(T) \in Nat
    BY <1>1
  <2> QED BY <2>1, <2>3, <2>4
<1>6. B \in SUBSET A /\ \A i \in B : rank[i] \in 1 .. n
  BY <1>2
<1>7. Cardinality(B) <= n
  <2> HIDE DEF B
  <2>1. Cardinality(B) <= n - 1 + 1
    BY <1>5, <1>6
  <2> QED BY <2>1
<1>8. A \ B \in SUBSET A /\ \A i \in A \ B : rank[i] \in n + 1 .. Cardinality(A)
  BY <1>1, <1>2
<1>9. Cardinality(A \ B) <= Cardinality(A) - n
  <2> HIDE DEF B
  <2>0. Cardinality(A) \in Nat
    BY <1>1
  <2>1. Cardinality(A \ B) <= Cardinality(A) - (n + 1) + 1
    <3>1. n + 1 \in Int /\ Cardinality(A) \in Int /\ n + 1 <= Cardinality(A) + 1
      BY <2>0
    <3> QED BY <1>5, <1>8, <3>1
  <2> QED BY <2>0, <2>1
<1>10. Cardinality(A \ B) = Cardinality(A) - Cardinality(B)
  <2>1. A \cap B = B
    OBVIOUS
  <2> HIDE DEF B
  <2> QED BY <2>1, FS_Difference
<1>11. Cardinality(B) \in Nat /\ Cardinality(A) \in Nat
  BY <1>1, <1>6
<1>12. Cardinality(B) = n
  <2> HIDE DEF B
  <2> QED BY <1>7, <1>9, <1>10, <1>11
<1>13. B = {i \in A : Cardinality({j \in A : j <= i}) <= n}
  BY DEF rank
<1> QED BY <1>12, <1>13

(* What the command has done so far.                                        *)
Fixtured == stage \in {"fixtures", "repositories", "reported"}

VInv ==
  /\ stage \in {"idle", "fixtures", "repositories", "reported", "refused"}
  /\ stage = "idle" => observed = <<>> /\ scans = <<>>
  /\ Fixtured => /\ DOMAIN fixtures = 1 .. Len(fixtures) /\ ValidManifest(fixtures)
                 /\ roots \in Nat
                 /\ observed \in Seq((SUBSET Rules) \cup {Raised}) /\ Len(observed) <= Len(fixtures)
                 /\ scans \in Seq(Scans \cup {Raised}) /\ Len(scans) <= roots
  /\ stage = "fixtures" => Len(observed) < Len(fixtures) /\ scans = <<>>
  /\ stage \in {"repositories", "reported"} => Len(observed) = Len(fixtures)
  /\ stage = "reported" => Len(scans) = roots

THEOREM ValidationProceeds == ValidationSpec => []VInv
<1>1. ValidationInit => VInv
  BY DEF ValidationInit, VInv, Fixtured
<1>2. VInv /\ [ValidationNext]_validationVars => VInv'
  <2> SUFFICES ASSUME VInv, [ValidationNext]_validationVars PROVE VInv'
    OBVIOUS
  <2>1. ASSUME NEW cases \in Manifests, NEW n \in 0 .. MaxRoots, Validate(cases, n) PROVE VInv'
    <3>1. CASE stage' = "refused"
      BY <3>1 DEF VInv, Fixtured
    <3>2. CASE stage' # "refused"
      <4>1. /\ stage = "idle" /\ stage' = "fixtures" /\ fixtures' = cases /\ ValidManifest(cases)
            /\ roots' = n /\ observed' = observed /\ scans' = scans
        BY <2>1, <3>2 DEF Validate, Refuse
      <4>2. observed' = <<>> /\ scans' = <<>>
        BY <4>1 DEF VInv
      <4>3. Len(cases) \in 1 .. MaxCases /\ DOMAIN cases = 1 .. Len(cases) /\ n \in Nat
        BY <4>1, ValidationAssumption DEF ValidManifest
      <4>4. (DOMAIN fixtures = 1 .. Len(fixtures) /\ ValidManifest(fixtures))'
        BY <4>1, <4>3 DEF ValidManifest, ValidCase
      <4>5. Len(fixtures') \in Nat /\ 0 < Len(fixtures') /\ roots' \in Nat
        BY <4>1, <4>3, ValidationAssumption
      <4> QED BY <4>1, <4>2, <4>4, <4>5 DEF VInv, Fixtured
    <3> QED BY <3>1, <3>2
  <2>2. ASSUME NEW codes \in (SUBSET Rules) \cup {{Unregistered}, Raised}, ScanFixture(codes) PROVE VInv'
    <3>1. PICK said : said = IF codes # Raised /\ codes \subseteq Rules THEN codes ELSE Raised
      OBVIOUS
    <3>2. said \in (SUBSET Rules) \cup {Raised}
      <4>1. CASE codes # Raised /\ codes \subseteq Rules
        <5>1. said = codes
          BY <3>1, <4>1
        <5>2. codes \in SUBSET Rules
          BY <4>1
        <5> QED BY <5>1, <5>2
      <4>2. CASE ~(codes # Raised /\ codes \subseteq Rules)
        <5>1. said = Raised
          BY <3>1, <4>2
        <5>2. \A S, x : x \in S \cup {x}
          OBVIOUS
        <5> QED BY <5>1, <5>2, Zenon
      <4> QED BY <4>1, <4>2
    <3>3. /\ stage = "fixtures" /\ observed' = Append(observed, said)
          /\ stage' = IF Len(observed') = Len(fixtures) THEN "repositories" ELSE stage
          /\ fixtures' = fixtures /\ roots' = roots /\ scans' = scans
      BY <2>2, <3>1 DEF ScanFixture
    <3>4. /\ observed' \in Seq((SUBSET Rules) \cup {Raised}) /\ Len(observed') = Len(observed) + 1
          /\ Len(observed) \in Nat
      <4>1. PICK Said : Said = (SUBSET Rules) \cup {Raised}
        OBVIOUS
      <4>2. observed \in Seq(Said) /\ said \in Said
        BY <3>2, <3>3, <4>1 DEF VInv, Fixtured
      <4>3. Append(observed, said) \in Seq(Said) /\ Len(Append(observed, said)) = Len(observed) + 1 /\ Len(observed) \in Nat
        BY <4>2
      <4> QED BY <3>3, <4>1, <4>3
    <3>5. Len(fixtures) \in Nat /\ Len(observed) < Len(fixtures)
      <4>1. ValidManifest(fixtures) /\ Len(observed) < Len(fixtures)
        BY <3>3 DEF VInv, Fixtured
      <4> QED BY <4>1, ValidationAssumption DEF ValidManifest
    <3>6. (DOMAIN fixtures = 1 .. Len(fixtures) /\ ValidManifest(fixtures))'
      BY <3>3 DEF VInv, Fixtured, ValidManifest, ValidCase
    <3>7. roots' \in Nat /\ scans' = <<>> /\ scans' \in Seq(Scans \cup {Raised}) /\ Len(scans') <= roots'
      BY <3>3 DEF VInv, Fixtured
    <3>8. stage' \in {"fixtures", "repositories"} /\ (stage' = "repositories" <=> Len(observed') = Len(fixtures'))
      BY <3>3
    <3>9. Len(observed') <= Len(fixtures')
      BY <3>3, <3>4, <3>5
    <3>10. stage' = "fixtures" => Len(observed') < Len(fixtures')
      BY <3>3, <3>4, <3>5, <3>8
    <3> QED BY <3>4, <3>6, <3>7, <3>8, <3>9, <3>10 DEF VInv, Fixtured
  <2>3. ASSUME NEW found \in Scans \cup {Raised}, ScanRepository(found) PROVE VInv'
    <3>1. /\ stage = "repositories" /\ Len(scans) < roots /\ scans' = Append(scans, found)
          /\ stage' = stage /\ fixtures' = fixtures /\ observed' = observed /\ roots' = roots
      BY <2>3 DEF ScanRepository
    <3>2. /\ scans' \in Seq(Scans \cup {Raised}) /\ Len(scans') = Len(scans) + 1
          /\ Len(scans) \in Nat /\ roots \in Nat
      BY <3>1 DEF VInv, Fixtured
    <3>3. (DOMAIN fixtures = 1 .. Len(fixtures) /\ ValidManifest(fixtures))'
      BY <3>1 DEF VInv, Fixtured, ValidManifest, ValidCase
    <3> QED BY <3>1, <3>2, <3>3 DEF VInv, Fixtured
  <2>4. CASE Report
    <3>1. /\ stage = "repositories" /\ Len(scans) = roots /\ stage' \in {"reported", "refused"}
          /\ fixtures' = fixtures /\ observed' = observed /\ roots' = roots /\ scans' = scans
      BY <2>4 DEF Report, Refuse
    <3>2. (DOMAIN fixtures = 1 .. Len(fixtures) /\ ValidManifest(fixtures))'
      BY <3>1 DEF VInv, Fixtured, ValidManifest, ValidCase
    <3> QED BY <3>1, <3>2 DEF VInv, Fixtured
  <2>5. CASE UNCHANGED validationVars
    BY <2>5 DEF validationVars, VInv, Fixtured, ValidManifest, ValidCase
  <2> QED BY <2>1, <2>2, <2>3, <2>4, <2>5 DEF ValidationNext
<1> QED BY <1>1, <1>2, PTL DEF ValidationSpec

(* A sum over the rules, as a sum of a function.                            *)
LEMMA PairsSummed ==
  ASSUME NEW n, \A r \in Rules : n[r] = Pairs(r) /\ n[r] \in Nat
  PROVE  FixturePairs = SumOver(n, Rules)
<1> DEFINE Body(it) == [s \in SUBSET Rules |->
                          IF s = {} THEN 0
                          ELSE Pairs(CHOOSE x \in s : TRUE) + it[s \ {CHOOSE x \in s : TRUE}]]
<1>1. FixturePairs = (CHOOSE it : it = Body(it))[Rules]
  BY DEF FixturePairs, MapThenSumSet, MapThenFoldSet
<1>2. ASSUME NEW it PROVE Sums(n, Rules, it) <=> it = Body(it)
  <2>1. \A s \in SUBSET Rules : SumPart(n, it, s) = Body(it)[s]
    <3> TAKE s \in SUBSET Rules
    <3>1. s # {} => (CHOOSE x \in s : TRUE) \in Rules
      OBVIOUS
    <3> QED BY <3>1 DEF SumPart
  <2>2. Body(it) = [s \in SUBSET Rules |-> SumPart(n, it, s)]
    BY <2>1
  <2> HIDE DEF Body
  <2> QED BY <2>2 DEF Sums
<1>3. (CHOOSE it : it = Body(it)) = (CHOOSE it : Sums(n, Rules, it))
  <2> HIDE DEF Body
  <2> QED BY <1>2
<1>4. (CHOOSE it : it = Body(it))[Rules] = (CHOOSE it : Sums(n, Rules, it))[Rules]
  <2> HIDE DEF Body
  <2> QED BY <1>3
<1>5. SumOver(n, Rules) = (CHOOSE it : Sums(n, Rules, it))[Rules]
  BY SumIsChosen
<1> QED BY <1>1, <1>4, <1>5

(* Every rule has as many pairs as its smaller side of fixtures, and its    *)
(* evidence is that many fixtures of each side.                             *)
LEMMA PairsAreSmaller ==
  ASSUME NEW r, \A e \in Expectations : IsFiniteSet(Of(r, e))
  PROVE  /\ Pairs(r) \in Nat
         /\ \A e \in Expectations : Pairs(r) <= Cardinality(Of(r, e))
         /\ \E e \in Expectations : Pairs(r) = Cardinality(Of(r, e))
<1>1. PICK v : v = Cardinality(Of(r, "vulnerable"))
  OBVIOUS
<1>2. PICK s : s = Cardinality(Of(r, "safe"))
  OBVIOUS
<1>3. v \in Nat /\ s \in Nat
  BY <1>1, <1>2, FS_CardinalityType DEF Expectations
<1>4. {Cardinality(Of(r, e)) : e \in Expectations} = {v, s}
  BY <1>1, <1>2 DEF Expectations
<1>5. Pairs(r) \in {v, s} /\ Pairs(r) <= v /\ Pairs(r) <= s
  <2>1. \E x \in {v, s} : \A y \in {v, s} : x <= y
    BY <1>3
  <2>2. Pairs(r) = CHOOSE x \in {v, s} : \A y \in {v, s} : x <= y
    BY <1>4 DEF Pairs, Min
  <2> QED BY <2>1, <2>2
<1> QED BY <1>1, <1>2, <1>3, <1>5 DEF Expectations

LEMMA FixturesFinite ==
  ASSUME VInv, Fixtured
  PROVE  /\ IsFiniteSet(DOMAIN fixtures) /\ Cardinality(DOMAIN fixtures) = Len(fixtures)
         /\ Len(fixtures) \in Nat /\ DOMAIN fixtures \subseteq Nat
         /\ \A T \in SUBSET DOMAIN fixtures :
              IsFiniteSet(T) /\ Cardinality(T) \in Nat /\ Cardinality(T) <= Len(fixtures)
<1>1. ValidManifest(fixtures) /\ DOMAIN fixtures = 1 .. Len(fixtures)
  BY DEF VInv
<1>2. Len(fixtures) \in Nat /\ 1 <= Len(fixtures)
  BY <1>1, ValidationAssumption DEF ValidManifest
<1>3. IsFiniteSet(DOMAIN fixtures) /\ Cardinality(DOMAIN fixtures) = Len(fixtures)
  <2>1. IsFiniteSet(1 .. Len(fixtures)) /\ Cardinality(1 .. Len(fixtures)) = Len(fixtures)
    BY <1>2, FS_Interval
  <2> QED BY <1>1, <2>1
<1>4. \A T \in SUBSET DOMAIN fixtures :
        IsFiniteSet(T) /\ Cardinality(T) \in Nat /\ Cardinality(T) <= Len(fixtures)
  BY <1>3, FS_Subset, FS_CardinalityType
<1> QED BY <1>1, <1>2, <1>3, <1>4

LEMMA EvidenceIsPaired ==
  ASSUME VInv, Fixtured, NEW r \in Rules, NEW e \in Expectations
  PROVE  /\ Evidence(r, e) \in SUBSET Of(r, e)
         /\ Of(r, e) \in SUBSET DOMAIN fixtures
         /\ Pairs(r) \in Nat /\ Cardinality(Evidence(r, e)) = Pairs(r)
         /\ FullyPaired(r) => Evidence(r, e) = Of(r, e) /\ Pairs(r) > 0
<1>1. \A x \in Expectations : Of(r, x) \in SUBSET DOMAIN fixtures
  BY DEF Of
<1>2. \A x \in Expectations : IsFiniteSet(Of(r, x)) /\ Cardinality(Of(r, x)) \in Nat
  BY <1>1, FixturesFinite
<1>3. /\ Pairs(r) \in Nat /\ \A x \in Expectations : Pairs(r) <= Cardinality(Of(r, x))
      /\ \E x \in Expectations : Pairs(r) = Cardinality(Of(r, x))
  BY <1>2, PairsAreSmaller
<1>4. PICK all : all = Of(r, e)
  OBVIOUS
<1>5. Evidence(r, e) = {i \in all : Cardinality({j \in all : j <= i}) <= Pairs(r)}
  BY <1>4 DEF Evidence
<1>6. all \subseteq Nat /\ IsFiniteSet(all) /\ Pairs(r) <= Cardinality(all)
  BY <1>1, <1>2, <1>3, <1>4, FixturesFinite
<1>7. Cardinality(Evidence(r, e)) = Pairs(r)
  BY <1>3, <1>5, <1>6, FirstOf
<1>8. Evidence(r, e) \in SUBSET all
  BY <1>5
<1>9. ASSUME FullyPaired(r) PROVE Evidence(r, e) = all /\ Pairs(r) > 0
  <2>1. /\ Cardinality(Of(r, "vulnerable")) > 0
        /\ Cardinality(Of(r, "safe")) = Cardinality(Of(r, "vulnerable"))
    BY <1>9 DEF FullyPaired
  <2>2. \A x \in Expectations : Pairs(r) = Cardinality(Of(r, x))
    BY <1>3, <2>1 DEF Expectations
  <2>3. Cardinality(Evidence(r, e)) = Cardinality(all)
    BY <1>4, <1>7, <2>2
  <2>4. Evidence(r, e) = all
    BY <1>6, <1>8, <2>3, FS_Subset
  <2>5. Pairs(r) > 0
    BY <2>1, <2>2 DEF Expectations
  <2> QED BY <2>4, <2>5
<1> QED BY <1>1, <1>3, <1>4, <1>7, <1>8, <1>9

(* All the paired fixtures of one side, and those of one rule.              *)
Side(e) == {i \in Paired : fixtures[i].expectation = e}

LEMMA SidesAreFull ==
  ASSUME VInv, Fixtured, NEW e \in Expectations
  PROVE  /\ Side(e) \in SUBSET DOMAIN fixtures
         /\ Cardinality(Side(e)) = FixturePairs /\ FixturePairs \in Nat
         /\ \A r \in Rules : Side(e) \cap OfRule(r) = Evidence(r, e)
<1> DEFINE E == [r \in Rules |-> Evidence(r, e)]
           n == [r \in Rules |-> Cardinality(E[r])]
<1>1. ASSUME NEW r \in Rules, NEW x \in Expectations, NEW i \in Evidence(r, x)
      PROVE  i \in DOMAIN fixtures /\ fixtures[i].rule = r /\ fixtures[i].expectation = x
  <2>1. i \in Of(r, x)
    BY EvidenceIsPaired
  <2> QED BY <2>1 DEF Of
<1>2. Side(e) = UNION {E[r] : r \in Rules}
  <2>1. ASSUME NEW i \in Side(e) PROVE i \in UNION {E[r] : r \in Rules}
    <3>1. PICK r \in Rules, x \in Expectations : i \in Evidence(r, x)
      BY DEF Side, Paired
    <3>2. x = e
      BY <1>1, <3>1 DEF Side
    <3> QED BY <3>1, <3>2
  <2>2. ASSUME NEW i, NEW r \in Rules, i \in E[r] PROVE i \in Side(e)
    <3>1. i \in Evidence(r, e)
      BY <2>2
    <3>2. fixtures[i].expectation = e
      BY <1>1, <3>1
    <3> QED BY <3>1, <3>2 DEF Side, Paired
  <2> QED BY <2>1, <2>2
<1>3. \A r \in Rules : IsFiniteSet(E[r])
  <2>1. \A r \in Rules : E[r] \in SUBSET DOMAIN fixtures
    BY <1>1
  <2> HIDE DEF E
  <2> QED BY <2>1, FixturesFinite
<1>4. \A p, q \in Rules : p # q => E[p] \cap E[q] = {}
  BY <1>1
<1>5. Cardinality(UNION {E[r] : r \in Rules}) = SumOver(n, Rules)
  <2>1. IsFiniteSet(Rules)
    BY ValidationAssumption
  <2>2. PICK F : F = E
    OBVIOUS
  <2>3. PICK m : m = [r \in Rules |-> Cardinality(F[r])]
    OBVIOUS
  <2>4. /\ \A r \in Rules : IsFiniteSet(F[r])
        /\ \A p, q \in Rules : p # q => F[p] \cap F[q] = {}
    <3> HIDE DEF E
    <3> QED BY <1>3, <1>4, <2>2
  <2>5. Cardinality(UNION {F[r] : r \in Rules}) = SumOver(m, Rules)
    <3> HIDE DEF E
    <3> QED BY <2>1, <2>3, <2>4, SumCounts
  <2>6. m = n
    BY <2>2, <2>3
  <2> HIDE DEF E, n
  <2> QED BY <2>2, <2>5, <2>6
<1>6. \A r \in Rules : n[r] = Pairs(r) /\ n[r] \in Nat
  BY EvidenceIsPaired
<1>7. FixturePairs = SumOver(n, Rules)
  <2>1. n = [r \in Rules |-> Pairs(r)]
    BY <1>6
  <2> HIDE DEF n
  <2> QED BY <1>6, PairsSummed
<1>8. SumOver(n, Rules) \in Nat
  <2> HIDE DEF n
  <2> QED BY <1>6, ValidationAssumption, SumNatural
<1>9. Side(e) \in SUBSET DOMAIN fixtures
  BY <1>1, <1>2
<1>10. ASSUME NEW r \in Rules PROVE Side(e) \cap OfRule(r) = Evidence(r, e)
  <2>1. ASSUME NEW i \in Side(e), fixtures[i].rule = r PROVE i \in Evidence(r, e)
    <3>1. PICK q \in Rules : i \in Evidence(q, e)
      BY <1>2
    <3>2. q = r
      BY <1>1, <2>1, <3>1
    <3> QED BY <3>1, <3>2
  <2>2. ASSUME NEW i \in Evidence(r, e) PROVE i \in Side(e) /\ i \in OfRule(r)
    <3>1. i \in Side(e)
      BY <1>2
    <3> QED BY <1>1, <3>1 DEF OfRule
  <2> QED BY <2>1, <2>2 DEF OfRule
<1> HIDE DEF E, n
<1> QED BY <1>2, <1>5, <1>7, <1>8, <1>9, <1>10

(* Counted by class, the paired fixtures are those of each side.            *)
LEMMA ClassesFillSides ==
  ASSUME VInv, Fixtured, NEW cases
  PROVE  /\ Positive(cases) = Cardinality(Side("vulnerable") \cap cases)
         /\ Negative(cases) = Cardinality(Side("safe") \cap cases)
<1>1. /\ Side("vulnerable") = Classified("TP") \cup Classified("FN")
      /\ Side("safe") = Classified("TN") \cup Classified("FP")
  BY DEF Side, Classified
<1>2. /\ Classified("TP") \cap Classified("FN") = {}
      /\ Classified("TN") \cap Classified("FP") = {}
  BY DEF Classified
<1>3. ASSUME NEW A, NEW B, A \cap B = {}, NEW e \in Expectations, Side(e) = A \cup B
      PROVE  Cardinality(A \cap cases) + Cardinality(B \cap cases) = Cardinality(Side(e) \cap cases)
  <2>1. A \cap cases \in SUBSET DOMAIN fixtures /\ B \cap cases \in SUBSET DOMAIN fixtures
    BY <1>3, SidesAreFull
  <2>2. /\ IsFiniteSet(A \cap cases) /\ IsFiniteSet(B \cap cases)
        /\ Cardinality(A \cap cases) \in Nat /\ Cardinality(B \cap cases) \in Nat
    BY <2>1, FixturesFinite
  <2>3. (A \cap cases) \cap (B \cap cases) = {} /\ (A \cap cases) \cup (B \cap cases) = Side(e) \cap cases
    BY <1>3
  <2>4. Cardinality((A \cap cases) \cap (B \cap cases)) = 0
    BY <2>3, FS_EmptySet
  <2>5. Cardinality((A \cap cases) \cup (B \cap cases))
          = Cardinality(A \cap cases) + Cardinality(B \cap cases) - Cardinality((A \cap cases) \cap (B \cap cases))
    BY <2>2, FS_Union
  <2>6. Cardinality((A \cap cases) \cup (B \cap cases)) = Cardinality(A \cap cases) + Cardinality(B \cap cases)
    BY <2>2, <2>4, <2>5
  <2> QED BY <2>3, <2>6
<1>4. "vulnerable" \in Expectations /\ "safe" \in Expectations
  BY DEF Expectations
<1>5. Cardinality(Classified("TP") \cap cases) + Cardinality(Classified("FN") \cap cases)
        = Cardinality(Side("vulnerable") \cap cases)
  BY <1>1, <1>2, <1>3, <1>4
<1>6. Cardinality(Classified("TN") \cap cases) + Cardinality(Classified("FP") \cap cases)
        = Cardinality(Side("safe") \cap cases)
  BY <1>1, <1>2, <1>3, <1>4
<1> QED BY <1>5, <1>6 DEF Positive, Negative, CountIn

(* The row is never refused.                                                *)
LEMMA RowsAddUp ==
  ASSUME VInv, Fixtured
  PROVE  RowAddsUp
<1>1. Cardinality(Covered) <= Cardinality(Rules)
  <2>1. Covered \in SUBSET Rules
    BY DEF Covered
  <2> QED BY <2>1, ValidationAssumption, FS_Subset
<1>2. ASSUME NEW e \in Expectations PROVE Cardinality(Side(e) \cap DOMAIN fixtures) = FixturePairs
  <2>1. Side(e) \cap DOMAIN fixtures = Side(e)
    BY SidesAreFull
  <2> QED BY <2>1, SidesAreFull
<1>3. Positive(DOMAIN fixtures) = FixturePairs /\ Negative(DOMAIN fixtures) = FixturePairs
  BY <1>2, ClassesFillSides DEF Expectations
<1> QED BY <1>1, <1>3 DEF RowAddsUp

(* What passes as a whole passes in each rule and in each category.         *)
LEMMA WholePasses ==
  ASSUME VInv, Fixtured, Status = "PASSED", NEW r \in Rules
  PROVE  /\ \A i \in DOMAIN fixtures : ~Failed(i)
         /\ Flaws \cap DOMAIN fixtures = {}
         /\ \A q \in Rules : FullyPaired(q)
         /\ RuleStatus(r) = "PASSED" /\ CategoryStatus(Category[r]) = "PASSED"
<1>1. Sufficient /\ Flaws \cap DOMAIN fixtures = {}
  BY DEF Status, Verdict
<1>2. /\ \A i \in DOMAIN fixtures : ~Failed(i)
      /\ \A q \in Rules : FullyPaired(q)
  BY <1>1 DEF Sufficient, Covered
<1>3. \A q \in Rules : OfRule(q) \in SUBSET DOMAIN fixtures
  BY DEF OfRule
<1>4. RuleStatus(r) = "PASSED"
  <2>1. Positive(OfRule(r)) = Pairs(r) /\ Negative(OfRule(r)) = Pairs(r)
    <3>1. \A e \in Expectations : Side(e) \cap OfRule(r) = Evidence(r, e) /\ Cardinality(Evidence(r, e)) = Pairs(r)
      BY SidesAreFull, EvidenceIsPaired
    <3> QED BY <3>1, ClassesFillSides DEF Expectations
  <2>2. Flaws \cap OfRule(r) = {}
    BY <1>1, <1>3
  <2> QED BY <1>2, <2>1, <2>2 DEF RuleStatus, Verdict
<1>5. CategoryStatus(Category[r]) = "PASSED"
  <2>1. PICK cases : cases = UNION {OfRule(q) : q \in {p \in Rules : Category[p] = Category[r]}}
    OBVIOUS
  <2>2. OfRule(r) \subseteq cases /\ cases \in SUBSET DOMAIN fixtures
    BY <1>3, <2>1
  <2>3. ASSUME NEW e \in Expectations PROVE Cardinality(Side(e) \cap cases) > 0
    <3>1. Cardinality(Evidence(r, e)) = Pairs(r) /\ Pairs(r) > 0 /\ Pairs(r) \in Nat
      BY <1>2, EvidenceIsPaired
    <3>2. Evidence(r, e) \subseteq Side(e) \cap cases
      BY <2>2, SidesAreFull
    <3>3. Side(e) \cap cases \in SUBSET DOMAIN fixtures
      BY <2>2
    <3>4. IsFiniteSet(Side(e) \cap cases) /\ Cardinality(Side(e) \cap cases) \in Nat
      BY <3>3, FixturesFinite
    <3>5. Cardinality(Evidence(r, e)) <= Cardinality(Side(e) \cap cases)
      BY <3>2, <3>4, FS_Subset
    <3> QED BY <3>1, <3>4, <3>5
  <2>4. Positive(cases) > 0 /\ Negative(cases) > 0
    BY <2>3, ClassesFillSides DEF Expectations
  <2>5. Flaws \cap cases = {}
    BY <1>1, <2>2
  <2> QED BY <1>2, <2>1, <2>4, <2>5 DEF CategoryStatus, Verdict
<1> QED BY <1>1, <1>2, <1>4, <1>5

(* Fully paired, every fixture is evidence, and passes when none is flawed. *)
LEMMA EveryCasePasses ==
  ASSUME VInv, Fixtured, Status = "PASSED", NEW i \in DOMAIN fixtures
  PROVE  i \in Paired /\ CasePassed(i)
<1>1. ValidCase(fixtures[i])
  BY DEF VInv, ValidManifest
<1>2. PICK r \in Rules : r = fixtures[i].rule
  BY <1>1 DEF ValidCase
<1>3. PICK e \in Expectations : e = fixtures[i].expectation
  BY <1>1 DEF ValidCase
<1>4. ~Failed(i) /\ Flaws \cap DOMAIN fixtures = {} /\ FullyPaired(r)
  BY WholePasses
<1>5. i \in Evidence(r, e)
  <2>1. i \in Of(r, e)
    BY <1>2, <1>3 DEF Of
  <2> QED BY <1>4, <2>1, EvidenceIsPaired
<1>6. i \in Paired
  BY <1>5 DEF Paired
<1>7. CASE e = "vulnerable"
  <2>1. Detected(i) \/ i \in Classified("FN")
    BY <1>3, <1>6, <1>7 DEF Classified
  <2>2. Detected(i)
    BY <1>4, <2>1 DEF Flaws
  <2>3. i \in Classified("TP")
    BY <1>3, <1>6, <1>7, <2>2 DEF Classified
  <2>4. i \notin ContractFailures
    BY <1>4 DEF Flaws
  <2>5. Codes(i) \ fixtures[i].expected = {}
    BY <2>3, <2>4 DEF ContractFailures
  <2>6. fixtures[i].expected \ Codes(i) = {}
    BY <2>2 DEF Detected, MissingCodes
  <2>7. Codes(i) = fixtures[i].expected
    BY <2>5, <2>6
  <2> QED BY <1>4, <1>6, <2>7 DEF CasePassed
<1>8. CASE e = "safe"
  <2>1. Quiet(i) \/ i \in Classified("FP")
    BY <1>3, <1>6, <1>8 DEF Classified
  <2>2. Codes(i) = {}
    BY <1>4, <2>1 DEF Flaws, Quiet
  <2>3. fixtures[i].expected = {}
    BY <1>1, <1>3, <1>8 DEF ValidCase
  <2> QED BY <1>4, <1>6, <2>2, <2>3 DEF CasePassed
<1> QED BY <1>3, <1>7, <1>8 DEF Expectations

(* Twice as many fixtures as there are pairs.                               *)
LEMMA PairsFit ==
  ASSUME VInv, Fixtured
  PROVE  2 * FixturePairs <= Len(fixtures)
<1>1. "vulnerable" \in Expectations /\ "safe" \in Expectations
  BY DEF Expectations
<1>2. PICK V : V = Side("vulnerable")
  OBVIOUS
<1>3. PICK S : S = Side("safe")
  OBVIOUS
<1>4. V \in SUBSET DOMAIN fixtures /\ S \in SUBSET DOMAIN fixtures /\ V \cap S = {}
  BY <1>1, <1>2, <1>3, SidesAreFull DEF Side
<1>5. Cardinality(V) = FixturePairs /\ Cardinality(S) = FixturePairs /\ FixturePairs \in Nat
  BY <1>1, <1>2, <1>3, SidesAreFull
<1>6. IsFiniteSet(V) /\ IsFiniteSet(S) /\ Cardinality(V \cup S) <= Len(fixtures)
  <2>1. V \cup S \in SUBSET DOMAIN fixtures
    BY <1>4
  <2> QED BY <1>4, <2>1, FixturesFinite
<1>7. Cardinality(V \cup S) = Cardinality(V) + Cardinality(S) - Cardinality(V \cap S)
  BY <1>6, FS_Union
<1>8. Cardinality(V \cap S) = 0
  BY <1>4, FS_EmptySet
<1> QED BY <1>5, <1>6, <1>7, <1>8

(* The report of a validation says what was scanned, and is accepted: for   *)
(* every manifest, any number of rules, fixtures and repositories, and      *)
(* whatever the scanner says.                                               *)
THEOREM ReportsAreEarned == ValidationSpec => []ReportEarned
<1>1. VInv => RowAccepted
  <2> SUFFICES ASSUME VInv, stage = "repositories" PROVE RowAccepted
    BY DEF RowAccepted
  <2>1. Fixtured
    BY DEF Fixtured
  <2> QED BY <2>1, RowsAddUp, WholePasses DEF RowAccepted
<1>2. VInv => GateEarned
  <2> SUFFICES ASSUME VInv, stage = "reported", Gate = "PASS" PROVE GateEarned
    BY DEF GateEarned
  <2>1. Fixtured
    BY DEF Fixtured
  <2>2. Status = "PASSED" /\ Confidence # "low" /\ Performed /\ CleanScan
    BY DEF Gate
  <2>3. roots > 0 /\ \A i \in 1 .. roots : scans[i] = [critical |-> 0, high |-> 0, other |-> 0]
    <3>1. roots > 0 /\ Len(scans) = roots /\ scans \in Seq(Scans \cup {Raised})
      BY <2>1, <2>2 DEF VInv, Performed
    <3>2. ASSUME NEW i \in 1 .. roots PROVE scans[i] = [critical |-> 0, high |-> 0, other |-> 0]
      <4>1. i \in DOMAIN scans /\ scans[i] \in Scans \cup {Raised}
        BY <3>1
      <4>2. scans[i] # Raised
        BY <2>2, <4>1 DEF Performed
      <4>3. scans[i] \in [critical : Nat, high : Nat, other : Nat]
        BY <4>1, <4>2, ValidationAssumption
      <4>4. \A severity \in {"critical", "high", "other"} : scans[i][severity] = 0
        BY <2>2, <4>1 DEF CleanScan
      <4>5. scans[i].critical = 0 /\ scans[i].high = 0 /\ scans[i].other = 0
        BY <4>4
      <4> QED BY <4>3, <4>5
    <3> QED BY <3>1, <3>2
  <2>4. \A i \in DOMAIN fixtures : CasePassed(i)
    BY <2>1, <2>2, EveryCasePasses
  <2>5. ASSUME NEW r \in Rules
        PROVE  /\ FullyPaired(r) /\ RuleStatus(r) = "PASSED" /\ CategoryStatus(Category[r]) = "PASSED"
               /\ RuleRow(r).covered /\ RuleRow(r).missed = 0 /\ RuleRow(r).loud = 0
    <3>1. /\ FullyPaired(r) /\ RuleStatus(r) = "PASSED" /\ CategoryStatus(Category[r]) = "PASSED"
          /\ Flaws \cap DOMAIN fixtures = {}
      BY <2>1, <2>2, WholePasses
    <3>2. Classified("FN") \cap OfRule(r) = {} /\ Classified("FP") \cap OfRule(r) = {}
      BY <3>1 DEF Flaws, OfRule
    <3>3. CountIn("FN", OfRule(r)) = 0 /\ CountIn("FP", OfRule(r)) = 0
      BY <3>2, FS_EmptySet DEF CountIn
    <3> QED BY <3>1, <3>3 DEF RuleRow
  <2>6. ASSUME NEW r \in Rules
        PROVE  \E i, j \in OfRule(r) : fixtures[i].expectation = "safe" /\ fixtures[j].expectation = "vulnerable"
    <3>1. ASSUME NEW e \in Expectations PROVE \E i \in OfRule(r) : fixtures[i].expectation = e
      <4>1. Cardinality(Evidence(r, e)) > 0 /\ Evidence(r, e) \in SUBSET Of(r, e)
        BY <2>1, <2>5, EvidenceIsPaired
      <4>2. Evidence(r, e) # {}
        BY <4>1, FS_EmptySet
      <4> QED BY <4>1, <4>2 DEF Of, OfRule
    <3> QED BY <3>1 DEF Expectations
  <2>7. Len(fixtures) >= 2 * MediumPairs
    <3>1. FixturePairs \in Nat
      BY <2>1, SidesAreFull DEF Expectations
    <3>2. FixturePairs >= MediumPairs
      BY <2>2, <3>1, ValidationAssumption DEF Confidence
    <3>3. Len(fixtures) \in Nat /\ 2 * FixturePairs <= Len(fixtures)
      BY <2>1, PairsFit, FixturesFinite
    <3> QED BY <3>1, <3>2, <3>3, ValidationAssumption
  <2> QED BY <2>3, <2>4, <2>5, <2>6, <2>7 DEF GateEarned
<1>3. VInv => ReportEarned
  BY <1>1, <1>2 DEF ReportEarned
<1> QED BY <1>3, ValidationProceeds, PTL
================================================================================
