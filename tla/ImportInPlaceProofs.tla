------------------------ MODULE ImportInPlaceProofs ------------------------
(***************************************************************************)
(* For any uploads of any files: what a FILE row, a blob reference and a   *)
(* 200 promise, whatever fails or dies on the way, and that the lock row   *)
(* is taken, kept and released as PartitionLocks says.                     *)
(***************************************************************************)
EXTENDS ImportInPlace, TLAPS

Types ==
    /\ lock \in Uploads \cup {NoUpload}
    /\ cluster \in [Rows -> Origins \cup {Absent}]
    /\ aggregate \in [Origins -> {Absent} \cup SUBSET Rows]
    /\ file \in [Uploads -> {"withBlob", "plain", Absent}]
    /\ pc \in [Uploads -> PcStates]
    /\ todo \in [Uploads -> SUBSET (Rows \cup Origins)]
    /\ retired \in [Uploads -> SUBSET Origins]

\* Whoever is past the conditional put finds its own row, so it is alone.
HolderIsAlone == \A u \in Uploads : pc[u] \in UnderLock => lock = u

Unplanned == {"idle", "checked", "locked", "planning"}
Unwritten == Unplanned \cup {"patch", "insert", "aggregate", "retire", "blob", "record", "unblob", "recordPlain"}

\* What an upload has not done yet.
Early ==
    \A u \in Uploads :
        /\ pc[u] \in Unplanned => \A t \in Rows : cluster[t] # u
        /\ pc[u] \in Unwritten => file[u] = Absent

\* What the holder of the lock has done so far.
Moved(u) == RowsOf(u) # {} => \A t \in Present : cluster[t] = u
Inserted(u) == Moved(u) /\ RowsOf(u) \subseteq Present
Rebuilt(u) == Inserted(u) /\ (RowsOf(u) # {} => aggregate[u] # Absent)
Retired(u) == Rebuilt(u) /\ \A c \in retired[u] : aggregate[c] = Absent

Progress(u) ==
    /\ pc[u] \in Unplanned => todo[u] = {}
    /\ pc[u] \in {"patch", "insert", "aggregate", "retire"} /\ RowsOf(u) # {} => u \notin retired[u]
    /\ pc[u] = "patch" => todo[u] \subseteq Rows /\ (RowsOf(u) # {} => \A t \in Present \ todo[u] : cluster[t] = u)
    /\ pc[u] = "insert" => todo[u] \subseteq RowsOf(u) /\ Moved(u) /\ RowsOf(u) \ todo[u] \subseteq Present
    /\ pc[u] = "aggregate" => Inserted(u)
    /\ pc[u] = "retire" => Rebuilt(u) /\ todo[u] \subseteq retired[u]
                           /\ \A c \in retired[u] \ todo[u] : aggregate[c] = Absent
    /\ pc[u] \in {"blob", "record", "unblob", "recordPlain", "metrics", "releasing"} => Retired(u)
    /\ pc[u] \in {"metrics", "releasing"} => file[u] # Absent
    /\ pc[u] = "releasing" => counted = Present

Recorded ==
    /\ RecordedFileIsComplete /\ NoDanglingBlob
    /\ \A u \in Uploads : pc[u] = "done" => file[u] # Absent

Inv == Types /\ HolderIsAlone /\ Early /\ (\A u \in Uploads : Progress(u)) /\ Recorded

LEMMA RowsFacts == ASSUME NEW o \in Origins PROVE RowsOf(o) \subseteq Rows
BY DEF Rows

LEMMA Alone ==
  ASSUME Inv, NEW u \in Uploads, pc[u] \in UnderLock, NEW v \in Uploads, v # u
  PROVE  pc[v] \notin UnderLock
BY DEF Inv, HolderIsAlone

\* A step of the holder: everybody else is outside, where only the FILE rows,
\* the blobs and the clusters of others matter.
LEMMA StepOfHolder ==
  ASSUME Inv, NEW u \in Uploads, pc[u] \in UnderLock, Types',
         pc'[u] \in PcStates, \A v \in Uploads \ {u} : pc'[v] = pc[v] /\ file'[v] = file[v] /\ todo'[v] = todo[v],
         \A t \in Rows : cluster'[t] \in {cluster[t], u},
         blob \ {u} \subseteq blob',
         IF pc'[u] \in UnderLock THEN lock' = u ELSE lock' \in {u, NoUpload},
         pc'[u] \in Unplanned => pc[u] \in Unplanned /\ \A t \in Rows : cluster'[t] = cluster[t],
         pc'[u] \in Unwritten => pc[u] \in Unwritten /\ file'[u] = file[u],
         Progress(u)', file'[u] # Absent => RowsOf(u) \subseteq Present',
         file'[u] = "withBlob" => u \in blob', pc'[u] = "done" => file'[u] # Absent
  PROVE  Inv'
<1> USE DEF Inv
<1>1. \A v \in Uploads : pc'[v] \in UnderLock => v = u
  BY Alone
<1>2. HolderIsAlone'
  BY <1>1 DEF HolderIsAlone
<1>3. Early'
  BY DEF Early, Types
<1>4. \A v \in Uploads \ {u} : pc'[v] \notin UnderLock
  BY <1>1
<1>5. \A v \in Uploads \ {u} : Progress(v)'
  BY <1>4 DEF Progress, UnderLock, Persisting, Unplanned
<1>6. Present \subseteq Present'
  BY ImportInPlaceAssumption DEF Present
<1>7. Recorded'
  BY <1>6 DEF Recorded, RecordedFileIsComplete, NoDanglingBlob
<1> QED
  BY <1>2, <1>3, <1>5, <1>7

LEMMA LoopOrder ==
    /\ DOMAIN AfterLoop = {"patch", "insert", "retire"}
    /\ AfterLoop["patch"] = "insert" /\ AfterLoop["insert"] = "aggregate"
    /\ AfterLoop["retire"] = "blob"
BY DEF AfterLoop

LEMMA TypesInit == Init => Types
<1> SUFFICES ASSUME Init PROVE Types
  OBVIOUS
<1>1. cluster \in [Rows -> Origins \cup {Absent}]
  BY DEF Init, Origins
<1>2. RowsOf(Before) \subseteq Rows
  BY RowsFacts DEF Origins
<1>3. aggregate \in [Origins -> {Absent} \cup SUBSET Rows]
  BY <1>2 DEF Init
<1> QED
  BY <1>1, <1>3 DEF Init, Types, PcStates, Answered

LEMMA TypesStep == ASSUME Types, [Next]_vars PROVE Types'
<1> USE DEF Types
<1>1. CASE UNCHANGED vars
  BY <1>1 DEF vars, ledger, files
<1>2. CASE Next
  <2> PICK u \in Uploads :
        \/ CheckDuplicate(u) \/ AcquireLock(u) \/ ResolveAccount(u) \/ PlanImport(u)
        \/ Persist(u) \/ CallFails(u) \/ CatchError(u) \/ Die(u)
    BY <1>2 DEF Next
  <2> USE DEF ledger, files, Goto, PcStates, UnderLock, Persisting, Answered
  <2>0. u \in Origins /\ RowsOf(u) \subseteq Rows
    BY RowsFacts DEF Origins
  <2>1. CASE CheckDuplicate(u)
    BY <2>1 DEF CheckDuplicate
  <2>2. CASE AcquireLock(u)
    BY <2>2 DEF AcquireLock
  <2>3. CASE ResolveAccount(u)
    BY <2>3 DEF ResolveAccount
  <2>4. CASE PlanImport(u)
    <3>1. Present \subseteq Rows /\ {cluster[t] : t \in Present} \subseteq Origins
      BY DEF Present
    <3> QED
      BY <2>4, <3>1 DEF PlanImport
  <2>5. CASE WriteRow(u)
    <3>1. PICK t \in todo[u] :
            cluster' = [cluster EXCEPT ![t] = u] /\ todo' = [todo EXCEPT ![u] = @ \ {t}]
      BY <2>5 DEF WriteRow
    <3> QED
      BY <2>0, <2>5, <3>1 DEF WriteRow
  <2>6. CASE RebuildAggregate(u)
    <3>1. todo' \in [Uploads -> SUBSET (Rows \cup Origins)] /\ pc' \in [Uploads -> PcStates]
      BY <2>6 DEF RebuildAggregate
    <3>2. aggregate' \in [Origins -> {Absent} \cup SUBSET Rows]
      BY <2>0, <2>6 DEF RebuildAggregate, Present
    <3> QED
      BY <2>6, <3>1, <3>2 DEF RebuildAggregate
  <2>7. CASE RetireCluster(u)
    <3>1. PICK c \in todo[u] :
            aggregate' = [aggregate EXCEPT ![c] = Absent] /\ todo' = [todo EXCEPT ![u] = @ \ {c}]
      BY <2>7 DEF RetireCluster
    <3> QED
      BY <2>7, <3>1 DEF RetireCluster
  <2>8. CASE EndLoop(u)
    <3>1. AfterLoop[pc[u]] \in PcStates
      BY <2>8, LoopOrder DEF EndLoop
    <3> QED
      BY <2>0, <2>8, <3>1 DEF EndLoop
  <2>9. CASE PutBlob(u)
    BY <2>9 DEF PutBlob
  <2>10. CASE RecordFile(u)
    BY <2>10 DEF RecordFile
  <2>11. CASE DeleteBlob(u)
    BY <2>11 DEF DeleteBlob
  <2>12. CASE RecordPlain(u)
    BY <2>12 DEF RecordPlain
  <2>13. CASE RefreshMetrics(u)
    BY <2>13 DEF RefreshMetrics
  <2>14. CASE ReleaseLock(u)
    BY <2>14 DEF ReleaseLock
  <2>15. CASE CallFails(u)
    BY <2>15 DEF CallFails
  <2>16. CASE CatchError(u)
    BY <2>16 DEF CatchError
  <2>17. CASE Die(u)
    BY <2>17 DEF Die
  <2> QED
    BY <2>1, <2>2, <2>3, <2>4, <2>5, <2>6, <2>7, <2>8, <2>9, <2>10, <2>11, <2>12,
       <2>13, <2>14, <2>15, <2>16, <2>17 DEF Persist
<1> QED
  BY <1>1, <1>2

\* Before the lock: a step of an upload that holds nothing.
LEMMA OutsideStep ==
  ASSUME Inv, Types', NEW u \in Uploads,
         CheckDuplicate(u) \/ AcquireLock(u) \/ (Die(u) /\ pc[u] = "checked")
  PROVE  Inv'
<1> USE DEF Inv, ledger, files, Goto, Types
<1>1. UNCHANGED <<cluster, aggregate, counted, file, blob, todo, retired>> /\ Present' = Present
  BY DEF CheckDuplicate, AcquireLock, Die, Present
<1>2. /\ \A v \in Uploads \ {u} : pc'[v] = pc[v]
      /\ pc[u] \in {"idle", "checked"}
      /\ pc'[u] \in {"duplicate", "checked", "locked", "locked out", "died"}
  BY DEF CheckDuplicate, AcquireLock, Die
<1>3. HolderIsAlone'
  <2>1. CASE AcquireLock(u)
    <3>1. CASE lock = NoUpload
      <4>1. \A v \in Uploads : pc[v] \notin UnderLock
        BY <3>1, ImportInPlaceAssumption DEF HolderIsAlone
      <4>2. lock' = u
        BY <2>1, <3>1 DEF AcquireLock
      <4> QED
        BY <1>2, <4>1, <4>2 DEF HolderIsAlone
    <3>2. CASE lock # NoUpload
      BY <1>2, <2>1, <3>2 DEF AcquireLock, HolderIsAlone, UnderLock, Persisting
    <3> QED
      BY <3>1, <3>2
  <2>2. CASE CheckDuplicate(u) \/ Die(u)
    BY <2>2 DEF CheckDuplicate, Die, HolderIsAlone, UnderLock, Persisting
  <2> QED
    BY <2>1, <2>2
<1>4. Early'
  BY <1>1, <1>2 DEF Early, Unwritten, Unplanned
<1>5. ASSUME NEW v \in Uploads PROVE Progress(v)'
  <2>1. CASE v = u
    BY <1>1, <1>2, <2>1 DEF Progress, Unplanned
  <2>2. CASE v # u
    <3>1. Progress(v) /\ pc'[v] = pc[v]
      BY <1>2, <2>2
    <3> QED
      BY <1>1, <3>1 DEF Progress, Moved, Inserted, Rebuilt, Retired
  <2> QED
    BY <2>1, <2>2
<1>6. Recorded'
  BY <1>1, <1>2 DEF Recorded, RecordedFileIsComplete, NoDanglingBlob
<1> QED
  BY <1>3, <1>4, <1>5, <1>6

\* Steps under the lock that write no row of the ledger and leave the FILE row alone,
\* to where nothing is owed.
LEMMA LeaveStep ==
  ASSUME Inv, Types', NEW u \in Uploads,
         CallFails(u) \/ CatchError(u) \/ ReleaseLock(u) \/ (Die(u) /\ pc[u] \in UnderLock)
  PROVE  Inv'
<1> USE DEF Inv, ledger, files, Goto, Types
<1>1. UNCHANGED <<cluster, aggregate, counted, file, blob, todo, retired>> /\ Present' = Present
  BY DEF CallFails, CatchError, ReleaseLock, Die, Present
<1>2. /\ \A v \in Uploads \ {u} : pc'[v] = pc[v]
      /\ pc[u] \in UnderLock
      /\ pc'[u] \in {"failing", "failed", "died", "done"}
      /\ pc'[u] = "done" => pc[u] = "releasing"
  BY DEF CallFails, CatchError, ReleaseLock, Die, UnderLock, Persisting
<1>3. lock = u
  BY <1>2 DEF HolderIsAlone
<1>4. IF pc'[u] \in UnderLock THEN lock' = u ELSE lock' \in {u, NoUpload}
  BY <1>3 DEF CallFails, CatchError, ReleaseLock, Die, UnderLock, Persisting
<1>5. Progress(u)'
  BY <1>2 DEF Progress, Unplanned
<1>6. pc'[u] = "done" => file'[u] # Absent
  BY <1>1, <1>2 DEF Progress
<1>7. /\ file'[u] # Absent => RowsOf(u) \subseteq Present'
      /\ file'[u] = "withBlob" => u \in blob'
  BY <1>1 DEF Recorded, RecordedFileIsComplete, NoDanglingBlob
<1>8. pc'[u] \notin Unplanned /\ (pc'[u] \in Unwritten => FALSE)
  BY <1>2 DEF Unwritten, Unplanned
<1> QED
  BY <1>1, <1>2, <1>4, <1>5, <1>6, <1>7, <1>8, StepOfHolder DEF PcStates, UnderLock, Persisting, Answered

LEMMA ResolveAccountStep ==
  ASSUME Inv, Types', NEW u \in Uploads, ResolveAccount(u) PROVE Inv'
<1> USE DEF Inv, ledger, files, Goto, Types, ResolveAccount
<1>1. Present' = Present
  BY DEF Present
<1>2. pc[u] \in UnderLock /\ pc'[u] \in UnderLock /\ pc'[u] \in PcStates /\ lock' = u
  BY DEF UnderLock, HolderIsAlone, PcStates
<1>3. Progress(u)'
  BY DEF Progress, Unplanned
<1>4. /\ file'[u] # Absent => RowsOf(u) \subseteq Present'
      /\ file'[u] = "withBlob" => u \in blob'
  BY <1>1 DEF Recorded, RecordedFileIsComplete, NoDanglingBlob
<1> QED
  BY <1>2, <1>3, <1>4, StepOfHolder DEF Unwritten, Unplanned

LEMMA PlanImportStep ==
  ASSUME Inv, Types', NEW u \in Uploads, PlanImport(u) PROVE Inv'
<1> USE DEF Inv, ledger, files, Goto, Types, PlanImport
<1>1. Present' = Present
  BY DEF Present
<1>2. pc[u] \in UnderLock /\ pc'[u] \in UnderLock /\ pc'[u] \in PcStates /\ lock' = u
  BY DEF UnderLock, Persisting, HolderIsAlone, PcStates
<1>3. todo[u] = {} /\ \A t \in Rows : cluster[t] # u
  BY DEF Progress, Unplanned, Early
<1>4. Progress(u)'
  <2>1. CASE RowsOf(u) = {}
    BY <1>1, <1>3, <2>1 DEF Progress, Unplanned
  <2>2. CASE RowsOf(u) # {}
    <3>1. todo'[u] = Present /\ retired'[u] = {cluster[t] : t \in Present}
      BY <2>2
    <3>2. u \notin retired'[u] /\ todo'[u] \subseteq Rows
      BY <1>3, <3>1 DEF Present
    <3> QED
      BY <1>1, <3>1, <3>2 DEF Progress, Unplanned
  <2> QED
    BY <2>1, <2>2
<1>5. /\ file'[u] # Absent => RowsOf(u) \subseteq Present'
      /\ file'[u] = "withBlob" => u \in blob'
  BY <1>1 DEF Recorded, RecordedFileIsComplete, NoDanglingBlob
<1> QED
  BY <1>2, <1>4, <1>5, StepOfHolder DEF Unwritten, Unplanned

LEMMA WriteRowStep ==
  ASSUME Inv, Types', NEW u \in Uploads, WriteRow(u) PROVE Inv'
<1> USE DEF Inv, ledger, files, Goto, Types
<1>1. PICK t \in todo[u] :
        cluster' = [cluster EXCEPT ![t] = u] /\ todo' = [todo EXCEPT ![u] = @ \ {t}]
  BY DEF WriteRow
<1>2. /\ pc[u] \in {"patch", "insert"}
      /\ UNCHANGED <<lock, aggregate, counted, file, blob, pc, retired>>
  BY DEF WriteRow
<1>3. pc[u] \in UnderLock /\ pc'[u] \in UnderLock /\ pc'[u] \in PcStates /\ lock' = u
  BY <1>2 DEF UnderLock, Persisting, HolderIsAlone
<1>4. u \in Origins /\ RowsOf(u) \subseteq Rows
  BY RowsFacts DEF Origins
<1>5. t \in Rows
  BY <1>2, <1>4 DEF Progress
<1>6. Present' = Present \cup {t} /\ cluster'[t] = u
  BY <1>1, <1>5, ImportInPlaceAssumption DEF Present
<1>7. Progress(u)'
  <2>1. CASE pc[u] = "patch"
    BY <1>1, <1>2, <1>5, <1>6, <2>1 DEF Progress, Unplanned
  <2>2. CASE pc[u] = "insert"
    <3>1. Moved(u)'
      BY <1>1, <1>2, <1>5, <1>6, <2>2 DEF Progress, Moved
    <3>2. RowsOf(u) \ todo'[u] \subseteq Present'
      BY <1>1, <1>6, <2>2 DEF Progress
    <3> QED
      BY <1>1, <1>2, <2>2, <3>1, <3>2 DEF Progress, Unplanned
  <2> QED
    BY <1>2, <2>1, <2>2
<1>8. /\ file'[u] # Absent => RowsOf(u) \subseteq Present'
      /\ file'[u] = "withBlob" => u \in blob'
  BY <1>2, <1>6 DEF Recorded, RecordedFileIsComplete, NoDanglingBlob
<1> QED
  BY <1>1, <1>2, <1>3, <1>5, <1>7, <1>8, StepOfHolder DEF Unwritten, Unplanned

LEMMA RebuildAggregateStep ==
  ASSUME Inv, Types', NEW u \in Uploads, RebuildAggregate(u) PROVE Inv'
<1> USE DEF Inv, ledger, files, Goto, Types
<1>1. /\ pc[u] = "aggregate" /\ pc' = [pc EXCEPT ![u] = "retire"]
      /\ todo' = [todo EXCEPT ![u] = retired[u]]
      /\ UNCHANGED <<lock, cluster, counted, file, blob, retired>>
  BY DEF RebuildAggregate
<1>2. Present' = Present
  BY <1>1 DEF Present
<1>3. pc[u] \in UnderLock /\ pc'[u] \in UnderLock /\ pc'[u] \in PcStates /\ lock' = u
  BY <1>1 DEF UnderLock, Persisting, HolderIsAlone
<1>4. Inserted(u)'
  BY <1>1, <1>2 DEF Progress, Inserted, Moved
<1>5. u \in Origins
  BY DEF Origins
<1>6. RowsOf(u) # {} => aggregate'[u] # Absent
  <2>1. SUFFICES ASSUME RowsOf(u) # {} PROVE aggregate'[u] # Absent
    OBVIOUS
  <2>2. PICK members \in SUBSET {t \in Present : cluster[t] = u} :
          aggregate' = [aggregate EXCEPT ![u] = members]
    BY <2>1 DEF RebuildAggregate
  <2>3. members \in SUBSET Rows
    BY DEF Present
  <2> QED
    BY <1>5, <2>2, <2>3, AbsentAssumption
<1>7. Progress(u)'
  <2>1. Rebuilt(u)'
    BY <1>4, <1>6 DEF Rebuilt, Inserted, Moved
  <2> QED
    BY <1>1, <2>1 DEF Progress, Unplanned
<1>8. /\ file'[u] # Absent => RowsOf(u) \subseteq Present'
      /\ file'[u] = "withBlob" => u \in blob'
  BY <1>1, <1>2 DEF Recorded, RecordedFileIsComplete, NoDanglingBlob
<1> QED
  BY <1>1, <1>3, <1>7, <1>8, StepOfHolder DEF Unwritten, Unplanned

LEMMA RetireClusterStep ==
  ASSUME Inv, Types', NEW u \in Uploads, RetireCluster(u) PROVE Inv'
<1> USE DEF Inv, ledger, files, Goto, Types
<1>1. PICK c \in todo[u] :
        aggregate' = [aggregate EXCEPT ![c] = Absent] /\ todo' = [todo EXCEPT ![u] = @ \ {c}]
  BY DEF RetireCluster
<1>2. /\ pc[u] = "retire"
      /\ UNCHANGED <<lock, cluster, counted, file, blob, pc, retired>>
  BY DEF RetireCluster
<1>3. Present' = Present
  BY <1>2 DEF Present
<1>4. pc[u] \in UnderLock /\ pc'[u] \in UnderLock /\ pc'[u] \in PcStates /\ lock' = u
  BY <1>2 DEF UnderLock, Persisting, HolderIsAlone
<1>5. Rebuilt(u) /\ c \in retired[u] /\ todo[u] \subseteq retired[u] /\ retired[u] \subseteq Origins
  BY <1>1, <1>2 DEF Progress
<1>6. RowsOf(u) # {} => c # u /\ u \notin retired[u]
  BY <1>2, <1>5 DEF Progress
<1>7. Rebuilt(u)'
  BY <1>1, <1>2, <1>3, <1>5, <1>6 DEF Rebuilt, Inserted, Moved
<1>8. \A d \in retired[u] \ todo'[u] : aggregate'[d] = Absent
  BY <1>1, <1>2, <1>5 DEF Progress
<1>9. Progress(u)'
  BY <1>1, <1>2, <1>5, <1>6, <1>7, <1>8 DEF Progress, Unplanned
<1>10. /\ file'[u] # Absent => RowsOf(u) \subseteq Present'
       /\ file'[u] = "withBlob" => u \in blob'
  BY <1>2, <1>3 DEF Recorded, RecordedFileIsComplete, NoDanglingBlob
<1> QED
  BY <1>1, <1>2, <1>4, <1>9, <1>10, StepOfHolder DEF Unwritten, Unplanned

LEMMA EndLoopStep ==
  ASSUME Inv, Types', NEW u \in Uploads, EndLoop(u) PROVE Inv'
<1> USE DEF Inv, ledger, files, Goto, Types
<1>1. /\ pc[u] \in {"patch", "insert", "retire"} /\ todo[u] = {}
      /\ pc' = [pc EXCEPT ![u] = AfterLoop[pc[u]]]
      /\ todo' = [todo EXCEPT ![u] = IF pc[u] = "patch" THEN RowsOf(u) ELSE {}]
      /\ UNCHANGED <<lock, cluster, aggregate, counted, file, blob, retired>>
  BY LoopOrder DEF EndLoop
<1>2. Present' = Present
  BY <1>1 DEF Present
<1>3. pc'[u] \in {"insert", "aggregate", "blob"}
  BY <1>1, LoopOrder
<1>4. pc[u] \in UnderLock /\ pc'[u] \in UnderLock /\ pc'[u] \in PcStates /\ lock' = u
  BY <1>1, <1>3 DEF UnderLock, Persisting, HolderIsAlone, PcStates
<1>5. Progress(u)'
  <2>1. CASE pc[u] = "patch"
    <3>1. pc'[u] = "insert" /\ todo'[u] = RowsOf(u)
      BY <1>1, <2>1, LoopOrder
    <3>2. Moved(u)'
      BY <1>1, <1>2, <2>1 DEF Progress, Moved
    <3> QED
      BY <1>1, <2>1, <3>1, <3>2 DEF Progress, Unplanned
  <2>2. CASE pc[u] = "insert"
    <3>1. pc'[u] = "aggregate"
      BY <1>1, <2>2, LoopOrder
    <3>2. Inserted(u)'
      BY <1>1, <1>2, <2>2 DEF Progress, Inserted, Moved
    <3> QED
      BY <1>1, <2>2, <3>1, <3>2 DEF Progress, Unplanned
  <2>3. CASE pc[u] = "retire"
    <3>1. pc'[u] = "blob"
      BY <1>1, <2>3, LoopOrder
    <3>2. Retired(u)'
      BY <1>1, <1>2, <2>3 DEF Progress, Retired, Rebuilt, Inserted, Moved
    <3> QED
      BY <3>1, <3>2 DEF Progress, Unplanned
  <2> QED
    BY <1>1, <2>1, <2>2, <2>3
<1>6. /\ file'[u] # Absent => RowsOf(u) \subseteq Present'
      /\ file'[u] = "withBlob" => u \in blob'
  BY <1>1, <1>2 DEF Recorded, RecordedFileIsComplete, NoDanglingBlob
<1> QED
  BY <1>1, <1>3, <1>4, <1>5, <1>6, StepOfHolder DEF Unwritten, Unplanned

\* The blob, the FILE row and the metrics: the ledger is finished and stays so.
LEMMA RecordingStep ==
  ASSUME Inv, Types', NEW u \in Uploads,
         PutBlob(u) \/ RecordFile(u) \/ DeleteBlob(u) \/ RecordPlain(u) \/ RefreshMetrics(u)
  PROVE  Inv'
<1> USE DEF Inv, ledger, files, Goto, Types
<1>1. UNCHANGED <<lock, cluster, aggregate, todo, retired>>
  BY DEF PutBlob, RecordFile, DeleteBlob, RecordPlain, RefreshMetrics
<1>2. Present' = Present
  BY <1>1 DEF Present
<1>3. /\ pc[u] \in {"blob", "record", "unblob", "recordPlain", "metrics"}
      /\ pc'[u] \in {"record", "unblob", "recordPlain", "metrics", "failing", "releasing"}
      /\ \A v \in Uploads \ {u} : pc'[v] = pc[v] /\ file'[v] = file[v] /\ todo'[v] = todo[v]
  BY <1>1 DEF PutBlob, RecordFile, DeleteBlob, RecordPlain, RefreshMetrics
<1>4. pc[u] \in UnderLock /\ pc'[u] \in UnderLock /\ pc'[u] \in PcStates /\ lock' = u
  BY <1>1, <1>3 DEF UnderLock, Persisting, HolderIsAlone, PcStates
<1>5. Retired(u) /\ Retired(u)'
  BY <1>1, <1>2, <1>3 DEF Progress, Retired, Rebuilt, Inserted, Moved
<1>6. RowsOf(u) \subseteq Present'
  BY <1>2, <1>5 DEF Retired, Rebuilt, Inserted
<1>7. /\ pc'[u] \in {"metrics", "releasing"} => file'[u] # Absent
      /\ pc'[u] = "releasing" => counted' = Present
      /\ pc'[u] \in {"record", "unblob", "recordPlain"} => file'[u] = file[u]
      /\ pc[u] # "metrics" => file[u] = Absent
      /\ pc'[u] \in {"record", "unblob", "recordPlain"} => pc[u] # "metrics"
  BY <1>3, AbsentAssumption
  DEF PutBlob, RecordFile, DeleteBlob, RecordPlain, RefreshMetrics, Progress, Early, Unwritten
<1>8. Progress(u)'
  BY <1>2, <1>3, <1>5, <1>7 DEF Progress, Unplanned
<1>9. blob \ {u} \subseteq blob' /\ (file'[u] = "withBlob" => u \in blob')
  BY <1>3, <1>7, AbsentAssumption
  DEF PutBlob, RecordFile, DeleteBlob, RecordPlain, RefreshMetrics, Recorded, NoDanglingBlob
<1> QED
  BY <1>1, <1>3, <1>4, <1>6, <1>7, <1>8, <1>9, StepOfHolder DEF Unwritten, Unplanned

LEMMA InvInit == Init => Inv
<1> SUFFICES ASSUME Init PROVE Inv
  OBVIOUS
<1>1. Types
  BY TypesInit
<1>2. \A u \in Uploads : pc[u] = "idle" /\ file[u] = Absent /\ todo[u] = {}
  BY DEF Init
<1>3. \A u \in Uploads : \A t \in Rows : cluster[t] # u
  BY ImportInPlaceAssumption DEF Init
<1>4. HolderIsAlone /\ Early
  BY <1>2, <1>3 DEF HolderIsAlone, Early, UnderLock, Persisting
<1>5. \A u \in Uploads : Progress(u)
  BY <1>2 DEF Progress
<1>6. Recorded
  BY <1>2, AbsentAssumption DEF Recorded, RecordedFileIsComplete, NoDanglingBlob
<1> QED
  BY <1>1, <1>4, <1>5, <1>6 DEF Inv

LEMMA InvUnchanged == ASSUME Inv, UNCHANGED vars PROVE Inv'
<1>1. UNCHANGED <<lock, cluster, aggregate, counted, file, blob, pc, todo, retired>>
  BY DEF vars, ledger, files
<1>2. Present' = Present
  BY <1>1 DEF Present
<1>3. Types' /\ HolderIsAlone' /\ Early' /\ Recorded'
  BY <1>1, <1>2 DEF Inv, Types, HolderIsAlone, Early, Recorded, RecordedFileIsComplete, NoDanglingBlob
<1>4. ASSUME NEW u \in Uploads PROVE Progress(u)'
  <2>1. Progress(u)
    BY DEF Inv
  <2> QED
    BY <1>1, <1>2, <2>1 DEF Progress, Moved, Inserted, Rebuilt, Retired
<1> QED
  BY <1>3, <1>4 DEF Inv

LEMMA InvStep == ASSUME Inv, [Next]_vars PROVE Inv'
<1>1. Types'
  BY TypesStep DEF Inv
<1>2. CASE UNCHANGED vars
  BY <1>2, InvUnchanged
<1>3. ASSUME NEW u \in Uploads,
        \/ CheckDuplicate(u) \/ AcquireLock(u) \/ ResolveAccount(u) \/ PlanImport(u)
        \/ Persist(u) \/ CallFails(u) \/ CatchError(u) \/ Die(u)
      PROVE Inv'
  <2>1. CASE CheckDuplicate(u) \/ AcquireLock(u)
    BY <1>1, <2>1, OutsideStep
  <2>2. CASE ResolveAccount(u)
    BY <1>1, <2>2, ResolveAccountStep
  <2>3. CASE PlanImport(u)
    BY <1>1, <2>3, PlanImportStep
  <2>4. CASE Persist(u)
    BY <1>1, <2>4, WriteRowStep, RebuildAggregateStep, RetireClusterStep, EndLoopStep,
       RecordingStep, LeaveStep DEF Persist
  <2>5. CASE CallFails(u) \/ CatchError(u)
    BY <1>1, <2>5, LeaveStep
  <2>6. CASE Die(u)
    BY <1>1, <2>6, LeaveStep, OutsideStep DEF Die
  <2> QED
    BY <1>3, <2>1, <2>2, <2>3, <2>4, <2>5, <2>6
<1> QED
  BY <1>2, <1>3 DEF Next

LEMMA InvHolds == Spec => []Inv
BY InvInit, InvStep, PTL DEF Spec

-----------------------------------------------------------------------------
\* A FILE row refuses the same bytes for good; it only exists when every row of
\* its file is in the ledger, whatever failed or died before or after.
THEOREM FileRowsAreComplete == Spec => []RecordedFileIsComplete
<1>1. Inv => RecordedFileIsComplete
  BY DEF Inv, Recorded
<1> QED
  BY <1>1, InvHolds, PTL

\* No FILE row points at bytes the blob store does not have.
THEOREM BlobsAreThere == Spec => []NoDanglingBlob
<1>1. Inv => NoDanglingBlob
  BY DEF Inv, Recorded
<1> QED
  BY <1>1, InvHolds, PTL

\* 200 is only answered for an import that is on primary as a whole.
THEOREM SuccessIsComplete == Spec => SuccessCommitsEverything
<1> DEFINE Complete == \A u \in Uploads : pc[u] # "done" /\ pc'[u] = "done" =>
         /\ file[u] # Absent
         /\ counted = Present
         /\ RowsOf(u) # {} =>
              /\ RowsOf(u) \subseteq Present
              /\ \A t \in Present : cluster[t] = u
              /\ aggregate[u] # Absent
              /\ \A c \in retired[u] : aggregate[c] = Absent
<1>1. ASSUME Inv, [Next]_vars PROVE Complete
  <2> SUFFICES ASSUME NEW u \in Uploads, pc[u] # "done", pc'[u] = "done"
               PROVE  pc[u] = "releasing"
    BY <1>1 DEF Inv, Progress, Retired, Rebuilt, Inserted, Moved
  <2>1. pc' # pc
    OBVIOUS
  <2>2. PICK v \in Uploads :
        \/ CheckDuplicate(v) \/ AcquireLock(v) \/ ResolveAccount(v) \/ PlanImport(v)
        \/ Persist(v) \/ CallFails(v) \/ CatchError(v) \/ Die(v)
    BY <1>1, <2>1 DEF Next, vars
  <2>3. pc \in [Uploads -> PcStates]
    BY <1>1 DEF Inv, Types
  <2>4. CASE ReleaseLock(v)
    BY <2>3, <2>4 DEF ReleaseLock, Goto
  <2>5. CASE EndLoop(v)
    BY <2>3, <2>5, LoopOrder DEF EndLoop, Goto
  <2>6. CASE ~ReleaseLock(v) /\ ~EndLoop(v)
    BY <2>2, <2>3, <2>6
    DEF CheckDuplicate, AcquireLock, ResolveAccount, PlanImport, Persist, WriteRow, RebuildAggregate,
        RetireCluster, PutBlob, RecordFile, DeleteBlob, RecordPlain, RefreshMetrics, CallFails,
        CatchError, Die, Goto
  <2> QED
    BY <2>4, <2>5, <2>6
<1> QED
  BY <1>1, InvHolds, PTL DEF Spec, SuccessCommitsEverything

\* Whoever answered 200 has its FILE row, so a later check of the same bytes refuses.
THEOREM LateDuplicatesAreRefused == Spec => LateDuplicateRefused
<1> DEFINE Refused == \A u \in Uploads : pc[u] = "idle" /\ pc'[u] = "checked" =>
         \A v \in Uploads : File[v] = File[u] => pc[v] # "done"
<1>1. ASSUME Inv, [Next]_vars PROVE Refused
  <2> SUFFICES ASSUME NEW u \in Uploads, pc[u] = "idle", pc'[u] = "checked",
                      NEW v \in Uploads, File[v] = File[u]
               PROVE  pc[v] # "done"
    OBVIOUS
  <2>1. pc' # pc
    OBVIOUS
  <2>2. PICK w \in Uploads :
        \/ CheckDuplicate(w) \/ AcquireLock(w) \/ ResolveAccount(w) \/ PlanImport(w)
        \/ Persist(w) \/ CallFails(w) \/ CatchError(w) \/ Die(w)
    BY <1>1, <2>1 DEF Next, vars
  <2>3. pc \in [Uploads -> PcStates]
    BY <1>1 DEF Inv, Types
  <2>4. CASE CheckDuplicate(w)
    <3>1. w = u /\ ~Duplicate(u)
      BY <2>3, <2>4 DEF CheckDuplicate, Goto
    <3> QED
      BY <1>1, <3>1 DEF Duplicate, Inv, Recorded
  <2>5. CASE EndLoop(w)
    BY <2>3, <2>5, LoopOrder DEF EndLoop, Goto
  <2>6. CASE ~CheckDuplicate(w) /\ ~EndLoop(w)
    BY <2>2, <2>3, <2>6
    DEF AcquireLock, ResolveAccount, PlanImport, Persist, WriteRow, RebuildAggregate,
        RetireCluster, PutBlob, RecordFile, DeleteBlob, RecordPlain, RefreshMetrics, CallFails,
        ReleaseLock, CatchError, Die, Goto
  <2> QED
    BY <2>4, <2>5, <2>6
<1> QED
  BY <1>1, InvHolds, PTL DEF Spec, LateDuplicateRefused

-----------------------------------------------------------------------------
\* The lock row is handled as PartitionLocks says. A step that leaves every upload
\* where the lock protocol sees it is a stutter there.
LEMMA LockPcs ==
  ASSUME NEW u \in Uploads, pc[u] \in PcStates
  PROVE  /\ pc[u] \in {"idle", "duplicate"} => LockPc(u) = "idle"
         /\ pc[u] = "checked" => LockPc(u) = "checked"
         /\ pc[u] = "locked out" => LockPc(u) = "refused"
         /\ pc[u] = "done" => LockPc(u) = "done"
         /\ pc[u] = "died" => LockPc(u) = "stopped"
         /\ pc[u] = "failed" /\ lock = u => LockPc(u) = "stopped"
         /\ pc[u] = "failed" /\ lock # u => LockPc(u) = "failed"
         /\ pc[u] \in UnderLock => LockPc(u) = "held"
BY DEF LockPc, UnderLock, Persisting

LEMMA LockPcsNext ==
  ASSUME NEW u \in Uploads, pc'[u] \in PcStates
  PROVE  /\ pc'[u] \in {"idle", "duplicate"} => LockPc(u)' = "idle"
         /\ pc'[u] = "checked" => LockPc(u)' = "checked"
         /\ pc'[u] = "locked out" => LockPc(u)' = "refused"
         /\ pc'[u] = "done" => LockPc(u)' = "done"
         /\ pc'[u] = "died" => LockPc(u)' = "stopped"
         /\ pc'[u] = "failed" /\ lock' = u => LockPc(u)' = "stopped"
         /\ pc'[u] = "failed" /\ lock' # u => LockPc(u)' = "failed"
         /\ pc'[u] \in UnderLock => LockPc(u)' = "held"
BY DEF LockPc, UnderLock, Persisting

LEMMA LocksInit == Init => Locks!Init
<1> SUFFICES ASSUME Init PROVE Locks!Init
  OBVIOUS
<1>1. \A u \in Uploads : LockPc(u) = "idle"
  BY LockPcs DEF Init, PcStates
<1>2. lock = NoUpload
  BY DEF Init
<1> QED
  BY <1>1, <1>2 DEF Locks!Init, Locks!Kinds, Locks!Requests

\* What a step of one upload does to the lock rows, seen from PartitionLocks.
LEMMA LocksOfOne ==
  ASSUME NEW u \in Uploads, \A v \in Uploads \ {u} : LockPc(v)' = LockPc(v),
         \/ lock' = lock /\ LockPc(u)' = LockPc(u)
         \/ lock' = lock /\ LockPc(u) = "idle" /\ LockPc(u)' = "checked"
         \/ lock = NoUpload /\ lock' = u /\ LockPc(u) = "checked" /\ LockPc(u)' = "held"
         \/ lock # NoUpload /\ lock' = lock /\ LockPc(u) = "checked" /\ LockPc(u)' = "refused"
         \/ lock' = NoUpload /\ LockPc(u) = "held" /\ LockPc(u)' \in {"done", "failed"}
         \/ lock' = lock /\ LockPc(u) \in {"checked", "held"} /\ LockPc(u)' = "stopped"
  PROVE  [Locks!Next]_(Locks!vars)
<1> DEFINE rows == [k \in {"restore", "import"} |-> IF k = "import" THEN lock ELSE NoUpload]
           pcs == [v \in Uploads |-> LockPc(v)]
<1>1. pcs' = [pcs EXCEPT ![u] = LockPc(u)'] /\ pcs[u] = LockPc(u)
  OBVIOUS
<1>2. /\ rows["restore"] = NoUpload /\ rows["import"] = lock
      /\ lock' = lock => rows' = rows
      /\ rows' = [rows EXCEPT !["import"] = lock']
  OBVIOUS
<1>3. Locks!Kind(u) = "import" /\ u \in Locks!Requests /\ Locks!Other("import") = "restore"
  BY DEF Locks!Kind, Locks!Requests, Locks!Other
<1> HIDE DEF rows, pcs
<1>4. CASE lock' = lock /\ LockPc(u)' = LockPc(u)
  <2>1. pcs' = pcs
    BY <1>1, <1>4 DEF pcs
  <2> QED
    BY <1>2, <1>4, <2>1 DEF Locks!vars, rows, pcs
<1>5. CASE lock' = lock /\ LockPc(u) = "idle" /\ LockPc(u)' = "checked"
  <2>1. Locks!ReadOtherLock(u)
    BY <1>1, <1>2, <1>3, <1>5 DEF Locks!ReadOtherLock, Locks!Seen, Locks!Goto, rows, pcs
  <2> QED
    BY <1>3, <2>1 DEF Locks!Next
<1>6. CASE \/ lock = NoUpload /\ lock' = u /\ LockPc(u) = "checked" /\ LockPc(u)' = "held"
           \/ lock # NoUpload /\ lock' = lock /\ LockPc(u) = "checked" /\ LockPc(u)' = "refused"
  <2>1. Locks!PutLock(u)
    BY <1>1, <1>2, <1>3, <1>6 DEF Locks!PutLock, Locks!Goto, rows, pcs
  <2> QED
    BY <1>3, <2>1 DEF Locks!Next, Locks!Handler
<1>7. CASE lock' = NoUpload /\ LockPc(u) = "held" /\ LockPc(u)' \in {"done", "failed"}
  <2>1. Locks!Finish(u) \/ Locks!GiveUp(u)
    BY <1>1, <1>2, <1>3, <1>7
    DEF Locks!Finish, Locks!GiveUp, Locks!Goto, Locks!DeleteLock, rows, pcs
  <2> QED
    BY <1>3, <2>1 DEF Locks!Next, Locks!Handler
<1>8. CASE lock' = lock /\ LockPc(u) \in {"checked", "held"} /\ LockPc(u)' = "stopped"
  <2>1. Locks!Stop(u)
    BY <1>1, <1>2, <1>3, <1>8 DEF Locks!Stop, Locks!Goto, rows, pcs
  <2> QED
    BY <1>3, <2>1 DEF Locks!Next
<1> QED
  BY <1>4, <1>5, <1>6, <1>7, <1>8

LEMMA LocksStep == ASSUME Inv, Inv', [Next]_vars PROVE [Locks!Next]_(Locks!vars)
<1> USE DEF Inv, Types
<1>1. CASE UNCHANGED vars
  <2>1. lock' = lock /\ pc' = pc
    BY <1>1 DEF vars
  <2>2. \A v \in Uploads : LockPc(v)' = LockPc(v)
    BY <2>1 DEF LockPc
  <2> QED
    BY <2>1, <2>2 DEF Locks!vars
<1>2. ASSUME NEW u \in Uploads,
        \/ CheckDuplicate(u) \/ AcquireLock(u) \/ ResolveAccount(u) \/ PlanImport(u)
        \/ Persist(u) \/ CallFails(u) \/ CatchError(u) \/ Die(u)
      PROVE [Locks!Next]_(Locks!vars)
  <2>1. /\ \A v \in Uploads \ {u} : pc'[v] = pc[v]
        /\ \/ pc[u] = "idle" /\ pc'[u] \in {"duplicate", "checked"} /\ lock' = lock
           \/ pc[u] = "checked" /\ lock = NoUpload /\ pc'[u] = "locked" /\ lock' = u
           \/ pc[u] = "checked" /\ lock # NoUpload /\ pc'[u] = "locked out" /\ lock' = lock
           \/ pc[u] = "checked" /\ pc'[u] = "died" /\ lock' = lock
           \/ pc[u] \in UnderLock /\ pc'[u] \in UnderLock \cup {"died"} /\ lock' = lock
           \/ pc[u] = "releasing" /\ pc'[u] = "done" /\ lock' = NoUpload
           \/ pc[u] = "releasing" /\ pc'[u] = "failed" /\ lock' = lock
           \/ pc[u] = "failing" /\ pc'[u] = "failed" /\ lock' \in {NoUpload, lock}
    <3>1. CASE EndLoop(u)
      BY <3>1, LoopOrder DEF EndLoop, Goto, UnderLock, Persisting
    <3>2. CASE ~EndLoop(u)
      BY <1>2, <3>2
      DEF CheckDuplicate, AcquireLock, ResolveAccount, PlanImport, Persist, WriteRow, RebuildAggregate,
          RetireCluster, PutBlob, RecordFile, DeleteBlob, RecordPlain, RefreshMetrics, CallFails,
          ReleaseLock, CatchError, Die, Goto, UnderLock, Persisting
    <3> QED
      BY <3>1, <3>2
  <2>2. lock' # lock => /\ lock \in {NoUpload, u} /\ lock' \in {NoUpload, u}
    BY <2>1 DEF HolderIsAlone, UnderLock, Persisting
  <2>3. \A v \in Uploads \ {u} : LockPc(v)' = LockPc(v)
    <3> SUFFICES ASSUME NEW v \in Uploads \ {u} PROVE LockPc(v)' = LockPc(v)
      OBVIOUS
    <3>1. pc'[v] = pc[v] /\ (lock' = v <=> lock = v)
      BY <2>1, <2>2, ImportInPlaceAssumption
    <3> QED
      BY <3>1 DEF LockPc
  <2>4. pc[u] \in UnderLock => lock = u /\ lock # NoUpload
    BY ImportInPlaceAssumption DEF HolderIsAlone
  <2>5. {"releasing", "failing"} \subseteq UnderLock
    BY DEF UnderLock, Persisting
  <2>6. pc[u] \in PcStates /\ pc'[u] \in PcStates /\ "locked" \in UnderLock
    BY DEF UnderLock
  <2>7. \/ lock' = lock /\ LockPc(u)' = LockPc(u)
        \/ lock' = lock /\ LockPc(u) = "idle" /\ LockPc(u)' = "checked"
        \/ lock = NoUpload /\ lock' = u /\ LockPc(u) = "checked" /\ LockPc(u)' = "held"
        \/ lock # NoUpload /\ lock' = lock /\ LockPc(u) = "checked" /\ LockPc(u)' = "refused"
        \/ lock' = NoUpload /\ LockPc(u) = "held" /\ LockPc(u)' \in {"done", "failed"}
        \/ lock' = lock /\ LockPc(u) \in {"checked", "held"} /\ LockPc(u)' = "stopped"
    BY <2>1, <2>4, <2>5, <2>6, LockPcs, LockPcsNext
  <2> QED
    BY <2>3, <2>7, LocksOfOne
<1> QED
  BY <1>1, <1>2 DEF Next

THEOREM LocksAreImplemented == Spec => ImplementsLocks
<1>1. Inv /\ Inv' /\ [Next]_vars => [Locks!Next]_(Locks!vars)
  BY LocksStep
<1> QED
  BY <1>1, LocksInit, InvHolds, PTL DEF Spec, ImplementsLocks, Locks!Spec
=============================================================================
