------------------------ MODULE StagedReplaceProofs -------------------------
(***************************************************************************)
(* For any jobs, keys and snapshots: staged restores and imports handle    *)
(* their lock rows as PartitionLocks says, and where jobs cannot disturb   *)
(* each other each of them is one atomic replacement of the ledger.        *)
(***************************************************************************)
EXTENDS StagedReplace, FiniteSetTheorems, TLAPS

TableNames == Kinds \cup {"primary"}

Types ==
    /\ table \in [TableNames -> Tables]
    /\ lock \in [Kinds -> Jobs \cup {NoJob}]
    /\ \A k \in Kinds : lock[k] # NoJob => Kind(lock[k]) = k
    /\ phase \in [Jobs -> Phases]
    /\ run \in [Jobs -> {"running", "answered", "died"}]
    /\ left \in [Jobs -> SUBSET Keys]
    /\ rows \in [Jobs -> Tables]
    /\ \A w \in stray : w.to \in TableNames /\ w.key \in Keys /\ w.row \in Rows \cup {Absent}
    /\ abortLeft \subseteq Keys

\* Nobody takes the lock row of such a job away: only the abort would, once a
\* restore has stopped.
Keeps(j) == HoldsLock(j) /\ (run[j] = "running" \/ AbortPolicy = "never" \/ j \in Imports)

Own == \A j \in Jobs : Keeps(j) => lock[Kind(j)] = j
Locked == \A k \in Kinds : lock[k] # NoJob => HoldsLock(lock[k])

\* Where the job of an answered request is.
Ended ==
    \A j \in Jobs :
        /\ phase[j] \in {"planning", "collect"} => j \in Imports
        /\ run[j] = "answered" =>
             phase[j] \in AfterPrimaryDelete \cup {"release", "collect", "refused", "done", "failed"}

LockInv == Types /\ Own /\ Locked /\ Ended

\* The two assumptions under which jobs cannot disturb each other: acquires of the
\* two kinds do not race, and no write outlives its job into the next one.
Exclusive == RacyAcquires => Restores = {} \/ Imports = {}
Isolated ==
    ChunkMayFail =>
        /\ AbortPolicy = "never"
        /\ \A i, j \in Jobs : Kind(i) = Kind(j) => i = j

OneLock ==
    /\ \A k \in Kinds : lock[k] # NoJob => lock[Other(k)] = NoJob
    /\ \A j \in Jobs : At(j, "checked") => lock[Other(Kind(j))] = NoJob
    /\ ~RacyAcquires => \A i, j \in Jobs : At(i, "checked") /\ At(j, "checked") => i = j

Strays ==
    /\ stray # {} => ChunkMayFail
    /\ AbortPolicy = "never" => abortLeft = {}
    /\ \A w \in stray :
         /\ \A j \in Jobs : Kind(j) = w.to => phase[j] \in {"cleanup", "release", "failed"}
         /\ w.to = "primary" =>
              \E j \in Jobs : phase[j] = "writePrimary" /\ run[j] # "running"

\* What a job has achieved, and what survives its death.
Work(j) ==
    /\ run[j] = "running" =>
         /\ phase[j] \in BeforePrimaryDelete => rows[j] = Outcome(j, table["primary"])
         /\ phase[j] = "clearStaging" => \A k \in Keys \ left[j] : table[Kind(j)][k] = Absent
         /\ phase[j] \in {"writeStaging", "readBack"} =>
              \A k \in Keys : table[Kind(j)][k] \in {Absent, rows[j][k]}
         /\ j \in Imports /\ phase[j] \in {"writeStaging", "readBack"} =>
              \A k \in Keys \ left[j] : table[Kind(j)][k] = rows[j][k]
         /\ phase[j] = "readBack" => left[j] = {}
         /\ phase[j] = "clearPrimary" => \A k \in Keys \ left[j] : table["primary"][k] = Absent
         /\ phase[j] = "writePrimary" =>
              \A k \in Keys \ left[j] : table["primary"][k] = rows[j][k]
         /\ phase[j] \in {"drainStaging", "finish"} => table["primary"] = rows[j]
    /\ j \in Restores /\ phase[j] \in AfterPrimaryDelete => rows[j] = Restored(j)
    /\ Replacing(j) /\ (AbortPolicy = "never" \/ j \in Imports) => table[Kind(j)] = rows[j]

WorkInv == LockInv /\ OneLock /\ Strays /\ \A j \in Jobs : Work(j)

-----------------------------------------------------------------------------
LEMMA KindFacts ==
  /\ \A j \in Jobs : Kind(j) \in Kinds /\ (Kind(j) = "restore" <=> j \in Restores)
                     /\ (Kind(j) = "import" <=> j \in Imports)
  /\ NoJob \notin Jobs
  /\ \A k \in Kinds : Other(k) \in Kinds /\ Other(k) # k
BY StagedReplaceAssumption DEF Kind, Kinds, Other, Jobs

LEMMA PhaseOrder ==
  /\ DOMAIN Following = {"clearStaging", "writeStaging", "clearPrimary", "writePrimary",
                         "drainStaging", "cleanup"}
  /\ Following["clearStaging"] = "writeStaging" /\ Following["writeStaging"] = "readBack"
  /\ Following["clearPrimary"] = "writePrimary" /\ Following["writePrimary"] = "drainStaging"
  /\ Following["drainStaging"] = "finish" /\ Following["cleanup"] = "release"
BY DEF Following

LEMMA KeysOfType ==
  ASSUME NEW j, NEW p PROVE KeysOf(j, p) \subseteq Keys
BY DEF KeysOf, Present

LEMMA OutcomeType ==
  ASSUME NEW j \in Jobs, NEW t \in Tables
  PROVE  Outcome(j, t) \in Tables /\ Restored(j) \in Tables /\ Imported(j, t) \in Tables
<1>1. Restored(j) \in Tables
  BY DEF Restored, Tables, Rows
<1>2. Imported(j, t) \in Tables
  BY DEF Imported, Tables, Rows
<1> QED
  BY <1>1, <1>2 DEF Outcome

LEMMA TypesInit == Init => Types
<1> SUFFICES ASSUME Init PROVE Types
  OBVIOUS
<1>1. Empty \in Tables /\ Initial \in Tables
  BY StagedReplaceAssumption DEF Empty, Tables
<1> QED
  BY <1>1 DEF Init, Types, TableNames, Phases

LEMMA TypesStep == ASSUME Types, [Next]_vars PROVE Types'
<1> USE KindFacts DEF Types
<1>1. CASE UNCHANGED vars
  BY <1>1 DEF vars
<1>2. ASSUME NEW j \in Jobs, Workflow(j) \/ Failure(j) PROVE Types'
  <2> USE DEF Phases, Goto, Enter, Answer, At
  <2>1. CASE CheckLock(j)
    BY <2>1 DEF CheckLock
  <2>2. CASE PutLock(j)
    <3>1. Restored(j) \in Tables
      BY OutcomeType DEF Restored, Tables, Rows
    <3>2. KeysOf(j, "clearStaging") \subseteq Keys
      BY KeysOfType
    <3>3. /\ lock' \in [Kinds -> Jobs \cup {NoJob}]
          /\ \A k \in Kinds : lock'[k] # NoJob => Kind(lock'[k]) = k
      BY <2>2 DEF PutLock
    <3> QED
      BY <2>2, <3>1, <3>2, <3>3 DEF PutLock
  <2>3. CASE Plan(j)
    BY <2>3 DEF Plan
  <2>4. CASE Collect(j)
    <3>1. Imported(j, table["primary"]) \in Tables
      BY OutcomeType DEF TableNames
    <3>2. KeysOf(j, "clearStaging") \subseteq Keys
      BY KeysOfType
    <3> QED
      BY <2>4, <3>1, <3>2 DEF Collect
  <2>5. CASE DeleteNext(j)
    <3>1. TableOf(j) \in TableNames
      BY DEF TableOf, TableNames
    <3>2. \A t \in Tables : \A k : [t EXCEPT ![k] = Absent] \in Tables
      BY DEF Tables
    <3>3. table' \in [TableNames -> Tables]
      BY <2>5, <3>1, <3>2 DEF DeleteNext
    <3> QED
      BY <2>5, <3>3 DEF DeleteNext
  <2>6. CASE PutOne(j)
    <3>1. TableOf(j) \in TableNames
      BY DEF TableOf, TableNames
    <3>2. PICK k \in left[j] : /\ table' = [table EXCEPT ![TableOf(j)][k] = rows[j][k]]
                               /\ left' = [left EXCEPT ![j] = @ \ {k}]
      BY <2>6 DEF PutOne
    <3>3. \A t \in Tables : [t EXCEPT ![k] = rows[j][k]] \in Tables
      BY DEF Tables
    <3>4. table' \in [TableNames -> Tables]
      BY <3>1, <3>2, <3>3
    <3> QED
      BY <2>6, <3>2, <3>4 DEF PutOne
  <2>7. CASE EndPhase(j)
    <3>1. Following[phase[j]] \in Phases
      BY <2>7, PhaseOrder DEF EndPhase
    <3>2. KeysOf(j, Following[phase[j]]) \subseteq Keys
      BY KeysOfType
    <3> QED
      BY <2>7, <3>1, <3>2 DEF EndPhase
  <2>8. CASE ReadBack(j)
    <3>1. KeysOf(j, "clearPrimary") \subseteq Keys /\ KeysOf(j, "cleanup") \subseteq Keys
      BY KeysOfType
    <3> QED
      BY <2>8, <3>1 DEF ReadBack, TableNames
  <2>9. CASE Finish(j)
    BY <2>9 DEF Finish, ReleaseTo
  <2>10. CASE CollectFails(j) \/ ReleaseFails(j)
    BY <2>10 DEF CollectFails, ReleaseFails
  <2>11. CASE CallFails(j)
    <3>1. KeysOf(j, "cleanup") \subseteq Keys
      BY KeysOfType
    <3> QED
      BY <2>11, <3>1 DEF CallFails, Catch
  <2>12. CASE ChunkFails(j)
    <3>1. KeysOf(j, "cleanup") \subseteq Keys
      BY KeysOfType
    <3>2. TableOf(j) \in TableNames
      BY DEF TableOf, TableNames
    <3>3. \A m \in left[j] : rows[j][m] \in Rows \cup {Absent}
      BY DEF Tables
    <3>4. \A w \in stray' : w.to \in TableNames /\ w.key \in Keys /\ w.row \in Rows \cup {Absent}
      BY <2>12, <3>2, <3>3 DEF ChunkFails
    <3> QED
      BY <2>12, <3>1, <3>4 DEF ChunkFails, Catch
  <2>13. CASE CleanupFails(j) \/ PlanFails(j)
    <3>1. KeysOf(j, "release") \subseteq Keys
      BY KeysOfType
    <3> QED
      BY <2>13, <3>1 DEF CleanupFails, PlanFails
  <2>14. CASE Die(j)
    BY <2>14 DEF Die
  <2> QED
    BY <1>2, <2>1, <2>2, <2>3, <2>4, <2>5, <2>6, <2>7, <2>8, <2>9, <2>10, <2>11, <2>12,
       <2>13, <2>14 DEF Workflow, Failure
<1>3. CASE StrayLands
  <2>1. PICK w \in stray : /\ table' = [table EXCEPT ![w.to][w.key] = w.row]
                           /\ stray' = stray \ {w}
                           /\ UNCHANGED <<lock, phase, run, left, rows, abortLeft>>
    BY <1>3 DEF StrayLands
  <2>2. \A t \in Tables : [t EXCEPT ![w.key] = w.row] \in Tables
    BY DEF Tables
  <2> QED
    BY <2>1, <2>2
<1>4. CASE Abort \/ AbortFails
  BY <1>4 DEF Abort, AbortFails, Kinds
<1>5. CASE AbortClears
  <2>1. \A t \in Tables : \A k : [t EXCEPT ![k] = Absent] \in Tables
    BY DEF Tables
  <2> QED
    BY <1>5, <2>1 DEF AbortClears, TableNames, Kinds
<1> QED
  BY <1>1, <1>2, <1>3, <1>4, <1>5 DEF Next

-----------------------------------------------------------------------------
LEMMA LockInvInit == Init => LockInv
<1> SUFFICES ASSUME Init PROVE LockInv
  OBVIOUS
<1>1. Types
  BY TypesInit
<1> QED
  BY <1>1, KindFacts DEF Init, LockInv, Own, Locked, Ended, Keeps, HoldsLock

\* A step of a job that leaves the lock rows alone and stays on its side of the
\* acquire, or of nobody.
LEMMA LockFrame ==
  ASSUME LockInv, Types', lock' = lock, NEW j \in Jobs,
         \A i \in Jobs \ {j} : phase'[i] = phase[i] /\ run'[i] = run[i],
         HoldsLock(j) => HoldsLock(j)', Keeps(j)' => Keeps(j),
         phase'[j] \in {"planning", "collect"} => j \in Imports,
         run'[j] = "answered" =>
             phase'[j] \in AfterPrimaryDelete \cup {"release", "collect", "refused", "done", "failed"}
  PROVE  LockInv'
<1>1. \A i \in Jobs : HoldsLock(i) => HoldsLock(i)'
  BY DEF HoldsLock
<1>2. \A i \in Jobs : Keeps(i)' => Keeps(i)
  BY DEF HoldsLock, Keeps
<1>3. Own'
  BY <1>2 DEF LockInv, Own
<1>4. Locked'
  BY <1>1 DEF LockInv, Locked, Types
<1>5. Ended'
  BY DEF LockInv, Ended
<1> QED
  BY <1>3, <1>4, <1>5 DEF LockInv

LEMMA ReleaseLockInv ==
  ASSUME LockInv, Types', NEW j \in Jobs, NEW p \in {"done", "failed"},
         run[j] = "running", HoldsLock(j), ReleaseTo(j, p)
  PROVE  LockInv'
<1> USE KindFacts DEF LockInv, Types
<1>1. lock[Kind(j)] = j
  BY DEF Own, Keeps
<1>2. /\ lock' = [lock EXCEPT ![Kind(j)] = NoJob]
      /\ phase' = [phase EXCEPT ![j] = p] /\ run' = [run EXCEPT ![j] = "answered"]
  BY DEF ReleaseTo, Goto, Answer
<1>3. ~HoldsLock(j)'
  BY <1>2 DEF HoldsLock
<1>4. \A i \in Jobs \ {j} : (HoldsLock(i)' <=> HoldsLock(i)) /\ (Keeps(i)' <=> Keeps(i))
  BY <1>2 DEF HoldsLock, Keeps
<1>5. \A i \in Jobs \ {j} : Keeps(i) => Kind(i) # Kind(j)
  BY <1>1 DEF Own
<1>6. Own'
  BY <1>2, <1>3, <1>4, <1>5 DEF Own, Keeps
<1>7. Locked'
  BY <1>1, <1>2, <1>4 DEF Locked
<1>8. Ended'
  BY <1>2 DEF Ended
<1> QED
  BY <1>6, <1>7, <1>8

LEMMA PutLockLockInv ==
  ASSUME LockInv, Types', NEW j \in Jobs, PutLock(j) PROVE LockInv'
<1> USE KindFacts DEF LockInv, Types
<1>1. /\ phase[j] = "checked" /\ run[j] = "running"
      /\ \A i \in Jobs \ {j} : phase'[i] = phase[i] /\ run'[i] = run[i]
  BY DEF PutLock, At, Goto, Enter, Answer
<1>2. CASE lock[Kind(j)] # NoJob
  <2>1. lock' = lock /\ phase'[j] = "refused"
    BY <1>2 DEF PutLock, Goto
  <2> QED
    BY <1>1, <2>1, LockFrame DEF HoldsLock, Keeps
<1>3. CASE lock[Kind(j)] = NoJob
  <2>1. /\ lock' = [lock EXCEPT ![Kind(j)] = j] /\ run' = run
        /\ phase'[j] \in {"clearStaging", "planning"} /\ (phase'[j] = "planning" => j \in Imports)
    BY <1>3 DEF PutLock, Goto, Enter, Jobs
  <2>2. \A i \in Jobs : Keeps(i) => Kind(i) # Kind(j)
    BY <1>3 DEF Own
  <2>3. \A i \in Jobs \ {j} : (HoldsLock(i)' <=> HoldsLock(i)) /\ (Keeps(i)' <=> Keeps(i))
    BY <1>1 DEF HoldsLock, Keeps
  <2>4. HoldsLock(j)'
    BY <2>1 DEF HoldsLock
  <2>5. Own'
    BY <2>1, <2>2, <2>3 DEF Own
  <2>6. Locked'
    BY <2>1, <2>3, <2>4 DEF Locked
  <2>7. Ended'
    BY <1>1, <2>1 DEF Ended
  <2> QED
    BY <2>5, <2>6, <2>7
<1> QED
  BY <1>2, <1>3

\* Statements behind the acquire that touch no lock row.
LEMMA StayLockInv ==
  ASSUME LockInv, Types', NEW j \in Jobs,
         \/ DeleteNext(j) \/ PutOne(j) \/ EndPhase(j) \/ ReadBack(j)
         \/ CallFails(j) \/ ChunkFails(j) \/ CleanupFails(j) \/ ReleaseFails(j)
         \/ j \in Imports /\ (Plan(j) \/ PlanFails(j) \/ Collect(j) \/ CollectFails(j))
  PROVE  LockInv'
<1> USE DEF LockInv, Types, At, Goto, Enter, Answer
<1>1. /\ run[j] = "running" /\ lock' = lock
      /\ \A i \in Jobs \ {j} : phase'[i] = phase[i] /\ run'[i] = run[i]
  BY DEF DeleteNext, PutOne, EndPhase, ReadBack, CallFails, ChunkFails,
         CleanupFails, ReleaseFails, Catch,
         Plan, PlanFails, Collect, CollectFails
<1>2. HoldsLock(j) /\ HoldsLock(j)'
  <2>1. CASE EndPhase(j)
    BY <2>1, PhaseOrder DEF EndPhase, HoldsLock
  <2>2. CASE ~EndPhase(j)
    BY <2>2 DEF DeleteNext, PutOne, ReadBack, CallFails, ChunkFails,
                CleanupFails, ReleaseFails, Catch,
            Plan, PlanFails, Collect, CollectFails, HoldsLock, DeletePhases, WritePhases
  <2> QED
    BY <2>1, <2>2
<1>3. phase'[j] \in {"planning", "collect"} => j \in Imports
  <2>1. CASE EndPhase(j)
    BY <2>1, PhaseOrder DEF EndPhase
  <2>2. CASE ~EndPhase(j)
    BY <2>2 DEF DeleteNext, PutOne, ReadBack, CallFails, ChunkFails,
                CleanupFails, ReleaseFails, Catch,
            Plan, PlanFails, Collect, CollectFails, DeletePhases, WritePhases
  <2> QED
    BY <2>1, <2>2
<1>4. run'[j] = "answered" => phase'[j] \in AfterPrimaryDelete \cup {"release", "collect"}
  BY <1>1 DEF DeleteNext, PutOne, EndPhase, ReadBack, CallFails, ChunkFails,
              CleanupFails, ReleaseFails, Catch,
         Plan, PlanFails, Collect, CollectFails, WritePhases, BeforePrimaryDelete, AfterPrimaryDelete
<1> QED
  BY <1>1, <1>2, <1>3, <1>4, LockFrame DEF Keeps

LEMMA LockInvStep == ASSUME LockInv, [Next]_vars PROVE LockInv'
<1>1. Types'
  BY TypesStep DEF LockInv
<1>2. CASE UNCHANGED vars
  BY <1>1, <1>2 DEF vars, LockInv, Own, Locked, Ended, Keeps, HoldsLock
<1>3. ASSUME NEW j \in Jobs, Workflow(j) \/ Failure(j) PROVE LockInv'
  <2> USE DEF At, Goto, Answer
  <2>1. CASE CheckLock(j)
    <3>1. /\ phase[j] = "idle" /\ lock' = lock /\ phase'[j] \in {"checked", "refused"}
          /\ (run'[j] = "answered" => phase'[j] = "refused")
          /\ \A i \in Jobs \ {j} : phase'[i] = phase[i] /\ run'[i] = run[i]
      BY <2>1 DEF CheckLock, LockInv, Types
    <3> QED
      BY <1>1, <3>1, LockFrame DEF HoldsLock, Keeps
  <2>2. CASE PutLock(j)
    BY <1>1, <2>2, PutLockLockInv
  <2>3. CASE \/ DeleteNext(j) \/ PutOne(j) \/ EndPhase(j) \/ ReadBack(j)
             \/ CallFails(j) \/ ChunkFails(j) \/ CleanupFails(j) \/ ReleaseFails(j)
             \/ j \in Imports /\ (Plan(j) \/ PlanFails(j) \/ Collect(j) \/ CollectFails(j))
    BY <1>1, <2>3, StayLockInv
  <2>4. CASE Finish(j)
    BY <1>1, <2>4, ReleaseLockInv DEF Finish, HoldsLock
  <2>5. CASE Die(j)
    <3>1. /\ lock' = lock /\ phase' = phase /\ run[j] = "running" /\ run'[j] = "died"
          /\ \A i \in Jobs \ {j} : run'[i] = run[i]
      BY <2>5 DEF Die, LockInv, Types
    <3> QED
      BY <1>1, <3>1, LockFrame DEF HoldsLock, Keeps, LockInv, Ended
  <2> QED
    BY <1>3, <2>1, <2>2, <2>3, <2>4, <2>5 DEF Workflow, Failure
<1>4. CASE StrayLands \/ AbortClears \/ AbortFails
  <2>1. lock' = lock /\ phase' = phase /\ run' = run
    BY <1>4 DEF StrayLands, AbortClears, AbortFails
  <2> QED
    BY <1>1, <2>1 DEF LockInv, Own, Locked, Ended, Keeps, HoldsLock
<1>5. CASE Abort
  <2>1. /\ AbortPolicy = "stopped" /\ phase' = phase /\ run' = run
        /\ lock' = [lock EXCEPT !["restore"] = NoJob]
        /\ \A r \in Restores : run[r] = "running" => ~HoldsLock(r)
    BY <1>5 DEF Abort
  <2>2. \A i \in Jobs : Keeps(i)' <=> Keeps(i)
    BY <2>1 DEF Keeps, HoldsLock
  <2>3. \A i \in Jobs : Keeps(i) => Kind(i) = "import"
    BY <2>1, KindFacts DEF Keeps, Jobs
  <2>4. Own'
    BY <2>1, <2>2, <2>3 DEF Own, LockInv, Types, Kinds
  <2>5. Locked'
    BY <2>1 DEF Locked, LockInv, Types, HoldsLock
  <2> QED
    BY <1>1, <2>1, <2>4, <2>5 DEF LockInv, Ended
<1> QED
  BY <1>2, <1>3, <1>4, <1>5 DEF Next

LEMMA LockInvHolds == Spec => []LockInv
BY LockInvInit, LockInvStep, PTL DEF Spec

\* Whatever the jobs, faults and aborts: a restore or an import that has answered
\* leaves its lock row behind only if it had begun to delete primary rows, if the
\* release itself failed, or if it was an import that threw between persistStarted
\* and its workflow's try block.
THEOREM FailuresRelease == Spec => []FailureReleasesLock
<1>1. LockInv => FailureReleasesLock
  <2> SUFFICES ASSUME LockInv, NEW j \in Jobs, run[j] = "answered", lock[Kind(j)] = j
               PROVE  phase[j] \in AfterPrimaryDelete \cup {"release", "collect"}
    BY DEF FailureReleasesLock
  <2>1. HoldsLock(j)
    BY KindFacts DEF LockInv, Locked
  <2> QED
    BY <2>1 DEF LockInv, Ended, HoldsLock
<1> QED
  BY <1>1, LockInvHolds, PTL

-----------------------------------------------------------------------------
(* The lock protocol. *)

LEMMA LocksInit == Init => Locks!Init
<1> SUFFICES ASSUME Init PROVE Locks!Init
  OBVIOUS
<1>1. \A j \in Jobs : LockPc(j) = "idle"
  BY DEF Init, LockPc
<1> QED
  BY <1>1 DEF Init, Locks!Init, Locks!Kinds, Locks!Requests, Kinds, Jobs

\* What a step of one job does to the lock rows, seen from PartitionLocks.
LEMMA LocksOfOne ==
  ASSUME NEW j \in Jobs, \A i \in Jobs \ {j} : LockPc(i)' = LockPc(i),
         \/ lock' = lock /\ LockPc(j)' = LockPc(j)
         \/ /\ lock' = lock /\ LockPc(j) = "idle"
            /\ LockPc(j)' = IF lock[Other(Kind(j))] = NoJob THEN "checked" ELSE "refused"
         \/ /\ LockPc(j) = "checked"
            /\ IF lock[Kind(j)] = NoJob
               THEN LockPc(j)' = "held" /\ lock' = [lock EXCEPT ![Kind(j)] = j]
               ELSE LockPc(j)' = "refused" /\ lock' = lock
         \/ /\ lock' = [lock EXCEPT ![Kind(j)] = NoJob]
            /\ \/ LockPc(j) = "replacing" /\ LockPc(j)' = "done"
               \/ LockPc(j) = "held" /\ LockPc(j)' = "failed"
         \/ lock' = lock /\ LockPc(j) = "held" /\ LockPc(j)' = "replacing"
         \/ lock' = lock /\ LockPc(j) \in {"checked", "held", "replacing"} /\ LockPc(j)' = "stopped",
         lock \in [Kinds -> Jobs \cup {NoJob}]
  PROVE  [Locks!Next]_(Locks!vars)
<1> DEFINE pcs == [i \in Jobs |-> LockPc(i)]
<1>1. pcs' = [pcs EXCEPT ![j] = LockPc(j)'] /\ pcs[j] = LockPc(j)
  OBVIOUS
<1>2. /\ Locks!Kind(j) = Kind(j) /\ j \in Locks!Requests /\ Locks!Kinds = Kinds
      /\ Locks!Other(Kind(j)) = Other(Kind(j))
  BY DEF Locks!Kind, Kind, Locks!Requests, Jobs, Locks!Other, Other, Locks!Kinds, Kinds
<1> HIDE DEF pcs
<1>3. CASE lock' = lock /\ LockPc(j)' = LockPc(j)
  <2>1. pcs' = pcs
    BY <1>1, <1>3 DEF pcs
  <2> QED
    BY <1>3, <2>1 DEF Locks!vars, pcs
<1>4. CASE /\ lock' = lock /\ LockPc(j) = "idle"
           /\ LockPc(j)' = IF lock[Other(Kind(j))] = NoJob THEN "checked" ELSE "refused"
  <2>1. Locks!ReadOtherLock(j)
    BY <1>1, <1>2, <1>4 DEF Locks!ReadOtherLock, Locks!Seen, Locks!Goto, pcs
  <2> QED
    BY <1>2, <2>1 DEF Locks!Next
<1>5. CASE /\ LockPc(j) = "checked"
           /\ IF lock[Kind(j)] = NoJob
              THEN LockPc(j)' = "held" /\ lock' = [lock EXCEPT ![Kind(j)] = j]
              ELSE LockPc(j)' = "refused" /\ lock' = lock
  <2>1. Locks!PutLock(j)
    BY <1>1, <1>2, <1>5 DEF Locks!PutLock, Locks!Goto, pcs
  <2> QED
    BY <1>2, <2>1 DEF Locks!Next, Locks!Handler
<1>6. CASE /\ lock' = [lock EXCEPT ![Kind(j)] = NoJob]
           /\ \/ LockPc(j) = "replacing" /\ LockPc(j)' = "done"
              \/ LockPc(j) = "held" /\ LockPc(j)' = "failed"
  <2>1. Locks!Finish(j) \/ Locks!GiveUp(j)
    BY <1>1, <1>2, <1>6 DEF Locks!Finish, Locks!GiveUp, Locks!Goto, Locks!DeleteLock, pcs
  <2> QED
    BY <1>2, <2>1 DEF Locks!Next, Locks!Handler
<1>7. CASE lock' = lock /\ LockPc(j) = "held" /\ LockPc(j)' = "replacing"
  <2>1. lock' = [k \in Locks!Kinds |-> IF k \in Locks!OmittedOnPrimary THEN lock[k] ELSE NoJob]
    BY <1>2, <1>7 DEF Locks!OmittedOnPrimary
  <2>2. Locks!WipePrimary(j)
    BY <1>1, <1>7, <2>1 DEF Locks!WipePrimary, Locks!Goto, pcs
  <2> QED
    BY <1>2, <2>2 DEF Locks!Next, Locks!Handler
<1>8. CASE lock' = lock /\ LockPc(j) \in {"checked", "held", "replacing"} /\ LockPc(j)' = "stopped"
  <2>1. Locks!Stop(j)
    BY <1>1, <1>2, <1>8 DEF Locks!Stop, Locks!Goto, pcs
  <2> QED
    BY <1>2, <2>1 DEF Locks!Next
<1> QED
  BY <1>3, <1>4, <1>5, <1>6, <1>7, <1>8

\* Steps that PartitionLocks sees as one request moving on, or not at all.
LEMMA LocksOfJob ==
  ASSUME LockInv, NEW j \in Jobs, Workflow(j) \/ Failure(j)
  PROVE  [Locks!Next]_(Locks!vars)
<1> USE DEF LockInv, Types, At, Goto, Enter, Answer
<1>1. \A i \in Jobs \ {j} : phase'[i] = phase[i] /\ run'[i] = run[i]
  BY DEF Workflow, Failure, CheckLock, PutLock, DeleteNext, PutOne, EndPhase, ReadBack, Finish,
         Plan, Collect, CallFails, ChunkFails, Catch,
         CleanupFails, ReleaseFails, Die, PlanFails, CollectFails,
         ReleaseTo
<1>2. \A i \in Jobs \ {j} : LockPc(i)' = LockPc(i)
  BY <1>1 DEF LockPc
<1>3. run[j] = "running"
  BY DEF Workflow, Failure, CheckLock, PutLock, DeleteNext, PutOne, EndPhase, ReadBack, Finish,
         Plan, Collect, CallFails, ChunkFails,
         CleanupFails, ReleaseFails, Die, PlanFails, CollectFails
<1>4. CASE CheckLock(j)
  BY <1>2, <1>4, LocksOfOne DEF CheckLock, LockPc
<1>5. CASE PutLock(j)
  BY <1>2, <1>5, LocksOfOne DEF PutLock, LockPc, AfterPrimaryDelete
<1>6. CASE DeleteNext(j) \/ PutOne(j) \/ CleanupFails(j) \/ Plan(j) \/ PlanFails(j) \/ Collect(j)
  <2>1. lock' = lock /\ LockPc(j)' = LockPc(j)
    BY <1>6 DEF DeleteNext, PutOne, CleanupFails, Plan, PlanFails, Collect, LockPc, AfterPrimaryDelete
  <2> QED
    BY <1>2, <2>1, LocksOfOne
<1>7. CASE EndPhase(j)
  <2>1. lock' = lock /\ LockPc(j)' = LockPc(j)
    BY <1>7, PhaseOrder DEF EndPhase, LockPc, AfterPrimaryDelete
  <2> QED
    BY <1>2, <2>1, LocksOfOne
<1>8. CASE ReadBack(j)
  <2>1. /\ lock' = lock /\ LockPc(j) = "held"
        /\ LockPc(j)' \in {"held", "replacing"}
    BY <1>8 DEF ReadBack, LockPc, AfterPrimaryDelete
  <2> QED
    BY <1>2, <2>1, LocksOfOne
<1>9. CASE Finish(j)
  <2>1. /\ lock' = [lock EXCEPT ![Kind(j)] = NoJob]
        /\ \/ LockPc(j) = "replacing" /\ LockPc(j)' = "done"
           \/ LockPc(j) = "held" /\ LockPc(j)' = "failed"
    BY <1>9 DEF Finish, ReleaseTo, LockPc, AfterPrimaryDelete
  <2> QED
    BY <1>2, <2>1, LocksOfOne
<1>10. CASE CallFails(j) \/ ChunkFails(j) \/ CollectFails(j) \/ ReleaseFails(j) \/ Die(j)
  <2>1. /\ lock' = lock
        /\ \/ LockPc(j)' = LockPc(j)
           \/ LockPc(j) \in {"checked", "held", "replacing"} /\ LockPc(j)' = "stopped"
    BY <1>3, <1>10 DEF CallFails, ChunkFails, CollectFails, ReleaseFails, Die, Catch, LockPc,
                BeforePrimaryDelete, AfterPrimaryDelete, WritePhases
  <2> QED
    BY <1>2, <2>1, LocksOfOne
<1> QED
  BY <1>4, <1>5, <1>6, <1>7, <1>8, <1>9, <1>10 DEF Workflow, Failure

LEMMA LocksStep == ASSUME LockInv, [Next]_vars PROVE [Locks!Next]_(Locks!vars)
<1>1. CASE lock' = lock /\ phase' = phase /\ run' = run
  <2>1. \A j \in Jobs : LockPc(j)' = LockPc(j)
    BY <1>1 DEF LockPc
  <2> QED
    BY <1>1, <2>1 DEF Locks!vars
<1>2. CASE UNCHANGED vars \/ StrayLands \/ AbortClears \/ AbortFails
  BY <1>1, <1>2 DEF vars, StrayLands, AbortClears, AbortFails
<1>3. CASE Abort
  <2>1. \A j \in Jobs : LockPc(j)' = LockPc(j)
    BY <1>3 DEF Abort, LockPc
  <2>2. \A r \in Restores : LockPc(r) \notin {"held", "replacing"}
    BY <1>3 DEF Abort, LockPc, HoldsLock, LockInv, Types, Phases
  <2>3. Locks!AbortRestore
    BY <1>3, <2>1, <2>2 DEF Abort, Locks!AbortRestore, Locks!Live, Locks!DeleteLock, Jobs
  <2> QED
    BY <2>3 DEF Locks!Next
<1> QED
  BY <1>2, <1>3, LocksOfJob DEF Next

\* Whatever the jobs, faults and aborts, the workflows take, keep and release the
\* lock rows as PartitionLocks says, so what is proved of it holds of them.
THEOREM LocksAreImplemented == Spec => ImplementsLocks
<1>1. LockInv /\ [Next]_vars => [Locks!Next]_(Locks!vars)
  BY LocksStep
<1> QED
  BY <1>1, LocksInit, LockInvHolds, PTL DEF Spec, ImplementsLocks, Locks!Spec

-----------------------------------------------------------------------------
(* What becomes of the rows. *)

\* Of the jobs nobody can take the lock from there is at most one.
LEMMA OneKeeps ==
  ASSUME LockInv, OneLock, NEW i \in Jobs, NEW j \in Jobs, Keeps(i), Keeps(j)
  PROVE  i = j
<1> USE KindFacts DEF LockInv
<1>1. lock[Kind(i)] = i /\ lock[Kind(j)] = j
  BY DEF Own
<1>2. Kind(i) # Kind(j) => Kind(j) = Other(Kind(i))
  BY DEF Other, Kinds
<1> QED
  BY <1>1, <1>2 DEF OneLock

LEMMA WorkInvInit == Init => WorkInv
<1> SUFFICES ASSUME Init PROVE WorkInv
  OBVIOUS
<1>1. LockInv
  BY LockInvInit
<1>2. OneLock
  BY KindFacts DEF Init, OneLock, At
<1>3. Strays
  BY DEF Init, Strays
<1>4. \A j \in Jobs : Work(j)
  BY DEF Init, Work, Replacing, BeforePrimaryDelete, AfterPrimaryDelete
<1> QED
  BY <1>1, <1>2, <1>3, <1>4 DEF WorkInv

LEMMA OneLockStep ==
  ASSUME Exclusive, WorkInv, LockInv', [Next]_vars PROVE OneLock'
<1> USE KindFacts DEF LockInv, WorkInv, Types
<1>0. ASSUME RacyAcquires PROVE OneLock'
  <2>1. \/ \A k \in Kinds : lock'[k] # NoJob => k = "restore"
        \/ \A k \in Kinds : lock'[k] # NoJob => k = "import"
    BY <1>0 DEF Exclusive, Kinds, Jobs
  <2>2. Jobs = Restores \/ Jobs = Imports
    BY <1>0 DEF Exclusive, Jobs
  <2>3. \A j \in Jobs : lock'[Other(Kind(j))] = NoJob
    BY <1>0, <2>2 DEF Exclusive, Jobs
  <2> QED
    BY <1>0, <2>1, <2>3 DEF OneLock
<1>1. SUFFICES ASSUME ~RacyAcquires PROVE OneLock'
  BY <1>0, StagedReplaceAssumption
<1>2. ASSUME \A k \in Kinds : lock'[k] \in {NoJob, lock[k]},
             \A j \in Jobs : At(j, "checked")' => At(j, "checked")
      PROVE  OneLock'
  BY <1>1, <1>2 DEF OneLock
<1>3. CASE \E j \in Jobs : CheckLock(j)
  <2>1. PICK j \in Jobs : CheckLock(j)
    BY <1>3
  <2>2. lock' = lock
    BY <2>1 DEF CheckLock
  <2>3. CASE lock[Other(Kind(j))] # NoJob
    BY <1>2, <2>1, <2>2, <2>3 DEF CheckLock, At, Goto, Answer
  <2>4. CASE lock[Other(Kind(j))] = NoJob
    <3>1. \A i \in Jobs : ~At(i, "checked")
      BY <1>1, <2>1 DEF CheckLock
    <3>2. \A i \in Jobs : At(i, "checked")' => i = j
      BY <2>1, <3>1 DEF CheckLock, At, Goto, Answer
    <3> QED
      BY <2>2, <2>4, <3>2 DEF OneLock
  <2> QED
    BY <2>3, <2>4
<1>4. CASE \E j \in Jobs : PutLock(j)
  <2>1. PICK j \in Jobs : PutLock(j)
    BY <1>4
  <2>2. At(j, "checked")
    BY <2>1 DEF PutLock
  <2>3. CASE lock[Kind(j)] # NoJob
    BY <1>2, <2>1, <2>3 DEF PutLock, At, Goto, Answer
  <2>4. CASE lock[Kind(j)] = NoJob
    <3>1. lock' = [lock EXCEPT ![Kind(j)] = j] /\ run' = run /\ phase'[j] # "checked"
          /\ \A i \in Jobs \ {j} : phase'[i] = phase[i]
      BY <2>1, <2>4 DEF PutLock, Goto, Enter
    <3>2. \A i \in Jobs : ~At(i, "checked")'
      BY <1>1, <2>2, <3>1 DEF OneLock, At
    <3>3. lock[Other(Kind(j))] = NoJob
      BY <2>2 DEF OneLock
    <3>4. \A k \in Kinds : lock'[k] # NoJob => k = Kind(j)
      BY <3>1, <3>3 DEF Kinds, Other
    <3> QED
      BY <3>2, <3>4 DEF OneLock
  <2> QED
    BY <2>3, <2>4
<1>5. CASE UNCHANGED vars
  BY <1>2, <1>5 DEF vars, At
<1>6. CASE StrayLands \/ Abort \/ AbortClears \/ AbortFails
  BY <1>2, <1>6 DEF StrayLands, Abort, AbortClears, AbortFails, At
<1>7. ASSUME NEW j \in Jobs, Workflow(j) \/ Failure(j), ~CheckLock(j), ~PutLock(j)
      PROVE  OneLock'
  <2>1. \A k \in Kinds : lock'[k] \in {NoJob, lock[k]}
    BY <1>7 DEF Workflow, Failure, DeleteNext, PutOne, EndPhase, ReadBack, Finish,
       Plan, Collect, CallFails, ChunkFails,
       CleanupFails, ReleaseFails, Die, PlanFails, CollectFails, ReleaseTo
  <2>2. CASE EndPhase(j)
    BY <1>2, <2>1, <2>2, PhaseOrder DEF EndPhase, Enter, Goto, At
  <2>3. CASE ~EndPhase(j)
    <3>1. \A i \in Jobs : At(i, "checked")' => At(i, "checked")
      BY <1>7, <2>3 DEF Workflow, Failure, DeleteNext, PutOne, ReadBack, Finish, Catch,
         Plan, Collect, CallFails, ChunkFails,
         CleanupFails, ReleaseFails, Die, PlanFails, CollectFails, ReleaseTo,
         Enter, Goto, Answer, At
    <3> QED
      BY <1>2, <2>1, <3>1
  <2> QED
    BY <2>2, <2>3
<1> QED
  BY <1>3, <1>4, <1>5, <1>6, <1>7 DEF Next

LEMMA StraysStep ==
  ASSUME Isolated, WorkInv, Types', [Next]_vars PROVE Strays'
<1> USE KindFacts DEF WorkInv, LockInv, Types
<1>1. \A j \in Jobs : phase[j] \in {"cleanup", "release", "failed"} =>
                       phase'[j] \in {"cleanup", "release", "failed"}
  <2>1. ASSUME NEW i \in Jobs, Workflow(i) \/ Failure(i)
        PROVE  \A j \in Jobs : phase[j] \in {"cleanup", "release", "failed"} =>
                       phase'[j] \in {"cleanup", "release", "failed"}
    <3>1. CASE EndPhase(i)
      BY <3>1, PhaseOrder DEF EndPhase, Enter, Goto
    <3>2. CASE ~EndPhase(i)
      BY <2>1, <3>2 DEF Workflow, Failure, CheckLock, PutLock, DeleteNext, PutOne, ReadBack, Finish,
         Catch, Plan, Collect, CallFails, ChunkFails,
         CleanupFails, ReleaseFails, Die, PlanFails, CollectFails,
         ReleaseTo, Enter, Goto, Answer, At
    <3> QED
      BY <3>1, <3>2
  <2> QED
    BY <2>1 DEF Next, vars, StrayLands, Abort, AbortClears, AbortFails
<1>2. \A j \in Jobs : phase[j] = "writePrimary" /\ run[j] # "running" =>
                       phase'[j] = "writePrimary" /\ run'[j] # "running"
  <2>1. ASSUME NEW i \in Jobs, Workflow(i) \/ Failure(i)
        PROVE  \A j \in Jobs : run[j] # "running" => phase'[j] = phase[j] /\ run'[j] = run[j]
    BY <2>1 DEF Workflow, Failure, CheckLock, PutLock, DeleteNext, PutOne, EndPhase, ReadBack, Finish,
         Catch, Plan, Collect, CallFails, ChunkFails,
         CleanupFails, ReleaseFails, Die, PlanFails, CollectFails,
         ReleaseTo, Enter, Goto, Answer, At
  <2> QED
    BY <2>1 DEF Next, vars, StrayLands, Abort, AbortClears, AbortFails
<1>3. AbortPolicy = "never" => abortLeft' = {}
  <2>1. AbortPolicy = "never" => ~Abort
    BY DEF Abort
  <2>2. abortLeft = {} => ~AbortClears /\ ~AbortFails
    BY DEF AbortClears, AbortFails
  <2>3. ASSUME NEW i \in Jobs, Workflow(i) \/ Failure(i) PROVE abortLeft' = abortLeft
    BY <2>3 DEF Workflow, Failure, CheckLock, PutLock, DeleteNext, PutOne, EndPhase, ReadBack, Finish,
         Plan, Collect, CallFails, ChunkFails,
         CleanupFails, ReleaseFails, Die, PlanFails, CollectFails, ReleaseTo
  <2> QED
    BY <2>1, <2>2, <2>3 DEF Next, Strays, vars, StrayLands
<1>4. CASE stray' \subseteq stray
  BY <1>1, <1>2, <1>3, <1>4 DEF Strays
<1>5. ASSUME NEW j \in Jobs, ChunkFails(j) PROVE Strays'
  <2>1. PICK k \in left[j] :
          stray' = stray \cup {[to |-> TableOf(j), key |-> m, row |-> rows[j][m]] :
                                 m \in left[j] \ {k}}
    BY <1>5 DEF ChunkFails
  <2>2. ChunkMayFail /\ phase[j] \in {"writeStaging", "writePrimary"}
    BY <1>5 DEF ChunkFails, WritePhases
  <2>3. CASE phase[j] = "writePrimary"
    <3>1. TableOf(j) = "primary" /\ "primary" \notin Kinds
      BY <2>3 DEF TableOf, Kinds
    <3>2. phase'[j] = "writePrimary" /\ run'[j] # "running"
      BY <1>5, <2>3 DEF ChunkFails, Catch, BeforePrimaryDelete, Answer
    <3> QED
      BY <1>1, <1>2, <1>3, <2>1, <2>2, <3>1, <3>2 DEF Strays
  <2>4. CASE phase[j] = "writeStaging"
    <3>1. TableOf(j) = Kind(j) /\ Kind(j) # "primary"
      BY <2>4 DEF TableOf, Kinds
    <3>2. phase'[j] = "cleanup"
      BY <1>5, <2>4 DEF ChunkFails, Catch, BeforePrimaryDelete, Enter, Goto
    <3>3. \A i \in Jobs : Kind(i) = Kind(j) => i = j
      BY <2>2 DEF Isolated
    <3> QED
      BY <1>1, <1>2, <1>3, <2>1, <2>2, <3>1, <3>2, <3>3 DEF Strays
  <2> QED
    BY <2>2, <2>3, <2>4
<1>6. ASSUME NEW j \in Jobs, Workflow(j) \/ Failure(j), ~ChunkFails(j)
      PROVE  stray' = stray
  BY <1>6 DEF Workflow, Failure, CheckLock, PutLock, DeleteNext, PutOne, EndPhase, ReadBack, Finish,
     Plan, Collect, CallFails, CleanupFails, ReleaseFails, Die, PlanFails, CollectFails, ReleaseTo
<1>7. StrayLands \/ Abort \/ AbortClears \/ AbortFails \/ UNCHANGED vars => stray' \subseteq stray
  BY DEF StrayLands, Abort, AbortClears, AbortFails, vars
<1> QED
  BY <1>4, <1>5, <1>6, <1>7 DEF Next

\* What a job relies on when others move: its private state, and the tables as far
\* as nobody can take the lock from it.
LEMMA WorkFrame ==
  ASSUME Types, Types', NEW j \in Jobs, Work(j),
         phase'[j] = phase[j], run'[j] = run[j], left'[j] = left[j], rows'[j] = rows[j],
         run[j] = "running" /\ HoldsLock(j) => table'["primary"] = table["primary"],
         run[j] = "running" /\ phase[j] \in BeforePrimaryDelete =>
             \A k \in Keys : table'[Kind(j)][k] \in {Absent, table[Kind(j)][k]},
         j \in Imports /\ run[j] = "running" /\ phase[j] \in {"writeStaging", "readBack"} =>
             table'[Kind(j)] = table[Kind(j)],
         Replacing(j) /\ (AbortPolicy = "never" \/ j \in Imports) =>
             table'[Kind(j)] = table[Kind(j)]
  PROVE  Work(j)'
<1>1. CASE run[j] # "running"
  BY <1>1 DEF Work, Replacing
<1>2. CASE run[j] = "running" /\ ~HoldsLock(j)
  BY <1>2 DEF Work, Replacing, HoldsLock, BeforePrimaryDelete, AfterPrimaryDelete
<1>3. CASE run[j] = "running" /\ HoldsLock(j)
  <2>1. phase[j] \in BeforePrimaryDelete => rows'[j] = Outcome(j, table["primary"])'
    BY <1>3 DEF Work
  <2>2. CASE phase[j] \in BeforePrimaryDelete
    BY <1>3, <2>1, <2>2 DEF Work, Replacing, BeforePrimaryDelete, AfterPrimaryDelete
  <2>3. CASE phase[j] \notin BeforePrimaryDelete
    BY <1>3, <2>3 DEF Work, Replacing, BeforePrimaryDelete, AfterPrimaryDelete
  <2> QED
    BY <2>2, <2>3
<1> QED
  BY <1>1, <1>2, <1>3

LEMMA WorkOfOthers ==
  ASSUME WorkInv, Types', NEW i \in Jobs, Workflow(i) \/ Failure(i), NEW j \in Jobs, j # i
  PROVE  Work(j)'
<1> USE DEF WorkInv, LockInv, Types
<1>1. phase'[j] = phase[j] /\ run'[j] = run[j] /\ left'[j] = left[j] /\ rows'[j] = rows[j]
  BY DEF Workflow, Failure, CheckLock, PutLock, DeleteNext, PutOne, EndPhase, ReadBack, Finish,
     Catch, Plan, Collect, CallFails, ChunkFails,
     CleanupFails, ReleaseFails, Die, PlanFails, CollectFails,
     ReleaseTo, Enter, Goto, Answer, At
<1>2. CASE DeleteNext(i) \/ PutOne(i)
  <2>1. Keeps(i)
    BY <1>2 DEF DeleteNext, PutOne, DeletePhases, WritePhases, Keeps, HoldsLock
  <2>2. ~Keeps(j)
    BY <2>1, OneKeeps
  <2>3. /\ ~(run[j] = "running" /\ HoldsLock(j))
        /\ ~(HoldsLock(j) /\ (AbortPolicy = "never" \/ j \in Imports))
    BY <2>2 DEF Keeps
  <2>4. /\ phase[j] \in BeforePrimaryDelete => HoldsLock(j)
        /\ phase[j] \in {"writeStaging", "readBack"} => HoldsLock(j)
        /\ Replacing(j) => HoldsLock(j)
    BY DEF BeforePrimaryDelete, Replacing, HoldsLock
  <2> QED
    BY <1>1, <2>3, <2>4, WorkFrame
<1>3. CASE ~(DeleteNext(i) \/ PutOne(i))
  <2>1. table' = table
    BY <1>3 DEF Workflow, Failure, CheckLock, PutLock, EndPhase, ReadBack, Finish,
       Plan, Collect, CallFails, ChunkFails,
       CleanupFails, ReleaseFails, Die, PlanFails, CollectFails, ReleaseTo
  <2> QED
    BY <1>1, <2>1, WorkFrame
<1> QED
  BY <1>2, <1>3

LEMMA WorkOfStray ==
  ASSUME Isolated, WorkInv, Types', StrayLands, NEW j \in Jobs
  PROVE  Work(j)'
<1> USE KindFacts DEF WorkInv, LockInv, Types
<1>1. PICK w \in stray : /\ table' = [table EXCEPT ![w.to][w.key] = w.row]
                         /\ UNCHANGED <<lock, phase, run, left, rows, abortLeft>>
  BY DEF StrayLands
<1>2. phase[j] \in {"clearStaging", "writeStaging", "readBack", "clearPrimary", "writePrimary"} =>
        w.to # Kind(j)
  BY DEF Strays
<1>3. ASSUME w.to = "primary", run[j] = "running", HoldsLock(j) PROVE FALSE
  <2>1. AbortPolicy = "never"
    BY DEF Strays, Isolated
  <2>2. PICK i \in Jobs : phase[i] = "writePrimary" /\ run[i] # "running"
    BY <1>3 DEF Strays
  <2>3. Keeps(i) /\ Keeps(j)
    BY <1>3, <2>1, <2>2 DEF Keeps, HoldsLock
  <2> QED
    BY <1>3, <2>2, <2>3, OneKeeps
<1>4. Kind(j) \in TableNames /\ "primary" \in TableNames
  BY DEF TableNames
<1> QED
  BY <1>1, <1>2, <1>3, <1>4, WorkFrame DEF BeforePrimaryDelete, Replacing

LEMMA WorkOfAbort ==
  ASSUME WorkInv, Types', Abort \/ AbortClears \/ AbortFails \/ UNCHANGED vars, NEW j \in Jobs
  PROVE  Work(j)'
<1> USE KindFacts DEF WorkInv, LockInv, Types
<1>1. UNCHANGED <<phase, run, left, rows>>
  BY DEF Abort, AbortClears, AbortFails, vars
<1>2. CASE Abort \/ AbortFails \/ UNCHANGED vars
  <2>1. table' = table
    BY <1>2 DEF Abort, AbortFails, vars
  <2> QED
    BY <1>1, <2>1, WorkFrame
<1>3. CASE AbortClears
  <2>1. table' = [table EXCEPT !["restore"][Min(abortLeft)] = Absent] /\ AbortPolicy # "never"
    BY <1>3 DEF AbortClears, Strays
  <2>2. table'["primary"] = table["primary"] /\ "import" \in TableNames /\ table'["import"] = table["import"]
    BY <2>1 DEF TableNames, Kinds
  <2>3. \A k \in Keys : table'["restore"][k] \in {Absent, table["restore"][k]}
    BY <2>1 DEF TableNames, Kinds, Tables
  <2>4. Kind(j) \in {"restore", "import"}
    BY DEF Kinds
  <2>5. \A k \in Keys : table'[Kind(j)][k] \in {Absent, table[Kind(j)][k]}
    BY <2>2, <2>3, <2>4
  <2>6. j \in Imports => table'[Kind(j)] = table[Kind(j)]
    BY <2>2
  <2> QED
    BY <1>1, <2>1, <2>2, <2>5, <2>6, WorkFrame
<1> QED
  BY <1>2, <1>3

\* A job's own steps, phase by phase.
LEMMA WorkOfDelete ==
  ASSUME WorkInv, Types', NEW j \in Jobs, DeleteNext(j) PROVE Work(j)'
<1> USE KindFacts DEF WorkInv, LockInv, Types
<1>1. /\ run[j] = "running" /\ phase[j] \in {"clearStaging", "clearPrimary", "drainStaging", "cleanup"}
      /\ table' = [table EXCEPT ![TableOf(j)][Min(left[j])] = Absent]
      /\ left' = [left EXCEPT ![j] = @ \ {Min(left[j])}]
      /\ UNCHANGED <<lock, phase, run, rows>>
  BY DEF DeleteNext, DeletePhases
<1>2. Kind(j) \in TableNames /\ "primary" \in TableNames /\ Kind(j) # "primary"
  BY DEF TableNames, Kinds
<1>3. CASE phase[j] = "clearStaging"
  <2>1. TableOf(j) = Kind(j)
    BY <1>3 DEF TableOf
  <2>2. table'["primary"] = table["primary"]
    BY <1>1, <1>2, <2>1
  <2>3. rows'[j] = Outcome(j, table["primary"])'
    BY <1>1, <1>3, <2>2 DEF Work, BeforePrimaryDelete
  <2>4. \A k \in Keys \ left'[j] : table'[Kind(j)][k] = Absent
    BY <1>1, <1>2, <1>3, <2>1 DEF Work, Tables
  <2> QED
    BY <1>1, <1>3, <2>3, <2>4 DEF Work, AfterPrimaryDelete, Replacing
<1>4. CASE phase[j] = "clearPrimary"
  <2>1. TableOf(j) = "primary"
    BY <1>4 DEF TableOf
  <2>2. table'[Kind(j)] = table[Kind(j)]
    BY <1>1, <1>2, <2>1
  <2>3. \A k \in Keys \ left'[j] : table'["primary"][k] = Absent
    BY <1>1, <1>2, <1>4, <2>1 DEF Work, Tables
  <2> QED
    BY <1>1, <1>4, <2>2, <2>3 DEF Work, BeforePrimaryDelete, Replacing
<1>5. CASE phase[j] = "drainStaging"
  <2>1. TableOf(j) = Kind(j)
    BY <1>5 DEF TableOf
  <2>2. table'["primary"] = table["primary"]
    BY <1>1, <1>2, <2>1
  <2> QED
    BY <1>1, <1>5, <2>2 DEF Work, BeforePrimaryDelete, Replacing
<1>6. CASE phase[j] = "cleanup"
  BY <1>1, <1>6 DEF Work, BeforePrimaryDelete, AfterPrimaryDelete, Replacing
<1> QED
  BY <1>1, <1>3, <1>4, <1>5, <1>6

LEMMA WorkOfPut ==
  ASSUME WorkInv, Types', NEW j \in Jobs, PutOne(j) PROVE Work(j)'
<1> USE KindFacts DEF WorkInv, LockInv, Types
<1>1. PICK k \in left[j] : /\ table' = [table EXCEPT ![TableOf(j)][k] = rows[j][k]]
                           /\ left' = [left EXCEPT ![j] = @ \ {k}]
  BY DEF PutOne
<1>2. /\ run[j] = "running" /\ phase[j] \in {"writeStaging", "writePrimary"}
      /\ UNCHANGED <<lock, phase, run, rows>>
  BY DEF PutOne, WritePhases
<1>3. Kind(j) \in TableNames /\ "primary" \in TableNames /\ Kind(j) # "primary"
  BY DEF TableNames, Kinds
<1>4. CASE phase[j] = "writeStaging"
  <2>1. TableOf(j) = Kind(j)
    BY <1>4 DEF TableOf
  <2>2. table'["primary"] = table["primary"]
    BY <1>1, <1>3, <2>1
  <2>3. rows'[j] = Outcome(j, table["primary"])'
    BY <1>2, <1>4, <2>2 DEF Work, BeforePrimaryDelete
  <2>4. \A m \in Keys : table'[Kind(j)][m] \in {Absent, rows[j][m]}
    BY <1>1, <1>2, <1>3, <1>4, <2>1 DEF Work, Tables
  <2>5. j \in Imports => \A m \in Keys \ left'[j] : table'[Kind(j)][m] = rows[j][m]
    BY <1>1, <1>2, <1>3, <1>4, <2>1 DEF Work, Tables
  <2> QED
    BY <1>2, <1>4, <2>3, <2>4, <2>5 DEF Work, AfterPrimaryDelete, Replacing
<1>5. CASE phase[j] = "writePrimary"
  <2>1. TableOf(j) = "primary"
    BY <1>5 DEF TableOf
  <2>2. table'[Kind(j)] = table[Kind(j)]
    BY <1>1, <1>3, <2>1
  <2>3. \A m \in Keys \ left'[j] : table'["primary"][m] = rows[j][m]
    BY <1>1, <1>2, <1>3, <1>5, <2>1 DEF Work, Tables
  <2> QED
    BY <1>2, <1>5, <2>2, <2>3 DEF Work, BeforePrimaryDelete, Replacing
<1> QED
  BY <1>2, <1>4, <1>5

LEMMA WorkOfEndPhase ==
  ASSUME WorkInv, Types', NEW j \in Jobs, EndPhase(j) PROVE Work(j)'
<1> USE KindFacts DEF WorkInv, LockInv, Types
<1>1. /\ run[j] = "running" /\ left[j] = {}
      /\ phase'[j] = Following[phase[j]] /\ left'[j] = KeysOf(j, phase'[j])
      /\ UNCHANGED <<table, lock, run, rows>>
  BY DEF EndPhase, Enter, Goto
<1>2. phase[j] \in {"clearStaging", "writeStaging", "clearPrimary", "writePrimary",
                    "drainStaging", "cleanup"}
  BY PhaseOrder DEF EndPhase
<1>3. table[Kind(j)] \in Tables /\ table["primary"] \in Tables /\ rows[j] \in Tables
  BY DEF TableNames
<1>4. CASE phase[j] = "clearStaging"
  <2>1. phase'[j] = "writeStaging" /\ \A k \in Keys : table[Kind(j)][k] = Absent
    BY <1>1, <1>4, PhaseOrder DEF Work
  <2>2. rows'[j] = Outcome(j, table["primary"])'
    BY <1>1, <1>4 DEF Work, BeforePrimaryDelete
  <2>3. left'[j] = Present(rows[j])
    BY <1>1, <2>1 DEF KeysOf, DeletePhases, WritePhases
  <2>4. \A k \in Keys \ left'[j] : table'[Kind(j)][k] = rows'[j][k]
    BY <1>1, <2>1, <2>3 DEF Present
  <2> QED
    BY <1>1, <2>1, <2>2, <2>4 DEF Work, AfterPrimaryDelete, Replacing
<1>5. CASE phase[j] = "writeStaging"
  <2>1. phase'[j] = "readBack" /\ left'[j] = {}
    BY <1>1, <1>5, PhaseOrder DEF KeysOf, DeletePhases, WritePhases
  <2>2. rows'[j] = Outcome(j, table["primary"])'
    BY <1>1, <1>5 DEF Work, BeforePrimaryDelete
  <2> QED
    BY <1>1, <1>5, <2>1, <2>2 DEF Work, AfterPrimaryDelete, Replacing
<1>6. CASE phase[j] = "clearPrimary"
  <2>1. phase'[j] = "writePrimary" /\ \A k \in Keys : table["primary"][k] = Absent
    BY <1>1, <1>6, PhaseOrder DEF Work
  <2>2. left'[j] = Present(rows[j])
    BY <1>1, <2>1 DEF KeysOf, DeletePhases, WritePhases
  <2>3. \A k \in Keys \ left'[j] : rows[j][k] = Absent
    BY <2>2 DEF Present
  <2> QED
    BY <1>1, <1>6, <2>1, <2>3 DEF Work, BeforePrimaryDelete, AfterPrimaryDelete, Replacing
<1>7. CASE phase[j] = "writePrimary"
  <2>1. phase'[j] = "drainStaging"
    BY <1>1, <1>7, PhaseOrder
  <2>2. \A k \in Keys : table["primary"][k] = rows[j][k]
    BY <1>1, <1>7 DEF Work
  <2>3. table["primary"] = rows[j]
    BY <1>3, <2>2 DEF Tables
  <2> QED
    BY <1>1, <1>7, <2>1, <2>3 DEF Work, BeforePrimaryDelete, AfterPrimaryDelete, Replacing
<1>8. CASE phase[j] = "drainStaging"
  <2>1. phase'[j] = "finish"
    BY <1>1, <1>8, PhaseOrder
  <2> QED
    BY <1>1, <1>8, <2>1 DEF Work, BeforePrimaryDelete, AfterPrimaryDelete, Replacing
<1>9. CASE phase[j] = "cleanup"
  <2>1. phase'[j] = "release"
    BY <1>1, <1>9, PhaseOrder
  <2> QED
    BY <1>1, <2>1 DEF Work, BeforePrimaryDelete, AfterPrimaryDelete, Replacing
<1> QED
  BY <1>2, <1>4, <1>5, <1>6, <1>7, <1>8, <1>9

\* The counts suffice for a restore: staging can only hold rows that were written
\* to it, so as many rows are the same rows.
LEMMA CountsSuffice ==
  ASSUME NEW j \in Jobs \ Imports, table[Kind(j)] \in Tables, rows[j] \in Tables,
         \A k \in Keys : table[Kind(j)][k] \in {Absent, rows[j][k]}, CountsMatch(j)
  PROVE  table[Kind(j)] = rows[j]
<1> DEFINE got == table[Kind(j)]
           expected == rows[j]
<1>1. Present(got) \subseteq Present(expected) /\ Present(expected) \subseteq Keys
  BY DEF Present
<1>2. IsFiniteSet(Present(expected))
  BY <1>1, FS_Subset, StagedReplaceAssumption
<1>3. Cardinality(Present(got)) = Cardinality(Present(expected))
  BY DEF CountsMatch, Counted
<1>4. Present(got) = Present(expected)
  BY <1>1, <1>2, <1>3, FS_Subset
<1>5. \A k \in Keys : got[k] = expected[k]
  BY <1>4 DEF Present
<1> QED
  BY <1>5 DEF Tables

\* An import's counts leave out its CLUSTER rows, but nobody else writes to its
\* staging rows, and it has written all of them when it gets here.
LEMMA ReadBackFacts ==
  ASSUME WorkInv, NEW j \in Jobs, At(j, "readBack"), CountsMatch(j)
  PROVE  table[Kind(j)] = rows[j] /\ rows[j] = Outcome(j, table["primary"])
<1>1. table[Kind(j)] \in Tables /\ rows[j] \in Tables
  BY KindFacts DEF WorkInv, LockInv, Types, TableNames
<1>2. /\ \A k \in Keys : table[Kind(j)][k] \in {Absent, rows[j][k]}
      /\ rows[j] = Outcome(j, table["primary"])
  BY DEF WorkInv, Work, At, BeforePrimaryDelete
<1>3. CASE j \in Imports
  <2>1. \A k \in Keys : table[Kind(j)][k] = rows[j][k]
    BY <1>3 DEF WorkInv, Work, At
  <2> QED
    BY <1>1, <1>2, <2>1 DEF Tables
<1>4. CASE j \notin Imports
  BY <1>1, <1>2, <1>4, CountsSuffice
<1> QED
  BY <1>3, <1>4

LEMMA WorkOfReadBack ==
  ASSUME WorkInv, Types', NEW j \in Jobs, ReadBack(j) PROVE Work(j)'
<1> USE KindFacts DEF WorkInv, LockInv, Types
<1>1. At(j, "readBack") /\ UNCHANGED <<table, lock, run>>
  BY DEF ReadBack
<1>2. CASE CountsMatch(j)
  <2>1. /\ phase'[j] = "clearPrimary" /\ rows'[j] = table[Kind(j)] /\ left'[j] = Keys
    BY <1>2 DEF ReadBack, Enter, Goto, KeysOf, DeletePhases
  <2>2. j \in Restores => rows'[j] = Restored(j)
    BY <1>1, <1>2, <2>1, ReadBackFacts DEF Outcome
  <2> QED
    BY <1>1, <2>1, <2>2 DEF Work, BeforePrimaryDelete
<1>3. CASE ~CountsMatch(j)
  <2>1. phase'[j] = "cleanup"
    BY <1>3 DEF ReadBack, Enter, Goto
  <2> QED
    BY <2>1 DEF Work, BeforePrimaryDelete, AfterPrimaryDelete, Replacing
<1> QED
  BY <1>2, <1>3

LEMMA WorkOfStart ==
  ASSUME WorkInv, Types', NEW j \in Jobs,
         CheckLock(j) \/ PutLock(j) \/ (j \in Imports /\ (Plan(j) \/ Collect(j)))
  PROVE  Work(j)'
<1> USE KindFacts DEF WorkInv, LockInv, Types
<1>1. table' = table
  BY DEF CheckLock, PutLock, Plan, Collect
<1>2. CASE phase'[j] = "clearStaging"
  <2>1. left'[j] = Keys
    BY <1>2 DEF CheckLock, PutLock, Plan, Collect, Enter, Goto, KeysOf, DeletePhases
  <2>2. rows'[j] = Outcome(j, table["primary"])'
    BY <1>1, <1>2, StagedReplaceAssumption
    DEF CheckLock, PutLock, Plan, Collect, Enter, Goto, Outcome, At, Jobs
  <2> QED
    BY <1>2, <2>1, <2>2 DEF Work, AfterPrimaryDelete, Replacing
<1>3. CASE phase'[j] # "clearStaging"
  <2>1. phase'[j] \in {"checked", "refused", "planning", "collect"}
    BY <1>3 DEF CheckLock, PutLock, Plan, Collect, Enter, Goto
  <2> QED
    BY <2>1 DEF Work, BeforePrimaryDelete, AfterPrimaryDelete, Replacing
<1> QED
  BY <1>2, <1>3

LEMMA WorkOfEnd ==
  ASSUME WorkInv, Types', NEW j \in Jobs,
         \/ Finish(j) \/ CallFails(j) \/ ChunkFails(j) \/ CleanupFails(j) \/ ReleaseFails(j) \/ Die(j)
         \/ PlanFails(j) \/ CollectFails(j)
  PROVE  Work(j)'
<1> USE KindFacts DEF WorkInv, LockInv, Types
<1>1. table' = table /\ rows' = rows
  BY DEF Finish, CallFails, ChunkFails,
         CleanupFails, ReleaseFails, Die, PlanFails, CollectFails, ReleaseTo
<1>2. \/ phase'[j] \in {"cleanup", "release", "done", "failed"}
      \/ phase'[j] = phase[j] /\ run'[j] # "running"
  BY DEF Finish, CallFails, ChunkFails,
         CleanupFails, ReleaseFails, Die, PlanFails, CollectFails, ReleaseTo,
         Catch, Enter, Goto, Answer
<1> QED
  BY <1>1, <1>2 DEF Work, BeforePrimaryDelete, AfterPrimaryDelete, Replacing

LEMMA WorkInvStep ==
  ASSUME Exclusive, Isolated, WorkInv, [Next]_vars PROVE WorkInv'
<1>1. LockInv'
  BY LockInvStep DEF WorkInv
<1>2. Types'
  BY <1>1 DEF LockInv
<1>3. OneLock' /\ Strays'
  BY <1>1, <1>2, OneLockStep, StraysStep
<1>4. ASSUME NEW j \in Jobs PROVE Work(j)'
  <2>1. CASE StrayLands
    BY <1>2, <2>1, WorkOfStray
  <2>2. CASE Abort \/ AbortClears \/ AbortFails \/ UNCHANGED vars
    BY <1>2, <2>2, WorkOfAbort
  <2>3. ASSUME NEW i \in Jobs, Workflow(i) \/ Failure(i) PROVE Work(j)'
    <3>1. CASE i # j
      BY <1>2, <2>3, <3>1, WorkOfOthers
    <3>2. CASE i = j
      BY <1>2, <2>3, <3>2, WorkOfDelete, WorkOfPut, WorkOfEndPhase, WorkOfReadBack, WorkOfStart,
         WorkOfEnd DEF Workflow, Failure
    <3> QED
      BY <3>1, <3>2
  <2> QED
    BY <2>1, <2>2, <2>3 DEF Next
<1> QED
  BY <1>1, <1>3, <1>4 DEF WorkInv

LEMMA WorkInvHolds == ASSUME Exclusive, Isolated PROVE Spec => []WorkInv
BY WorkInvInit, WorkInvStep, PTL DEF Spec

\* Where jobs cannot disturb each other and running restores are never aborted, the
\* half-replaced ledger is always whole in staging, behind a lock that is still there.
THEOREM StagingIsKept ==
  ASSUME Exclusive, Isolated, AbortPolicy = "never" PROVE Spec => []Recoverable
<1>1. WorkInv => Recoverable
  <2> SUFFICES ASSUME WorkInv, NEW j \in Jobs, Replacing(j)
               PROVE  table[Kind(j)] = rows[j] /\ lock[Kind(j)] = j
    BY DEF Recoverable
  <2>1. Keeps(j)
    BY DEF Keeps, HoldsLock, Replacing
  <2> QED
    BY <2>1 DEF WorkInv, Work, LockInv, Own
<1> QED
  BY <1>1, WorkInvHolds, PTL

\* Where jobs cannot disturb each other, a restore that answers 200 leaves exactly
\* its snapshot, also after aborts of restores that stopped half-way.
THEOREM SnapshotIsRestored ==
  ASSUME Exclusive, Isolated PROVE Spec => RestoredExactly
<1> DEFINE Exactly == \A r \in Restores :
             phase[r] # "done" /\ phase'[r] = "done" => table["primary"] = Restored(r)
<1>1. ASSUME WorkInv, [Next]_vars PROVE Exactly
  <2> SUFFICES ASSUME NEW r \in Restores, phase[r] # "done", phase'[r] = "done"
               PROVE  table["primary"] = Restored(r)
    OBVIOUS
  <2>1. phase \in [Jobs -> Phases] /\ r \in Jobs
    BY <1>1 DEF WorkInv, LockInv, Types, Jobs
  <2>2. PICK j \in Jobs : Workflow(j) \/ Failure(j)
    BY <1>1 DEF Next, vars, StrayLands, Abort, AbortClears, AbortFails
  <2>3. CASE EndPhase(j)
    BY <2>1, <2>3, PhaseOrder DEF EndPhase, Enter, Goto
  <2>4. CASE ~EndPhase(j)
    <3>1. At(r, "finish")
      BY <2>1, <2>2, <2>4
      DEF Workflow, Failure, CheckLock, PutLock, DeleteNext, PutOne, ReadBack, Finish, Catch, Plan,
          Collect, CallFails, ChunkFails,
          CleanupFails, ReleaseFails, Die, PlanFails, CollectFails, ReleaseTo,
          Enter, Goto, Answer, At
    <3> QED
      BY <1>1, <2>1, <3>1 DEF WorkInv, Work, At, AfterPrimaryDelete
  <2> QED
    BY <2>3, <2>4
<1> QED
  BY <1>1, WorkInvHolds, PTL DEF Spec, RestoredExactly

-----------------------------------------------------------------------------
(* The atomic ledger. *)

LEMMA OneReplaces ==
  ASSUME AbortPolicy = "never", WorkInv, NEW i \in Jobs, NEW j \in Jobs, Replacing(i), HoldsLock(j)
  PROVE  i = j
<1>1. Keeps(i) /\ Keeps(j)
  BY DEF Keeps, HoldsLock, Replacing
<1> QED
  BY <1>1, OneKeeps DEF WorkInv

LogicalIs ==
    /\ \A j \in Jobs : Replacing(j) => Logical = rows[j]
    /\ (\A j \in Jobs : ~Replacing(j)) => Logical = table["primary"]

LEMMA LogicalOf == ASSUME AbortPolicy = "never" PROVE WorkInv => LogicalIs
<1> SUFFICES ASSUME WorkInv PROVE LogicalIs
  OBVIOUS
<1>1. ASSUME NEW j \in Jobs, Replacing(j) PROVE Logical = rows[j]
  <2> DEFINE c == CHOOSE i \in Jobs : Replacing(i)
  <2>1. c \in Jobs /\ Replacing(c)
    BY <1>1
  <2>2. HoldsLock(j)
    BY <1>1 DEF HoldsLock, Replacing
  <2>3. c = j
    BY <2>1, <2>2, OneReplaces
  <2>4. table[Kind(j)] = rows[j]
    BY <1>1 DEF WorkInv, Work
  <2> QED
    BY <1>1, <2>3, <2>4 DEF Logical
<1>2. (\A j \in Jobs : ~Replacing(j)) => Logical = table["primary"]
  BY DEF Logical
<1> QED
  BY <1>1, <1>2 DEF LogicalIs

LEMMA LogicalOfNext == ASSUME AbortPolicy = "never" PROVE WorkInv' => LogicalIs'
<1>1. WorkInv => LogicalIs
  BY LogicalOf
<1> QED
  BY <1>1, PTL

LEMMA LedgerInit == Init => Abstract!Init
<1> SUFFICES ASSUME Init PROVE Abstract!Init
  OBVIOUS
<1>1. Promoted = {} /\ \A j \in Jobs : ~Replacing(j)
  BY DEF Init, Promoted, AfterPrimaryDelete, Replacing
<1>2. Logical = Initial
  BY <1>1 DEF Init, Logical
<1> QED
  BY <1>1, <1>2 DEF Abstract!Init

\* A step that replaces nothing: where the ledger is stays the same, and so do its rows.
LEMMA LedgerStays ==
  ASSUME AbortPolicy = "never", WorkInv, WorkInv',
         Promoted' = Promoted,
         \A j \in Jobs : Replacing(j)' => Replacing(j) /\ rows'[j] = rows[j],
         \A j \in Jobs : Replacing(j) /\ ~Replacing(j)' =>
             table'["primary"] = rows[j] /\ \A i \in Jobs : ~Replacing(i)',
         (\A j \in Jobs : ~Replacing(j)) => table'["primary"] = table["primary"]
  PROVE  UNCHANGED <<Logical, Promoted>>
<1>1. LogicalIs /\ LogicalIs'
  BY LogicalOf, LogicalOfNext
<1>2. CASE \E j \in Jobs : Replacing(j)'
  BY <1>1, <1>2 DEF LogicalIs
<1>3. CASE \A j \in Jobs : ~Replacing(j)'
  <2>1. CASE \E j \in Jobs : Replacing(j)
    BY <1>1, <1>3, <2>1 DEF LogicalIs
  <2>2. CASE \A j \in Jobs : ~Replacing(j)
    BY <1>1, <1>3, <2>2 DEF LogicalIs
  <2> QED
    BY <2>1, <2>2
<1> QED
  BY <1>2, <1>3

\* The commit: staging has been read back and becomes the ledger.
LEMMA LedgerCommits ==
  ASSUME AbortPolicy = "never", WorkInv, WorkInv', NEW j \in Jobs, ReadBack(j),
         CountsMatch(j)
  PROVE  Abstract!Commit(j)
<1> USE DEF At
<1>1. At(j, "readBack") /\ HoldsLock(j) /\ ~Replacing(j)
  BY DEF ReadBack, HoldsLock, Replacing
<1>2. \A i \in Jobs : ~Replacing(i)
  BY <1>1, OneReplaces
<1>3. rows'[j] = table[Kind(j)] /\ phase' = [phase EXCEPT ![j] = "clearPrimary"]
  BY DEF ReadBack, Enter, Goto, WorkInv, LockInv, Types
<1>4. table[Kind(j)] = rows[j] /\ rows[j] = Outcome(j, table["primary"])
  BY <1>1, ReadBackFacts
<1>5. phase \in [Jobs -> Phases]
  BY DEF WorkInv, LockInv, Types
<1>6. Replacing(j)'
  BY <1>3, <1>5 DEF Replacing
<1>7. Logical = table["primary"] /\ Logical' = Outcome(j, table["primary"])
  BY <1>2, <1>3, <1>4, <1>6, LogicalOf, LogicalOfNext DEF LogicalIs
<1>8. j \notin Promoted /\ Promoted' = Promoted \cup {j}
  BY <1>1, <1>3, <1>5 DEF Promoted, AfterPrimaryDelete
<1>9. Abstract!Outcome(j, Logical) = Outcome(j, Logical)
  BY DEF Abstract!Outcome, Outcome, Abstract!Restored, Restored, Abstract!Imported, Imported
<1> QED
  BY <1>7, <1>8, <1>9 DEF Abstract!Commit

LEMMA LedgerOfJob ==
  ASSUME AbortPolicy = "never", WorkInv, WorkInv', NEW j \in Jobs, Workflow(j) \/ Failure(j),
         ~(ReadBack(j) /\ CountsMatch(j))
  PROVE  UNCHANGED <<Logical, Promoted>>
<1> USE DEF WorkInv, LockInv, Types, At, Goto, Enter, Answer
<1>1. \A i \in Jobs \ {j} : phase'[i] = phase[i] /\ rows'[i] = rows[i]
  BY DEF Workflow, Failure, CheckLock, PutLock, DeleteNext, PutOne, EndPhase, ReadBack, Finish,
     Catch, Plan, Collect, CallFails, ChunkFails,
     CleanupFails, ReleaseFails, Die, PlanFails, CollectFails, ReleaseTo
<1>2. CASE EndPhase(j)
  <2>1. /\ run[j] = "running" /\ left[j] = {} /\ phase'[j] = Following[phase[j]]
        /\ UNCHANGED <<table, rows>>
    BY <1>2 DEF EndPhase
  <2>2. phase[j] \in {"clearStaging", "writeStaging", "clearPrimary", "writePrimary",
                      "drainStaging", "cleanup"}
    BY <1>2, PhaseOrder DEF EndPhase
  <2>3. Promoted' = Promoted
    BY <1>1, <2>1, <2>2, PhaseOrder DEF Promoted, AfterPrimaryDelete
  <2>4. \A i \in Jobs : Replacing(i)' => Replacing(i)
    BY <1>1, <2>1, <2>2, PhaseOrder DEF Replacing
  <2>5. ASSUME NEW i \in Jobs, Replacing(i), ~Replacing(i)'
        PROVE  table'["primary"] = rows[i] /\ \A m \in Jobs : ~Replacing(m)'
    <3>1. i = j /\ phase[j] = "writePrimary"
      BY <1>1, <2>1, <2>5, PhaseOrder DEF Replacing
    <3>2. table["primary"] \in Tables /\ rows[j] \in Tables
      BY DEF TableNames
    <3>3. \A k \in Keys : table["primary"][k] = rows[j][k]
      BY <2>1, <3>1 DEF Work
    <3>4. table["primary"] = rows[j]
      BY <3>2, <3>3 DEF Tables
    <3>5. \A m \in Jobs : Replacing(m) => m = j
      BY <2>5, <3>1, OneReplaces DEF HoldsLock, Replacing
    <3> QED
      BY <2>1, <2>4, <2>5, <3>1, <3>4, <3>5
  <2> QED
    BY <2>1, <2>3, <2>4, <2>5, LedgerStays
<1>3. CASE DeleteNext(j) \/ PutOne(j)
  <2>1. UNCHANGED <<phase, run, rows>>
    BY <1>3 DEF DeleteNext, PutOne
  <2>2. ASSUME \A i \in Jobs : ~Replacing(i) PROVE table'["primary"] = table["primary"]
    <3>1. TableOf(j) = Kind(j) /\ Kind(j) # "primary"
      BY <2>2, KindFacts DEF TableOf, Replacing, Kinds
    <3> QED
      BY <1>3, <3>1 DEF DeleteNext, PutOne, TableNames
  <2>3. Promoted' = Promoted
    BY <2>1 DEF Promoted
  <2> QED
    BY <2>1, <2>2, <2>3, LedgerStays DEF Replacing
<1>4. CASE ~EndPhase(j) /\ ~DeleteNext(j) /\ ~PutOne(j)
  <2>1. table' = table
    BY <1>4 DEF Workflow, Failure, CheckLock, PutLock, ReadBack, Finish,
       Plan, Collect, CallFails, ChunkFails,
       CleanupFails, ReleaseFails, Die, PlanFails, CollectFails, ReleaseTo
  <2>2. \/ phase'[j] = phase[j] /\ (rows'[j] = rows[j] \/ ~Replacing(j))
        \/ /\ phase[j] \notin AfterPrimaryDelete \cup {"done"}
           /\ phase'[j] \notin AfterPrimaryDelete \cup {"done"}
        \/ phase[j] = "finish" /\ phase'[j] = "done"
    BY <1>4 DEF Workflow, Failure, CheckLock, PutLock, ReadBack, Finish, Catch, Plan, Collect,
       CallFails, ChunkFails, CleanupFails, ReleaseFails, Die, PlanFails, CollectFails, ReleaseTo,
       AfterPrimaryDelete, BeforePrimaryDelete, Replacing
  <2>3. Promoted' = Promoted
    BY <1>1, <2>2 DEF Promoted, AfterPrimaryDelete
  <2>4. \A i \in Jobs : (Replacing(i)' <=> Replacing(i)) /\ (Replacing(i) => rows'[i] = rows[i])
    BY <1>1, <2>2 DEF Replacing, AfterPrimaryDelete
  <2> QED
    BY <2>1, <2>3, <2>4, LedgerStays
<1> QED
  BY <1>2, <1>3, <1>4

LEMMA LedgerStep ==
  ASSUME AbortPolicy = "never", WorkInv, WorkInv', [Next]_vars
  PROVE  [Abstract!Next]_<<Logical, Promoted>>
<1>1. ASSUME NEW j \in Jobs, Workflow(j) \/ Failure(j) PROVE [Abstract!Next]_<<Logical, Promoted>>
  <2>1. CASE ReadBack(j) /\ CountsMatch(j)
    <3>1. j \in Abstract!Jobs
      BY DEF Abstract!Jobs, Jobs
    <3> QED
      BY <2>1, <3>1, LedgerCommits DEF Abstract!Next
  <2>2. CASE ~(ReadBack(j) /\ CountsMatch(j))
    BY <1>1, <2>2, LedgerOfJob
  <2> QED
    BY <2>1, <2>2
<1>2. CASE StrayLands
  <2>1. PICK w \in stray : /\ table' = [table EXCEPT ![w.to][w.key] = w.row]
                           /\ UNCHANGED <<lock, phase, run, left, rows, abortLeft>>
    BY <1>2 DEF StrayLands
  <2>2. (\A j \in Jobs : ~Replacing(j)) => w.to # "primary"
    BY DEF WorkInv, Strays, Replacing
  <2>3. (\A j \in Jobs : ~Replacing(j)) => table'["primary"] = table["primary"]
    BY <2>1, <2>2 DEF WorkInv, LockInv, Types, TableNames
  <2> QED
    BY <2>1, <2>3, LedgerStays DEF Promoted, Replacing
<1>3. CASE Abort \/ AbortClears \/ AbortFails
  BY <1>3 DEF Abort, AbortClears, AbortFails, WorkInv, Strays
<1>4. CASE UNCHANGED vars
  BY <1>4, LedgerStays DEF vars, Promoted, Replacing
<1> QED
  BY <1>1, <1>2, <1>3, <1>4 DEF Next

\* Where jobs cannot disturb each other and no abort gives a stopped restore up, every
\* staged job is one atomic replacement of the ledger, or none at all.
THEOREM StagedJobsAreAtomic ==
  ASSUME Exclusive, Isolated, AbortPolicy = "never" PROVE Spec => ImplementsAtomicLedger
<1>1. WorkInv /\ WorkInv' /\ [Next]_vars => [Abstract!Next]_<<Logical, Promoted>>
  BY LedgerStep
<1>2. Spec => []WorkInv
  BY WorkInvHolds
<1> QED
  BY <1>1, <1>2, LedgerInit, PTL DEF Spec, ImplementsAtomicLedger, Abstract!Spec
=============================================================================
