--------------------------- MODULE StagedReplace ----------------------------
(***************************************************************************)
(* Replacing one user's partition through a staging table: backup restore  *)
(* (runRestoreBackupWorkflow, db/src/backupRestore.ts), staged import      *)
(* (runImportStagingWorkflow, db/src/importStaging.ts, called under the    *)
(* lock by executeImportOrchestration) and restore abort                   *)
(* (runRestoreAbortWorkflow). Jobs run in separate Lambda invocations;     *)
(* one action is at most one DynamoDB call, or one chunk of a batch.       *)
(***************************************************************************)
EXTENDS Naturals, FiniteSetsExt, LedgerOutcome

CONSTANTS
    Initial,        \* the primary table before any job
    ClusterKeys,    \* the sort keys of CLUSTER rows
    NoJob,          \* a lock row that is absent
    AbortPolicy,    \* "never", or "stopped": the user aborts after a restore ended
    RacyAcquires,   \* may a job's check fall between another one's check and put?
                    \* Only then can a restore and an import hold their locks at once.
    ChunkMayFail    \* may a BatchWriteItem put still be unprocessed after 8 attempts?

ASSUME StagedReplaceAssumption ==
    /\ Keys \subseteq Nat /\ IsFiniteSet(Keys) /\ Initial \in Tables
    /\ ClusterKeys \subseteq Keys
    /\ Restores \cap Imports = {} /\ NoJob \notin Restores \cup Imports
    /\ AbortPolicy \in {"never", "stopped"}
    /\ RacyAcquires \in BOOLEAN /\ ChunkMayFail \in BOOLEAN

VARIABLES
    table,      \* table[x]: "primary", and the staging tables "restore" and "import"
    lock,       \* lock[k]: the job whose lock row of kind k is on primary
    phase,      \* phase[j]: the statement of its workflow job j has reached
    run,        \* run[j]: "running", "answered" the client, or "died"
    left,       \* left[j]: keys the current partition delete or batch write has yet to do
    rows,       \* rows[j]: the items in the job's memory
    stray,      \* puts in flight whose Promise.all has already been rejected
    abortLeft   \* staging keys a running abort has yet to delete

vars == <<table, lock, phase, run, left, rows, stray, abortLeft>>

Kinds == {"restore", "import"}

\* The staging dataset and the lock sort key a workflow passes.
Kind(j) == IF j \in Restores THEN "restore" ELSE "import"
Other(k) == IF k = "restore" THEN "import" ELSE "restore"

Phases == {"idle", "checked", "planning", "collect", "clearStaging", "writeStaging",
           "readBack", "clearPrimary", "writePrimary", "drainStaging", "finish",
           "cleanup", "release", "done", "failed", "refused"}

Present(t) == {k \in Keys : t[k] # Absent}
Empty == [k \in Keys |-> Absent]

-----------------------------------------------------------------------------
(* Control: where a job goes next. *)

Goto(j, p) == phase' = [phase EXCEPT ![j] = p]

\* deleteUserPartition goes through the whole partition, batchWriteItemsParallel
\* through the items it was given.
DeletePhases == {"clearStaging", "clearPrimary", "drainStaging", "cleanup"}
WritePhases == {"writeStaging", "writePrimary"}

KeysOf(j, p) == IF p \in DeletePhases THEN Keys
                ELSE IF p \in WritePhases THEN Present(rows[j])
                ELSE {}

Enter(j, p) == Goto(j, p) /\ left' = [left EXCEPT ![j] = KeysOf(j, p)]

At(j, p) == run[j] = "running" /\ phase[j] = p
Answer(j) == run' = [run EXCEPT ![j] = "answered"]

Init ==
    /\ table = [x \in Kinds \cup {"primary"} |-> IF x = "primary" THEN Initial ELSE Empty]
    /\ lock = [k \in Kinds |-> NoJob]
    /\ phase = [j \in Jobs |-> "idle"]
    /\ run = [j \in Jobs |-> "running"]
    /\ left = [j \in Jobs |-> {}]
    /\ rows = [j \in Jobs |-> Empty]
    /\ stray = {}
    /\ abortLeft = {}

-----------------------------------------------------------------------------
(* Locks: see PartitionLocks, which also has the reads of lock rows that miss *)
(* a row just written. Here a check sees the other kind's row as it is.       *)

CheckLock(j) ==
    /\ At(j, "idle")
    /\ RacyAcquires \/ \A i \in Jobs : ~At(i, "checked")
    /\ IF lock[Other(Kind(j))] = NoJob
       THEN Goto(j, "checked") /\ UNCHANGED run
       ELSE Goto(j, "refused") /\ Answer(j)
    /\ UNCHANGED <<table, lock, left, rows, stray, abortLeft>>

\* A restore has materialized the validated snapshot before it asks for the lock.
PutLock(j) ==
    /\ At(j, "checked")
    /\ IF lock[Kind(j)] # NoJob
       THEN Goto(j, "refused") /\ Answer(j) /\ UNCHANGED <<lock, left, rows>>
       ELSE /\ lock' = [lock EXCEPT ![Kind(j)] = j]
            /\ IF j \in Restores
               THEN /\ Enter(j, "clearStaging")
                    /\ rows' = [rows EXCEPT ![j] = Restored(j)]
               ELSE Goto(j, "planning") /\ UNCHANGED <<left, rows>>
            /\ UNCHANGED run
    /\ UNCHANGED <<table, stray, abortLeft>>

\* DeleteItem on the job's own kind of row, whoever wrote it.
ReleaseTo(j, p) ==
    /\ lock' = [lock EXCEPT ![Kind(j)] = NoJob]
    /\ Goto(j, p)
    /\ Answer(j)
    /\ UNCHANGED <<table, left, rows, stray, abortLeft>>

-----------------------------------------------------------------------------
(* The import before its workflow's try block. *)

\* Account, amount policy, currency, planning; then persistStarted = true.
Plan(i) ==
    /\ At(i, "planning")
    /\ Goto(i, "collect")
    /\ UNCHANGED <<table, lock, run, left, rows, stray, abortLeft>>

\* Mutant: persistStarted is set before the planning.
PlanFailsForGood(i) ==
    /\ At(i, "planning")
    /\ Answer(i)
    /\ UNCHANGED <<table, lock, phase, left, rows, stray, abortLeft>>

\* Before persistStarted a failure goes on to the release.
PlanFails(i) ==
    /\ At(i, "planning")
    /\ Enter(i, "release")
    /\ UNCHANGED <<table, lock, run, rows, stray, abortLeft>>

\* collectUserPartitionItems, materializeImportPlanToItems, first validation.
Collect(i) ==
    /\ At(i, "collect")
    /\ rows' = [rows EXCEPT ![i] = Imported(i, table["primary"])]
    /\ Enter(i, "clearStaging")
    /\ UNCHANGED <<table, lock, run, stray, abortLeft>>

\* These calls stand before the try block, and orchestration no longer releases.
CollectFails(i) ==
    /\ At(i, "collect")
    /\ Answer(i)
    /\ UNCHANGED <<table, lock, phase, left, rows, stray, abortLeft>>

-----------------------------------------------------------------------------
(* deleteUserPartition and batchWriteItemsParallel. *)

\* resolveUserPartitionDataset: the table of the current delete or write.
TableOf(j) == IF phase[j] \in {"clearPrimary", "writePrimary"} THEN "primary" ELSE Kind(j)

\* Query returns ascending sort keys; each page is deleted before the next.
DeleteNext(j) ==
    /\ run[j] = "running" /\ phase[j] \in DeletePhases
    /\ left[j] # {}
    /\ table' = [table EXCEPT ![TableOf(j)][Min(left[j])] = Absent]
    /\ left' = [left EXCEPT ![j] = @ \ {Min(left[j])}]
    /\ UNCHANGED <<lock, phase, run, rows, stray, abortLeft>>

\* At most 8 chunks are in flight at once, and they land in any order.
PutOne(j) ==
    /\ run[j] = "running" /\ phase[j] \in WritePhases
    /\ \E k \in left[j] :
         /\ table' = [table EXCEPT ![TableOf(j)][k] = rows[j][k]]
         /\ left' = [left EXCEPT ![j] = @ \ {k}]
    /\ UNCHANGED <<lock, phase, run, rows, stray, abortLeft>>

\* Mutant: staging is drained before its rows have been copied.
FollowingDrainFirst ==
    [clearStaging |-> "writeStaging", writeStaging |-> "readBack",
     clearPrimary |-> "drainStaging", drainStaging |-> "writePrimary",
     writePrimary |-> "finish", cleanup |-> "release"]

\* The order of the statements in the two workflows.
Following ==
    [clearStaging |-> "writeStaging", writeStaging |-> "readBack",
     clearPrimary |-> "writePrimary", writePrimary |-> "drainStaging",
     drainStaging |-> "finish", cleanup |-> "release"]

EndPhase(j) ==
    /\ run[j] = "running" /\ phase[j] \in DOMAIN Following
    /\ left[j] = {}
    /\ Enter(j, Following[phase[j]])
    /\ UNCHANGED <<table, lock, run, rows, stray, abortLeft>>

\* validateMaterializedStaging counts the rows of every type,
\* validateMaterializedImportStaging of every type but CLUSTER.
Counted(j, t) == IF j \in Imports THEN Present(t) \ ClusterKeys ELSE Present(t)

\* Mutant: staging is trusted to hold what was written to it.
CountsTrusted(j) == TRUE

\* The numbers of rows are compared, never their contents.
CountsMatch(j) == Cardinality(Counted(j, table[Kind(j)])) = Cardinality(Counted(j, rows[j]))

\* The rows promoted are those read back from staging; then primaryDeleteStarted.
ReadBack(j) ==
    /\ At(j, "readBack")
    /\ IF CountsMatch(j)
       THEN Enter(j, "clearPrimary") /\ rows' = [rows EXCEPT ![j] = table[Kind(j)]]
       ELSE Enter(j, "cleanup") /\ UNCHANGED rows
    /\ UNCHANGED <<table, lock, run, stray, abortLeft>>

\* afterPromote, refreshMetrics, release; and the release after a failure.
Finish(j) ==
    \/ At(j, "finish") /\ ReleaseTo(j, "done")
    \/ At(j, "release") /\ ReleaseTo(j, "failed")

-----------------------------------------------------------------------------
(* Failures. *)

BeforePrimaryDelete == {"clearStaging", "writeStaging", "readBack"}
AfterPrimaryDelete == {"clearPrimary", "writePrimary", "drainStaging", "finish"}

\* Mutant: a catch block without the primaryDeleteStarted flag.
CatchAlwaysCleans(j) == Enter(j, "cleanup") /\ UNCHANGED run

\* The catch block: before primaryDeleteStarted it clears staging and releases,
\* afterwards it leaves staging and the lock and answers 500.
Catch(j) ==
    IF phase[j] \in BeforePrimaryDelete
    THEN Enter(j, "cleanup") /\ UNCHANGED run
    ELSE Answer(j) /\ UNCHANGED <<phase, left>>

\* A query, a delete batch, afterPromote or refreshMetrics throws.
CallFails(j) ==
    /\ \E p \in {"clearStaging", "readBack", "clearPrimary", "drainStaging", "finish"} : At(j, p)
    /\ Catch(j)
    /\ UNCHANGED <<table, lock, rows, stray, abortLeft>>

\* One chunk gives up: Promise.all rejects at once, the other workers write on.
ChunkFails(j) ==
    /\ ChunkMayFail
    /\ run[j] = "running" /\ phase[j] \in WritePhases
    /\ \E k \in left[j] :
         stray' = stray \cup {[to |-> TableOf(j), key |-> m, row |-> rows[j][m]] :
                                 m \in left[j] \ {k}}
    /\ Catch(j)
    /\ UNCHANGED <<table, lock, rows, abortLeft>>

StrayLands ==
    \E w \in stray :
        /\ table' = [table EXCEPT ![w.to][w.key] = w.row]
        /\ stray' = stray \ {w}
        /\ UNCHANGED <<lock, phase, run, left, rows, abortLeft>>

\* Mutant: an exception in the cleanup skips the release.
CleanupFailsForGood(j) ==
    /\ At(j, "cleanup")
    /\ Answer(j)
    /\ UNCHANGED <<table, lock, phase, left, rows, stray, abortLeft>>

\* Best effort: a failing cleanup goes on to the release.
CleanupFails(j) ==
    /\ At(j, "cleanup")
    /\ Enter(j, "release")
    /\ UNCHANGED <<table, lock, run, rows, stray, abortLeft>>

\* Best effort: a failing release is swallowed, and the request answers with the
\* error that it was handling. Its lock row stays.
ReleaseFails(j) ==
    /\ At(j, "release")
    /\ Answer(j)
    /\ UNCHANGED <<table, lock, phase, left, rows, stray, abortLeft>>

\* The Lambda times out or crashes.
Die(j) ==
    /\ run[j] = "running" /\ phase[j] # "idle"
    /\ run' = [run EXCEPT ![j] = "died"]
    /\ UNCHANGED <<table, lock, phase, left, rows, stray, abortLeft>>

-----------------------------------------------------------------------------
(* POST /api/backup/restore/abort: the lock row first, then staging. *)

HoldsLock(j) == phase[j] \notin {"idle", "checked", "refused", "done", "failed"}

Abort ==
    /\ AbortPolicy = "stopped"
    /\ \A r \in Restores : run[r] = "running" => ~HoldsLock(r)
    /\ abortLeft = {}
    /\ lock' = [lock EXCEPT !["restore"] = NoJob]
    /\ abortLeft' = Keys
    /\ UNCHANGED <<table, phase, run, left, rows, stray>>

AbortClears ==
    /\ abortLeft # {}
    /\ table' = [table EXCEPT !["restore"][Min(abortLeft)] = Absent]
    /\ abortLeft' = abortLeft \ {Min(abortLeft)}
    /\ UNCHANGED <<lock, phase, run, left, rows, stray>>

\* RestoreAbortStagingCleanupError, or the abort's own Lambda dies.
AbortFails ==
    /\ abortLeft # {}
    /\ abortLeft' = {}
    /\ UNCHANGED <<table, lock, phase, run, left, rows, stray>>

-----------------------------------------------------------------------------
Workflow(j) ==
    \/ CheckLock(j) \/ PutLock(j)
    \/ DeleteNext(j) \/ PutOne(j) \/ EndPhase(j) \/ ReadBack(j) \/ Finish(j)
    \/ j \in Imports /\ (Plan(j) \/ Collect(j))

Failure(j) ==
    \/ CallFails(j) \/ ChunkFails(j) \/ CleanupFails(j) \/ ReleaseFails(j) \/ Die(j)
    \/ j \in Imports /\ (PlanFails(j) \/ CollectFails(j))

Next ==
    \/ \E j \in Jobs : Workflow(j) \/ Failure(j)
    \/ StrayLands \/ Abort \/ AbortClears \/ AbortFails

Spec == Init /\ [][Next]_vars

-----------------------------------------------------------------------------
\* Everything has its type; a stray put is for a key of a table.
TypeOK ==
    /\ table \in [Kinds \cup {"primary"} -> Tables]
    /\ lock["restore"] \in Restores \cup {NoJob}
    /\ lock["import"] \in Imports \cup {NoJob}
    /\ phase \in [Jobs -> Phases]
    /\ run \in [Jobs -> {"running", "answered", "died"}]
    /\ left \in [Jobs -> SUBSET Keys]
    /\ rows \in [Jobs -> Tables]
    /\ \A w \in stray : w.to \in Kinds \cup {"primary"} /\ w.key \in Keys
    /\ abortLeft \subseteq Keys

\* The primary copy of job j is unfinished, whether or not j still runs.
Replacing(j) == phase[j] \in {"clearPrimary", "writePrimary"}

\* data_model.md 8.2: "do not clear staging until primary copy ... succeed". While
\* primary is partly deleted or partly copied, staging holds exactly the rows that
\* belong there and the job's lock row keeps every other job out.
Recoverable ==
    \A j \in Jobs : Replacing(j) =>
        table[Kind(j)] = rows[j] /\ lock[Kind(j)] = j

\* api_contract.md 6: "success": the primary partition matches the restored snapshot
\* at the moment the restore answers 200.
RestoredExactly ==
    [][\A r \in Restores :
         phase[r] # "done" /\ phase'[r] = "done" =>
             table["primary"] = Restored(r)]_vars

\* A failed restore or import leaves its lock row behind, with the user shut out
\* of the next one, in three cases only: primary rows have begun to go, or the
\* best-effort release itself has failed, or a staged import threw while it
\* collected and materialized (importStaging.ts:136), which is after
\* persistStarted and before the try block. No other failure, and no failure of
\* the cleanup, skips the release of import_transaction_files.md 8.7.2.
FailureReleasesLock ==
    \A j \in Jobs :
        run[j] = "answered" /\ lock[Kind(j)] = j =>
            phase[j] \in AfterPrimaryDelete \cup {"release", "collect"}

-----------------------------------------------------------------------------
(* Refinement. The ledger a reader may rely on is staging while the primary *)
(* copy is unfinished, primary otherwise: it changes exactly when a job has *)
(* validated its staged rows.                                               *)

Logical ==
    IF \E j \in Jobs : Replacing(j)
    THEN table[Kind(CHOOSE j \in Jobs : Replacing(j))]
    ELSE table["primary"]

Promoted == {j \in Jobs : phase[j] \in AfterPrimaryDelete \cup {"done"}}

Abstract == INSTANCE AtomicLedger WITH ledger <- Logical, committed <- Promoted

\* Every staged restore and import is one atomic replacement of the ledger, and
\* those that fail or die before the swap leave it as it was.
ImplementsAtomicLedger == Abstract!Spec

\* Where PartitionLocks sees a job.
LockPc(j) ==
    IF phase[j] \in {"idle", "done", "failed", "refused"} THEN phase[j]
    ELSE IF run[j] # "running" THEN "stopped"
    ELSE IF phase[j] = "checked" THEN "checked"
    ELSE IF phase[j] \in AfterPrimaryDelete THEN "replacing"
    ELSE "held"

Locks == INSTANCE PartitionLocks WITH
    NoRequest <- NoJob, AbortLiveRestores <- FALSE, StaleReads <- FALSE,
    pc <- [j \in Jobs |-> LockPc(j)]

\* The workflows take, keep and release their lock rows as PartitionLocks says.
ImplementsLocks == Locks!Spec
=============================================================================
