--------------------------- MODULE ImportInPlace ----------------------------
(***************************************************************************)
(* POST /api/imports without an import staging table                       *)
(* (executeImportOrchestration and persistImportInPlace): every upload is  *)
(* checked for a duplicate, takes SYSTEM#IMPORT_LOCK, plans a new clustering*)
(* of the whole ledger and writes it to the primary table row by row, then *)
(* stores the file's bytes, its FILE row and the dashboard metrics. Uploads *)
(* run in separate Lambda invocations, which may fail or die at any await. *)
(*                                                                         *)
(* A plan puts every transaction into clusters of freshly minted ids; one  *)
(* per plan stands for them, named after the upload that minted it.        *)
(***************************************************************************)
EXTENDS Naturals, FiniteSets

CONSTANTS
    Uploads,        \* import requests of one user
    File,           \* File[u]: the bytes uploaded, i.e. their content_sha256
    Length,         \* Length[f]: the rows parsed from a file; it may be 0
    NewAccount,     \* the uploads that give new_account_name
    Before,         \* stands for the imports before these
    OldRows,        \* how many transactions those left
    NoUpload,       \* the lock row is absent
    Absent          \* an item that is absent

ASSUME ImportInPlaceAssumption ==
    /\ Length \in [{File[u] : u \in Uploads} -> Nat]
    /\ NewAccount \subseteq Uploads
    /\ Before \notin Uploads /\ OldRows \in Nat
    /\ NoUpload \notin Uploads /\ Absent \notin Uploads \cup {Before}

Origins == Uploads \cup {Before}
RowsOf(o) == {<<o, n>> : n \in 1..(IF o = Before THEN OldRows ELSE Length[File[o]])}
Rows == UNION {RowsOf(o) : o \in Origins}

ASSUME AbsentAssumption ==
    /\ Absent \notin {"withBlob", "plain"}
    /\ \A members \in SUBSET Rows : Absent # members

VARIABLES
    lock,       \* SYSTEM#IMPORT_LOCK
    cluster,    \* cluster[t]: the cluster_id of the TXN row t, or Absent
    aggregate,  \* aggregate[c]: the members the CLUSTER row c counts, or Absent
    file,       \* file[u]: the FILE row: "withBlob", "plain", or Absent
    blob,       \* the uploads whose bytes are in the blob store
    account,    \* the uploads that created an ACCOUNT row
    counted,    \* the transactions the METRICS row is computed from
    pc,         \* where each upload is
    todo,       \* todo[u]: the rows or clusters its current loop has yet to write
    retired     \* retired[u]: the plan's retiredClusterIds

ledger == <<cluster, aggregate, counted>>
files == <<file, blob, account>>
vars == <<lock, ledger, files, pc, todo, retired>>

Persisting == {"patch", "insert", "aggregate", "retire", "blob", "record",
               "unblob", "recordPlain", "metrics", "releasing", "failing"}
UnderLock == Persisting \cup {"locked", "planning"}
Answered == {"done", "failed", "duplicate", "locked out"}
PcStates == UnderLock \cup Answered \cup {"idle", "checked", "died"}

Present == {t \in Rows : cluster[t] # Absent}
Goto(u, s) == pc' = [pc EXCEPT ![u] = s]

Init ==
    /\ lock = NoUpload
    /\ cluster = [t \in Rows |-> IF t \in RowsOf(Before) THEN Before ELSE Absent]
    /\ aggregate = [c \in Origins |->
                      IF c = Before /\ OldRows > 0 THEN RowsOf(Before) ELSE Absent]
    /\ file = [u \in Uploads |-> Absent]
    /\ blob = {} /\ account = {}
    /\ counted = RowsOf(Before)
    /\ pc = [u \in Uploads |-> "idle"]
    /\ todo = [u \in Uploads |-> {}]
    /\ retired = [u \in Uploads |-> {}]

-----------------------------------------------------------------------------
(* Before the lock. *)

\* Mutant: every upload is new.
NeverDuplicate(u) == FALSE

\* findDuplicateBlobImport: a FILE row with the same content_sha256.
Duplicate(u) == \E v \in Uploads : File[v] = File[u] /\ file[v] # Absent

\* assertNoDuplicateBlobImport, 409 duplicate_blob. Then the account is read and
\* the file parsed; an upload these reject has written nothing, like an idle one.
CheckDuplicate(u) ==
    /\ pc[u] = "idle"
    /\ Goto(u, IF Duplicate(u) THEN "duplicate" ELSE "checked")
    /\ UNCHANGED <<lock, ledger, files, todo, retired>>

\* Mutant: the put has lost its condition.
AcquireUnconditionally(u) ==
    /\ pc[u] = "checked"
    /\ lock' = u /\ Goto(u, "locked")
    /\ UNCHANGED <<ledger, files, todo, retired>>

\* acquireImportLock: the conditional put (the user restores no backup meanwhile).
AcquireLock(u) ==
    /\ pc[u] = "checked"
    /\ IF lock = NoUpload
       THEN lock' = u /\ Goto(u, "locked")
       ELSE Goto(u, "locked out") /\ UNCHANGED lock
    /\ UNCHANGED <<ledger, files, todo, retired>>

-----------------------------------------------------------------------------
(* Planning, under the lock. *)

\* resolveAccountAfterLock.
ResolveAccount(u) ==
    /\ pc[u] = "locked"
    /\ account' = account \cup ({u} \cap NewAccount)
    /\ Goto(u, "planning")
    /\ UNCHANGED <<lock, ledger, file, blob, todo, retired>>

\* Mutant: only the new rows get the plan's clusters, the old ones are left to theirs.
PlanWithoutPatches(u) ==
    /\ pc[u] = "planning"
    /\ retired' = [retired EXCEPT ![u] = {cluster[t] : t \in Present}]
    /\ Goto(u, "patch")
    /\ UNCHANGED <<lock, ledger, files, todo>>

\* buildLedgerSnapshot, runImportPlanning: all rows read are patched and all their
\* clusters retired, since the plan mints new ids; a file without rows has the
\* empty plan. Then persistStarted = true.
PlanImport(u) ==
    /\ pc[u] = "planning"
    /\ IF RowsOf(u) = {}
       THEN UNCHANGED <<todo, retired>>
       ELSE /\ todo' = [todo EXCEPT ![u] = Present]
            /\ retired' = [retired EXCEPT ![u] = {cluster[t] : t \in Present}]
    /\ Goto(u, "patch")
    /\ UNCHANGED <<lock, ledger, files>>

-----------------------------------------------------------------------------
(* persistImportPlan: one UpdateItem per patch, batches of new rows, the new *)
(* CLUSTER rows, one DeleteItem per retired cluster.                        *)

\* patchExistingTransactionsAfterImport and ingestImportBatch.
WriteRow(u) ==
    /\ pc[u] \in {"patch", "insert"}
    /\ \E t \in todo[u] :
         /\ cluster' = [cluster EXCEPT ![t] = u]
         /\ todo' = [todo EXCEPT ![u] = @ \ {t}]
    /\ UNCHANGED <<lock, aggregate, counted, files, pc, retired>>

\* rebuildClusterAggregatesAfterImport reads the members through GSI1, which may
\* lag behind the rows just written.
RebuildAggregate(u) ==
    /\ pc[u] = "aggregate"
    /\ IF RowsOf(u) = {}
       THEN UNCHANGED aggregate
       ELSE \E members \in SUBSET {t \in Present : cluster[t] = u} :
              aggregate' = [aggregate EXCEPT ![u] = members]
    /\ todo' = [todo EXCEPT ![u] = retired[u]]
    /\ Goto(u, "retire")
    /\ UNCHANGED <<lock, cluster, counted, files, retired>>

\* retireClusterAggregates.
RetireCluster(u) ==
    /\ pc[u] = "retire"
    /\ \E c \in todo[u] :
         /\ aggregate' = [aggregate EXCEPT ![c] = Absent]
         /\ todo' = [todo EXCEPT ![u] = @ \ {c}]
    /\ UNCHANGED <<lock, cluster, counted, files, pc, retired>>

\* Mutant: ingestImportBatch is called without `await`, and the Lambda freezes.
AfterLoopUnawaitedIngest == [patch |-> "aggregate", insert |-> "aggregate", retire |-> "blob"]

\* The order of the calls in persistImportPlan and persistImportInPlace.
AfterLoop == [patch |-> "insert", insert |-> "aggregate", retire |-> "blob"]

EndLoop(u) ==
    /\ pc[u] \in DOMAIN AfterLoop /\ todo[u] = {}
    /\ todo' = [todo EXCEPT ![u] = IF pc[u] = "patch" THEN RowsOf(u) ELSE {}]
    /\ Goto(u, AfterLoop[pc[u]])
    /\ UNCHANGED <<lock, ledger, files, retired>>

-----------------------------------------------------------------------------
(* attachImportBlobAndRecordFile. *)

\* putImportBlobIfEnabled: the store is off, fails (not fatal), or has the bytes.
PutBlob(u) ==
    /\ pc[u] = "blob"
    /\ \E stored \in {{}, {u}} : blob' = blob \cup stored
    /\ Goto(u, "record")
    /\ UNCHANGED <<lock, ledger, file, account, todo, retired>>

\* recordTransactionFile; its failure is final unless there is a blob to delete.
RecordFile(u) ==
    /\ pc[u] = "record"
    /\ \/ /\ file' = [file EXCEPT ![u] = IF u \in blob THEN "withBlob" ELSE "plain"]
          /\ Goto(u, "metrics")
       \/ /\ Goto(u, IF u \in blob THEN "unblob" ELSE "failing")
          /\ UNCHANGED file
    /\ UNCHANGED <<lock, ledger, blob, account, todo, retired>>

\* store.delete, best effort.
DeleteBlob(u) ==
    /\ pc[u] = "unblob"
    /\ \E gone \in {{}, {u}} : blob' = blob \ gone
    /\ Goto(u, "recordPlain")
    /\ UNCHANGED <<lock, ledger, file, account, todo, retired>>

\* Mutant: the retry sends the same item again.
RecordSameAgain(u) ==
    /\ pc[u] = "recordPlain"
    /\ file' = [file EXCEPT ![u] = "withBlob"]
    /\ Goto(u, "metrics")
    /\ UNCHANGED <<lock, ledger, blob, account, todo, retired>>

\* The second try, metadata only.
RecordPlain(u) ==
    /\ pc[u] = "recordPlain"
    /\ file' = [file EXCEPT ![u] = "plain"]
    /\ Goto(u, "metrics")
    /\ UNCHANGED <<lock, ledger, blob, account, todo, retired>>

\* refreshStoredDashboardMetrics: listTransactions, then a put.
RefreshMetrics(u) ==
    /\ pc[u] = "metrics"
    /\ counted' = Present
    /\ Goto(u, "releasing")
    /\ UNCHANGED <<lock, cluster, aggregate, files, todo, retired>>

\* releaseImportLock at the end. If it throws, a committed import answers 500.
ReleaseLock(u) ==
    /\ pc[u] = "releasing"
    /\ \/ lock' = NoUpload /\ Goto(u, "done")
       \/ Goto(u, "failed") /\ UNCHANGED lock
    /\ UNCHANGED <<ledger, files, todo, retired>>

-----------------------------------------------------------------------------
(* Failures. *)

\* A call throws: to the catch of persistImportInPlace, or of the orchestration.
\* (RecordFile and ReleaseLock have their own; the blob calls never throw.)
CallFails(u) ==
    /\ pc[u] \in {"locked", "planning", "patch", "insert", "aggregate", "retire",
                  "recordPlain", "metrics"}
    /\ Goto(u, "failing")
    /\ UNCHANGED <<lock, ledger, files, todo, retired>>

\* releaseImportLockBestEffort. Nothing written is undone.
CatchError(u) ==
    /\ pc[u] = "failing"
    /\ lock' \in {NoUpload, lock}
    /\ Goto(u, "failed")
    /\ UNCHANGED <<ledger, files, todo, retired>>

\* The Lambda times out or crashes.
Die(u) ==
    /\ pc[u] \in UnderLock \cup {"checked"}
    /\ Goto(u, "died")
    /\ UNCHANGED <<lock, ledger, files, todo, retired>>

-----------------------------------------------------------------------------
Persist(u) ==
    \/ WriteRow(u) \/ RebuildAggregate(u) \/ RetireCluster(u) \/ EndLoop(u)
    \/ PutBlob(u) \/ RecordFile(u) \/ DeleteBlob(u) \/ RecordPlain(u)
    \/ RefreshMetrics(u) \/ ReleaseLock(u)

Next ==
    \E u \in Uploads :
        \/ CheckDuplicate(u) \/ AcquireLock(u) \/ ResolveAccount(u) \/ PlanImport(u)
        \/ Persist(u) \/ CallFails(u) \/ CatchError(u) \/ Die(u)

Spec == Init /\ [][Next]_vars

-----------------------------------------------------------------------------
\* Everything has its type; what a plan retires are clusters.
TypeOK ==
    /\ lock \in Uploads \cup {NoUpload}
    /\ cluster \in [Rows -> Origins \cup {Absent}]
    /\ \A c \in Origins : aggregate[c] = Absent \/ aggregate[c] \subseteq Rows
    /\ file \in [Uploads -> {"withBlob", "plain", Absent}]
    /\ blob \subseteq Uploads /\ account \subseteq NewAccount
    /\ counted \subseteq Rows
    /\ pc \in [Uploads -> PcStates]
    /\ \A u \in Uploads : todo[u] \subseteq Rows \cup Origins /\ retired[u] \subseteq Origins

\* import_transaction_files.md 4.6 A2: no path "returns 200 unless the import is fully
\* committed on primary", whatever earlier uploads left half done. At the 200 every
\* transaction there is has been moved to this plan's clusters, none of the retired
\* CLUSTER rows is left, the FILE row exists and METRICS counts every transaction.
SuccessCommitsEverything ==
    [][\A u \in Uploads : pc[u] # "done" /\ pc'[u] = "done" =>
         /\ file[u] # Absent
         /\ counted = Present
         /\ RowsOf(u) # {} =>
              /\ RowsOf(u) \subseteq Present
              /\ \A t \in Present : cluster[t] = u
              /\ aggregate[u] # Absent
              /\ \A c \in retired[u] : aggregate[c] = Absent]_vars

\* A FILE row refuses every later upload of the same bytes, so it may only exist when
\* all the rows of that file are in the ledger: also after a failure or a crash.
RecordedFileIsComplete ==
    \A u \in Uploads : file[u] # Absent => RowsOf(u) \subseteq Present

\* A FILE row refers to a blob only if the blob store has it, in spite of the
\* compensating delete and the second try (import_file_blob_storage.md 8).
NoDanglingBlob == \A u \in Uploads : file[u] = "withBlob" => u \in blob

\* An upload whose check comes after the answer to a successful one with the same
\* bytes is refused.
LateDuplicateRefused ==
    [][\A u \in Uploads : pc[u] = "idle" /\ pc'[u] = "checked" =>
         \A v \in Uploads : File[v] = File[u] => pc[v] # "done"]_vars

-----------------------------------------------------------------------------
(* Where PartitionLocks sees an upload. *)

LockPc(u) ==
    CASE pc[u] \in {"idle", "duplicate"} -> "idle"
      [] pc[u] = "checked" -> "checked"
      [] pc[u] = "locked out" -> "refused"
      [] pc[u] = "done" -> "done"
      [] pc[u] = "died" \/ (pc[u] = "failed" /\ lock = u) -> "stopped"
      [] pc[u] = "failed" /\ lock # u -> "failed"
      [] pc[u] \in UnderLock -> "held"

Locks == INSTANCE PartitionLocks WITH
    Restores <- {}, Imports <- Uploads, NoRequest <- NoUpload,
    AbortLiveRestores <- FALSE, StaleReads <- FALSE,
    lock <- [k \in {"restore", "import"} |-> IF k = "import" THEN lock ELSE NoUpload],
    pc <- [u \in Uploads |-> LockPc(u)]

\* However an upload ends, it takes, keeps and releases the lock row as
\* PartitionLocks says, so what is proved there holds here.
ImplementsLocks == Locks!Spec
=============================================================================
