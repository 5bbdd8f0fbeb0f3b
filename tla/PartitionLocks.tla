--------------------------- MODULE PartitionLocks ---------------------------
(***************************************************************************)
(* The two lock rows of one user's partition on the primary table,         *)
(* SYSTEM#RESTORE_LOCK and SYSTEM#IMPORT_LOCK (db/src/userPartition.ts),    *)
(* and the requests that take them: POST /api/backup/restore,              *)
(* POST /api/imports and POST /api/backup/restore/abort.                   *)
(*                                                                         *)
(* Every `await` on DynamoDB is a point where other Lambda invocations     *)
(* run, so the read of the other kind's row and the conditional put of the *)
(* own row are two actions.                                                *)
(***************************************************************************)

CONSTANTS
    Restores,           \* restore requests of the user
    Imports,            \* import requests of the user
    NoRequest,          \* a lock row that is absent
    AbortLiveRestores,  \* may the user abort while a restore is running?
    StaleReads          \* may a GetItem return an old row? None is a ConsistentRead here

ASSUME RequestsAssumption ==
    /\ Restores \cap Imports = {}
    /\ NoRequest \notin Restores \cup Imports
    /\ AbortLiveRestores \in BOOLEAN
    /\ StaleReads \in BOOLEAN

Kinds == {"restore", "import"}
Requests == Restores \cup Imports
Kind(r) == IF r \in Restores THEN "restore" ELSE "import"
Other(k) == IF k = "restore" THEN "import" ELSE "restore"

(***************************************************************************)
(* held:      the lock row is written, primary not yet replaced            *)
(* replacing: deleteUserPartition on primary has begun                     *)
(* failed:    the request answered 5xx and its catch path released         *)
(* stopped:   the invocation died, or threw where nothing releases         *)
(***************************************************************************)
PcStates == {"idle", "checked", "held", "replacing",
             "done", "refused", "failed", "stopped"}

VARIABLES
    lock,   \* lock[k]: the request that wrote the row of kind k
    pc      \* where each request is

vars == <<lock, pc>>

\* A row of either kind can only have been written by a request of that kind.
TypeOK ==
    /\ lock \in [Kinds -> Requests \cup {NoRequest}]
    /\ \A k \in Kinds : lock[k] # NoRequest => Kind(lock[k]) = k
    /\ pc \in [Requests -> PcStates]

Init ==
    /\ lock = [k \in Kinds |-> NoRequest]
    /\ pc = [r \in Requests |-> "idle"]

Live(r) == pc[r] \in {"held", "replacing"}
Goto(r, s) == pc' = [pc EXCEPT ![r] = s]

\* releaseRestoreLock, releaseImportLock, deleteRestoreLockIfPresent: a plain
\* DeleteItem, whoever wrote the row.
DeleteLock(k) == lock' = [lock EXCEPT ![k] = NoRequest]

\* What getImportLock or getRestoreLock may return: the row, or, since they ask
\* for no consistent read, any older state of it. Only whether there was a row
\* matters, so with StaleReads the check may go either way at any time.
Seen(k) == IF StaleReads THEN Requests \cup {NoRequest} ELSE {lock[k]}

\* acquire*Lock, first await: getImportLock / getRestoreLock of the other kind.
ReadOtherLock(r) ==
    /\ pc[r] = "idle"
    /\ \E row \in Seen(Other(Kind(r))) :
         Goto(r, IF row = NoRequest THEN "checked" ELSE "refused")
    /\ UNCHANGED lock

\* Mutant: a PutItem without its condition.
PutLockUnconditionally(r) ==
    /\ pc[r] = "checked"
    /\ Goto(r, "held")
    /\ lock' = [lock EXCEPT ![Kind(r)] = r]

\* acquire*Lock, second await: PutItem with attribute_not_exists(SK).
PutLock(r) ==
    /\ pc[r] = "checked"
    /\ IF lock[Kind(r)] = NoRequest
       THEN Goto(r, "held") /\ lock' = [lock EXCEPT ![Kind(r)] = r]
       ELSE Goto(r, "refused") /\ UNCHANGED lock

\* deleteUserPartition on primary omits the sort keys of both lock rows.
OmittedOnPrimary == Kinds

WipePrimary(r) ==
    /\ pc[r] = "held"
    /\ Goto(r, "replacing")
    /\ lock' = [k \in Kinds |-> IF k \in OmittedOnPrimary THEN lock[k] ELSE NoRequest]

\* Last step of a workflow. An in-place import releases without ever wiping.
Finish(r) ==
    /\ \/ pc[r] = "replacing"
       \/ pc[r] = "held" /\ r \in Imports
    /\ Goto(r, "done")
    /\ DeleteLock(Kind(r))

\* Mutant: a catch path that forgets the row.
GiveUpWithoutRelease(r) ==
    /\ pc[r] = "held"
    /\ Goto(r, "failed")
    /\ UNCHANGED lock

\* The catch paths that release: primaryDeleteStarted or persistStarted is
\* still false, or the import was in place.
GiveUp(r) ==
    /\ pc[r] = "held"
    /\ Goto(r, "failed")
    /\ DeleteLock(Kind(r))

\* Lambda timeout or crash, an exception after primaryDeleteStarted, or a
\* best-effort release that failed: the row stays as it is.
Stop(r) ==
    /\ pc[r] \in {"checked", "held", "replacing"}
    /\ Goto(r, "stopped")
    /\ UNCHANGED lock

\* runRestoreAbortWorkflow's first step. There is no such route for imports.
AbortRestore ==
    /\ AbortLiveRestores \/ \A r \in Restores : ~Live(r)
    /\ DeleteLock("restore")
    /\ UNCHANGED pc

Handler(r) == PutLock(r) \/ WipePrimary(r) \/ Finish(r) \/ GiveUp(r)

Next ==
    \/ \E r \in Requests : ReadOtherLock(r) \/ Handler(r) \/ Stop(r)
    \/ AbortRestore

Spec == Init /\ [][Next]_vars

\* A Lambda invocation that has not died runs on; users are not obliged to act.
FairSpec == Spec /\ \A r \in Requests : WF_vars(Handler(r))

-----------------------------------------------------------------------------

\* A request that is past its acquire finds its own row in place: nobody
\* else's release, wipe or refused acquire has removed or replaced it.
HolderOwnsRow == \A r \in Requests : Live(r) => lock[Kind(r)] = r

\* Single-flight per kind (data_model.md 8.2a, 8.5a): two restores, or two
\* imports, of one user are never past their acquire together, however old the
\* rows are that their checks read. A restore and an import may well be: the
\* check of the other kind's row guards nothing that the put would repeat.
SingleFlight ==
    \A r, s \in Requests : Live(r) /\ Live(s) /\ Kind(r) = Kind(s) => r = s

\* If no invocation dies or throws outside the releasing paths, the partition
\* ends up unlocked for good: no path of the handlers forgets its row.
LocksDrain ==
    [](\A r \in Requests : pc[r] # "stopped") =>
        <>[](\A k \in Kinds : lock[k] = NoRequest)
=============================================================================
