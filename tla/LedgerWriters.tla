---------------------------- MODULE LedgerWriters ----------------------------
(***************************************************************************)
(* The requests that write the ledger without taking a lock, one call to   *)
(* DynamoDB at a time: applyTagRule, patchTransactionFileCurrency and the  *)
(* refresh of METRICS (db/src/dynamoFinanceRepository.ts), beside an       *)
(* import that writes in place, and beside backups: exportBackupSnapshot,  *)
(* which reads the partition page by page, the validation that a restore   *)
(* begins with, and a restore (db/src/backupRestore.ts).                   *)
(*                                                                         *)
(* PartitionLocks, StagedReplace and ImportInPlace have the locks, the     *)
(* steps of a restore, and an import that fails; ClusterReview has what an *)
(* import decides. Here an import keeps every decision and gives each      *)
(* cluster a new id, a restore wipes the ledger and copies the backup in   *)
(* two steps, and both succeed. The lock keeps imports and restores apart, *)
(* and nothing else keeps any two requests apart.                          *)
(***************************************************************************)
EXTENDS Integers, FiniteSets, FiniteSetsExt

CONSTANTS
    Tags, Patches, Imports, Exports, Restores,  \* requests
    Stored,         \* ids of the transactions before the first import
    NewRow,         \* NewRow[i]: the row that import i inserts
    FileOf,         \* FileOf[t]: transaction_file_id
    OldClusters,    \* cluster ids before the first import
    Remint,         \* Remint[i][c]: the id that import i mints for c's group
    FirstCluster,   \* FirstCluster[t]: cluster of a stored transaction
    Categories, Pending,        \* a decided category, or PENDING_REVIEW
    Currencies, NoCurrency, FirstCurrency,
    Absent

Txns == Stored \cup {NewRow[i] : i \in Imports}
Files == {FileOf[t] : t \in Txns}
Clusters == OldClusters \cup {Remint[i][c] : i \in Imports, c \in OldClusters}
Requests == Tags \cup Patches \cup Imports \cup Exports \cup Restores

Row == [cluster : Clusters, category : Categories \cup {Pending},
        currency : Currencies \cup {FirstCurrency, NoCurrency}]

\* whole: the item has an entity_type and a cluster_id.
ClusterRow == [whole : BOOLEAN, assigned : Categories \cup {Pending},
               pending : BOOLEAN, size : 0..Cardinality(Txns)]

\* Kinds of requests are apart, Absent is no row, and what an import mints is
\* new: its row, the file of that row, and the ids of its clusters.
ASSUME LedgerWritersAssumption ==
    /\ Tags \cap (Patches \cup Imports \cup Exports \cup Restores) = {}
    /\ Patches \cap (Imports \cup Exports \cup Restores) = {}
    /\ Imports \cap (Exports \cup Restores) = {} /\ Exports \cap Restores = {}
    /\ IsFiniteSet(Stored) /\ IsFiniteSet(Imports)
    /\ \A i \in Imports :
         /\ NewRow[i] \notin Stored
         /\ \A t \in Txns \ {NewRow[i]} : FileOf[t] # FileOf[NewRow[i]]
         /\ \A c \in OldClusters : Remint[i][c] \notin OldClusters
         /\ \A j \in Imports \ {i} : /\ NewRow[i] # NewRow[j]
                                     /\ \A c, d \in OldClusters : Remint[i][c] # Remint[j][d]
    /\ \A t \in Stored : FirstCluster[t] \in OldClusters
    /\ Absent \notin Row \cup ClusterRow \cup Currencies \cup {FirstCurrency}
    /\ Pending \notin Categories

VARIABLES
    txn,            \* txn[t]: TXN row that readers take for one (entity_type)
    agg,            \* agg[c]: CLUSTER row
    file,           \* file[f]: currency of the FILE row
    metrics,        \* what METRICS counts: the category of each transaction
    pc,             \* the call that each request makes next
    work,           \* work[r]: what request r has read and has still to write
    snapshot,       \* snapshot[e]: what export e has read
    quiet,          \* quiet[e]: no import, patch or restore ran beside export e
    met,            \* kinds of writers that have run together
    past            \* what else has happened that a property excepts

ledger == <<txn, agg, file, metrics>>
history == <<quiet, met, past>>
vars == <<ledger, pc, work, snapshot, history>>

Present(rows) == {t \in Txns : rows[t] # Absent}
Members(rows, c) == {t \in Present(rows) : rows[t].cluster = c}
Listed(rows) == {<<t, rows[t].category>> : t \in Present(rows)}

NoWork == [rows |-> [t \in Txns |-> Absent], todo |-> {}, clusters |-> {}, retire |-> {},
           aggs |-> [c \in Clusters |-> Absent], cluster |-> Absent, file |-> Absent,
           currency |-> NoCurrency, category |-> Pending, list |-> {}, listed |-> {},
           from |-> Absent]
NoSnapshot == [clusters |-> {}, files |-> {}, txns |-> {}]

Ended == {"idle", "ok", "failed"}
Running(S) == {r \in S : pc[r] \notin Ended}
AtRest == Running(Requests) = {}

Init ==
    /\ txn = [t \in Txns |-> IF t \in Stored
                             THEN [cluster |-> FirstCluster[t], category |-> Pending,
                                   currency |-> FirstCurrency]
                             ELSE Absent]
    /\ agg = [c \in Clusters |->
                IF c \in OldClusters
                THEN [whole |-> TRUE, assigned |-> Pending, pending |-> TRUE,
                      size |-> Cardinality({t \in Stored : FirstCluster[t] = c})]
                ELSE Absent]
    /\ file = [f \in Files |-> IF f \in {FileOf[t] : t \in Stored} THEN FirstCurrency ELSE Absent]
    /\ metrics = {<<t, Pending>> : t \in Stored}
    /\ pc = [r \in Requests |-> "idle"]
    /\ work = [r \in Requests |-> NoWork]
    /\ snapshot = [e \in Exports |-> NoSnapshot]
    /\ quiet = [e \in Exports |-> FALSE] /\ met = {} /\ past = {}

Goto(r, where) == pc' = [pc EXCEPT ![r] = where]
Remember(r, w) == work' = [work EXCEPT ![r] = w]
WorkDone(r) == [NoWork EXCEPT !.file = work[r].file]

\* acquireImportLock, acquireRestoreLock; PartitionLocks has the race of two
\* acquires.
LockFree == Running(Imports \cup Restores) = {}

Kind(r) == IF r \in Tags THEN "tag" ELSE IF r \in Patches THEN "patch"
           ELSE IF r \in Imports THEN "import" ELSE "restore"

\* The pairs that some property excepts.
Overlaps == {{"tag", "patch"}, {"tag", "restore"}, {"patch", "import"}, {"patch", "restore"}}

\* A writer starts while others are under way.
Meets(r) ==
    met' = met \cup (Overlaps \cap {{Kind(r), Kind(q)} : q \in Running(Requests \ Exports)})

\* An export that is still reading is not quiet any more.
Disturbs == quiet' = [e \in Exports |-> quiet[e] /\ pc[e] = "ok"]

----------------------------------------------------------------------------
(* CLUSTER rows, as buildClusterAggregateItem makes them without hints.    *)

TheOnly(S) == IF Cardinality(S) = 1 THEN CHOOSE x \in S : TRUE ELSE Pending

Aggregate(rows, c) ==
    LET members == Members(rows, c)
        decided == {rows[t].category : t \in members} \ {Pending}
    IN  [whole |-> TRUE,
         assigned |-> IF agg[c] # Absent /\ agg[c].whole /\ agg[c].assigned # Pending
                      THEN agg[c].assigned ELSE TheOnly(decided),
         pending |-> \E t \in members : rows[t].category = Pending,
         size |-> Cardinality(members)]

\* One cluster of rebuildClusterAggregatesAfterImport: its members and its row
\* are read; the items are put when all are built.
RebuildRead(r, c) ==
    /\ pc[r] = "rebuild" /\ c \in work[r].clusters
    /\ Remember(r, [work[r] EXCEPT !.clusters = @ \ {c}, !.aggs[c] = Aggregate(txn, c)])
    /\ UNCHANGED <<ledger, pc, snapshot, history>>

\* Mutant: the old clusters are not retired.
AfterRebuildNoRetire(r) == "ok"

AfterRebuild(r) == IF r \in Imports THEN "retire" ELSE "ok"

RebuildPut(r) ==
    /\ pc[r] = "rebuild" /\ work[r].clusters = {}
    /\ agg' = [c \in Clusters |-> IF work[r].aggs[c] # Absent THEN work[r].aggs[c] ELSE agg[c]]
    /\ Goto(r, AfterRebuild(r))
    /\ Remember(r, IF r \in Imports THEN work[r] ELSE WorkDone(r))
    /\ UNCHANGED <<txn, file, metrics, snapshot, history>>

Overtaking(r) == {"metrics overtaken" : o \in {x \in Running(Requests \ {r}) : pc[x] = "metrics put"}}

\* Mutant: the figures are made from the plan, without a read.
MetricsOfPlan(r) ==
    /\ pc[r] = "metrics"
    /\ Remember(r, [work[r] EXCEPT !.list = Listed(IF r \in Imports THEN work[r].rows ELSE txn)])
    /\ Goto(r, "metrics put")
    /\ past' = past \cup Overtaking(r)
    /\ UNCHANGED <<ledger, snapshot, quiet, met>>

\* refreshStoredDashboardMetrics: list, then put without a condition.
MetricsList(r) ==
    /\ pc[r] = "metrics"
    /\ Remember(r, [work[r] EXCEPT !.list = Listed(txn)])
    /\ Goto(r, "metrics put")
    /\ past' = past \cup Overtaking(r)
    /\ UNCHANGED <<ledger, snapshot, quiet, met>>

MetricsPut(r) ==
    /\ pc[r] = "metrics put"
    /\ metrics' = work[r].list
    /\ Goto(r, "ok") /\ Remember(r, NoWork)
    /\ UNCHANGED <<txn, agg, file, snapshot, history>>

----------------------------------------------------------------------------
(* applyTagRule                                                            *)

\* Clients send an id that they see, or one that they saw before a remint or a
\* restore.
TagList(r) ==
    /\ r \in Tags /\ pc[r] = "idle"
    /\ \E c \in OldClusters \cup {d \in Clusters : agg[d] # Absent}, cat \in Categories :
         Remember(r, [NoWork EXCEPT !.cluster = c, !.category = cat,
                                    !.todo = Members(txn, c), !.listed = Members(txn, c)])
    /\ Meets(r)
    /\ Goto(r, "tag")
    /\ UNCHANGED <<ledger, snapshot, quiet, past>>

\* Mutant: the row is put anew, with the default currency.
TagRowPut(r, t) ==
    /\ pc[r] = "tag" /\ t \in work[r].todo
    /\ txn' = [txn EXCEPT ![t] = IF @ = Absent THEN Absent
                                 ELSE [@ EXCEPT !.category = work[r].category,
                                                !.currency = FirstCurrency]]
    /\ Remember(r, [work[r] EXCEPT !.todo = @ \ {t}])
    /\ UNCHANGED <<agg, file, metrics, pc, snapshot, history>>

\* UpdateItem touches category and status only. Of a row that a restore has
\* deleted it makes an item that every reader skips.
TagRow(r, t) ==
    /\ pc[r] = "tag" /\ t \in work[r].todo
    /\ txn' = [txn EXCEPT ![t] = IF @ = Absent THEN Absent
                                 ELSE [@ EXCEPT !.category = work[r].category]]
    /\ Remember(r, [work[r] EXCEPT !.todo = @ \ {t}])
    /\ UNCHANGED <<agg, file, metrics, pc, snapshot, history>>

NewItem(r, whole, size) ==
    [whole |-> whole, assigned |-> work[r].category, pending |-> FALSE, size |-> size]

\* UpdateItem leaves a fragment where there is no CLUSTER row.
Updated(r, row) == IF row = Absent THEN NewItem(r, FALSE, 0)
                   ELSE [row EXCEPT !.assigned = work[r].category, !.pending = FALSE]

\* Mutant: the updates of the members are not awaited.
TagClusterAtOnce(r) ==
    /\ pc[r] = "tag"
    /\ agg' = [agg EXCEPT ![work[r].cluster] = Updated(r, @)]
    /\ Goto(r, "metrics")
    /\ UNCHANGED <<txn, file, metrics, work, snapshot, history>>

\* Mutant: a put of three attributes in place of the update.
TagClusterPut(r) ==
    /\ pc[r] = "tag" /\ work[r].todo = {}
    /\ agg' = [agg EXCEPT ![work[r].cluster] = NewItem(r, FALSE, 0)]
    /\ Goto(r, "metrics")
    /\ UNCHANGED <<txn, file, metrics, work, snapshot, history>>

TagCluster(r) ==
    /\ pc[r] = "tag" /\ work[r].todo = {}
    /\ agg' = [agg EXCEPT ![work[r].cluster] = Updated(r, @)]
    /\ Goto(r, "metrics")
    /\ UNCHANGED <<txn, file, metrics, work, snapshot, history>>

\* The update has failed: a whole row is put, with the number of rows updated.
TagClusterAnew(r) ==
    LET size == Cardinality(work[r].listed)
        members == Members(txn, work[r].cluster)
    IN  /\ pc[r] = "tag" /\ work[r].todo = {}
        /\ agg' = [agg EXCEPT ![work[r].cluster] = NewItem(r, TRUE, size)]
        /\ past' = IF size = Cardinality(members) THEN past ELSE past \cup {"stale count"}
        /\ Goto(r, "metrics")
        /\ UNCHANGED <<txn, file, metrics, work, snapshot, quiet, met>>

----------------------------------------------------------------------------
(* patchTransactionFileCurrency                                            *)

PatchFile(r) ==
    /\ r \in Patches /\ pc[r] = "idle"
    /\ \E f \in {g \in Files : file[g] # Absent}, cur \in Currencies :
         /\ file' = [file EXCEPT ![f] = cur]
         /\ Remember(r, [NoWork EXCEPT !.file = f, !.currency = cur])
         /\ past' = past \cup {"patches of one file" : p \in {q \in Running(Patches) : work[q].file = f}}
    /\ Goto(r, "query")
    /\ Meets(r) /\ Disturbs
    /\ UNCHANGED <<txn, agg, metrics, snapshot>>

\* The rows as they are now, with the new currency, to be put back later.
PatchQuery(r) ==
    /\ pc[r] = "query"
    /\ LET found == {t \in Present(txn) : FileOf[t] = work[r].file}
           clusters == {txn[t].cluster : t \in found}
       IN Remember(r, [work[r] EXCEPT
              !.rows = [t \in Txns |-> IF t \in found
                                       THEN [txn[t] EXCEPT !.currency = work[r].currency]
                                       ELSE Absent],
              !.todo = found, !.clusters = clusters])
    /\ Goto(r, "put rows")
    /\ UNCHANGED <<ledger, snapshot, history>>

PatchRow(r, t) ==
    /\ pc[r] = "put rows" /\ t \in work[r].todo
    /\ txn' = [txn EXCEPT ![t] = work[r].rows[t]]
    /\ Remember(r, [work[r] EXCEPT !.todo = @ \ {t}])
    /\ UNCHANGED <<agg, file, metrics, pc, snapshot, history>>

PatchRowsDone(r) ==
    /\ pc[r] = "put rows" /\ work[r].todo = {}
    /\ Goto(r, "rebuild")
    /\ UNCHANGED <<ledger, work, snapshot, history>>

----------------------------------------------------------------------------
(* An import in place, under its lock                                      *)

\* The plan: every cluster gets a new id, the new row joins one of them.
ImportPlan(i) ==
    /\ i \in Imports /\ pc[i] = "idle" /\ LockFree
    /\ \E c \in OldClusters :
         LET joined == {txn[t].category : t \in Members(txn, c)}
             Planned(t) == IF t = NewRow[i]
                           THEN [cluster |-> Remint[i][c], category |-> TheOnly(joined \ {Pending}),
                                 currency |-> FirstCurrency]
                           ELSE [txn[t] EXCEPT !.cluster = Remint[i][@]]
             rows == [t \in Txns |-> IF t \in Present(txn) \cup {NewRow[i]}
                                     THEN Planned(t) ELSE Absent]
         IN /\ \A t \in Present(txn) : txn[t].cluster \in OldClusters
            /\ Remember(i, [NoWork EXCEPT !.rows = rows, !.todo = Present(txn),
                              !.clusters = {rows[t].cluster : t \in Present(rows)},
                              !.retire = {txn[t].cluster : t \in Present(txn)}])
    /\ Goto(i, "patch")
    /\ Meets(i) /\ Disturbs
    /\ UNCHANGED <<ledger, snapshot, past>>

\* Mutant: decided rows keep their cluster.
ImportPatchUndecided(i, t) ==
    /\ pc[i] = "patch" /\ t \in work[i].todo
    /\ txn' = [txn EXCEPT ![t] = IF @.category = Pending THEN work[i].rows[t] ELSE @]
    /\ Remember(i, [work[i] EXCEPT !.todo = @ \ {t}])
    /\ UNCHANGED <<agg, file, metrics, pc, snapshot, history>>

ImportPatch(i, t) ==
    /\ pc[i] = "patch" /\ t \in work[i].todo
    /\ txn' = [txn EXCEPT ![t].cluster = work[i].rows[t].cluster,
                          ![t].category = work[i].rows[t].category]
    /\ Remember(i, [work[i] EXCEPT !.todo = @ \ {t}])
    /\ UNCHANGED <<agg, file, metrics, pc, snapshot, history>>

ImportInsert(i) ==
    /\ pc[i] = "patch" /\ work[i].todo = {}
    /\ txn' = [txn EXCEPT ![NewRow[i]] = work[i].rows[NewRow[i]]]
    /\ Goto(i, "rebuild")
    /\ UNCHANGED <<agg, file, metrics, work, snapshot, history>>

ImportRetire(i, c) ==
    /\ pc[i] = "retire" /\ c \in work[i].retire
    /\ agg' = [agg EXCEPT ![c] = Absent]
    /\ Remember(i, [work[i] EXCEPT !.retire = @ \ {c}])
    /\ UNCHANGED <<txn, file, metrics, pc, snapshot, history>>

ImportRecord(i) ==
    /\ pc[i] = "retire" /\ work[i].retire = {}
    /\ file' = [file EXCEPT ![FileOf[NewRow[i]]] = FirstCurrency]
    /\ Goto(i, "metrics")
    /\ UNCHANGED <<txn, agg, metrics, work, snapshot, history>>

\* A tag or a patch that throws or dies leaves what it has written.
Fail(r) ==
    /\ r \in Running(Tags \cup Patches)
    /\ Goto(r, "failed") /\ Remember(r, WorkDone(r))
    /\ UNCHANGED <<ledger, snapshot, history>>

----------------------------------------------------------------------------
(* Backups. The partition is read in the order of SK: CLUSTER#, FILE#,     *)
(* TXN#. Rows without an entity_type are skipped; the currency of a        *)
(* transaction is not in the file.                                         *)

ClustersNow == {c \in Clusters : agg[c] # Absent /\ agg[c].whole}
FilesNow == {f \in Files : file[f] # Absent}
TxnsNow == {[id |-> t, cluster |-> txn[t].cluster, category |-> txn[t].category] : t \in Present(txn)}

ExportClusters(e) ==
    /\ e \in Exports /\ pc[e] = "idle"
    /\ snapshot' = [snapshot EXCEPT ![e].clusters = {[id |-> c, row |-> agg[c]] : c \in ClustersNow}]
    /\ quiet' = [quiet EXCEPT ![e] = Running(Imports \cup Patches \cup Restores) = {}]
    /\ Goto(e, "files")
    /\ UNCHANGED <<ledger, work, met, past>>

ExportFiles(e) ==
    /\ pc[e] = "files"
    /\ snapshot' = [snapshot EXCEPT ![e].files = {[id |-> f, currency |-> file[f]] : f \in FilesNow}]
    /\ Goto(e, "txns")
    /\ UNCHANGED <<ledger, work, history>>

ExportTxns(e) ==
    /\ pc[e] = "txns"
    /\ snapshot' = [snapshot EXCEPT ![e].txns = TxnsNow]
    /\ Goto(e, "ok")
    /\ UNCHANGED <<ledger, work, history>>

\* validateBackupSnapshotForRestore, for a file that exportBackupSnapshot wrote.
Accepted(clusters, files, txns) ==
    \A t \in txns : FileOf[t.id] \in files /\ t.cluster \in clusters

Ids(rows) == {x.id : x \in rows}
AcceptedSnapshot(s) == Accepted(Ids(s.clusters), Ids(s.files), s.txns)

Of(rows, id) == CHOOSE x \in rows : x.id = id

\* The item that is put for a transaction of the file.
RestoredRow(x) == [cluster |-> x.cluster, category |-> x.category, currency |-> NoCurrency]

\* Validation, lock and staging leave the ledger alone; then primary is deleted.
RestoreWipe(r, e) ==
    /\ r \in Restores /\ pc[r] = "idle" /\ e \in Exports /\ pc[e] = "ok"
    /\ LockFree /\ AcceptedSnapshot(snapshot[e])
    /\ txn' = [t \in Txns |-> Absent] /\ agg' = [c \in Clusters |-> Absent]
    /\ file' = [f \in Files |-> Absent] /\ metrics' = {}
    /\ Goto(r, "copy") /\ Remember(r, [NoWork EXCEPT !.from = e])
    /\ Meets(r) /\ Disturbs
    /\ past' = IF quiet[e] THEN past ELSE past \cup {"torn backup"}
    /\ UNCHANGED snapshot

\* materializeBackupItems: the items are put over what is there by now. The
\* METRICS of the file give way to those of refreshMetrics at once.
RestoreCopy(r) ==
    LET s == snapshot[work[r].from]
    IN  /\ pc[r] = "copy"
        /\ txn' = [t \in Txns |-> IF t \in Ids(s.txns) THEN RestoredRow(Of(s.txns, t)) ELSE txn[t]]
        /\ agg' = [c \in Clusters |-> IF c \in Ids(s.clusters) THEN Of(s.clusters, c).row ELSE agg[c]]
        /\ file' = [f \in Files |-> IF f \in Ids(s.files) THEN Of(s.files, f).currency ELSE file[f]]
        /\ Goto(r, "metrics") /\ Remember(r, NoWork)
        /\ UNCHANGED <<metrics, snapshot, history>>

Next ==
    \/ \E r \in Requests :
         \/ TagList(r) \/ TagCluster(r) \/ TagClusterAnew(r) \/ PatchFile(r) \/ PatchQuery(r) \/ PatchRowsDone(r)
         \/ RebuildPut(r) \/ MetricsList(r) \/ MetricsPut(r)
         \/ ImportPlan(r) \/ ImportInsert(r) \/ ImportRecord(r) \/ Fail(r)
         \/ ExportClusters(r) \/ ExportFiles(r) \/ ExportTxns(r)
         \/ \E t \in Txns : TagRow(r, t) \/ PatchRow(r, t) \/ ImportPatch(r, t)
         \/ \E c \in Clusters : RebuildRead(r, c) \/ ImportRetire(r, c)
         \/ RestoreCopy(r) \/ \E e \in Exports : RestoreWipe(r, e)

Spec == Init /\ [][Next]_vars

----------------------------------------------------------------------------
TypeOK ==
    /\ txn \in [Txns -> Row \cup {Absent}]
    /\ agg \in [Clusters -> ClusterRow \cup {Absent}]
    /\ file \in [Files -> Currencies \cup {FirstCurrency, Absent}]

\* No two of these kinds of writers have run together.
NeverMet(pairs) == met \cap pairs = {}
NoPatchBeside == NeverMet({{"patch", "import"}, {"patch", "restore"}})

(* An export that no import, patch or restore ran beside is accepted by a  *)
(* restore, whatever tags ran beside it or failed half-way before it       *)
(* (docs/03_detailed_design/backup-schema/v1.md, 9), if no currency patch  *)
(* has put rows back that it read before an import or a restore.           *)
ExportsAccepted ==
    NoPatchBeside =>
        \A e \in Exports : pc[e] = "ok" /\ quiet[e] => AcceptedSnapshot(snapshot[e])

(* What a file's transactions say of their currency is what its FILE row   *)
(* says, unless its patch is under way or has failed half-way, or a        *)
(* restore has dropped it: tags, imports and patches of other files do not *)
(* bring an old currency back (dynamoFinanceRepository.ts:1466). A patch   *)
(* of the same file or one that a restore runs beside may.                 *)
CurrencyUniform ==
    NeverMet({{"patch", "restore"}}) /\ "patches of one file" \notin past =>
        \A t \in Present(txn) :
            \/ txn[t].currency \in {NoCurrency, file[FileOf[t]]}
            \/ \E p \in Patches : work[p].file = FileOf[t] /\ pc[p] # "ok"
            \/ file[FileOf[t]] = Absent

(* At rest a CLUSTER row counts the transactions that refer to it, after   *)
(* an import, tags and patches in any interleaving (failed ones too); but  *)
(* a patch beside an import or a restore, a torn backup, and a tag whose   *)
(* update of the CLUSTER row fails after the members have changed, break   *)
(* it (dynamoFinanceRepository.ts:1759).                                   *)
CountsAtRest ==
    /\ Running(Imports \cup Patches) = {}
    /\ NoPatchBeside /\ past \cap {"torn backup", "stale count"} = {}
    => \A c \in Clusters : agg[c] # Absent => agg[c].size = Cardinality(Members(txn, c))

(* At rest every transaction that waits for review is in a cluster of the  *)
(* review queue, unless a tag has run beside a currency patch or a         *)
(* restore, a patch beside an import or a restore, or a backup has been    *)
(* restored that an import, a patch or a restore ran beside.               *)
WaitingIsQueued ==
    AtRest /\ met = {} /\ "torn backup" \notin past =>
        \A t \in Present(txn) :
            txn[t].category = Pending =>
                agg[txn[t].cluster] # Absent /\ agg[txn[t].cluster].pending

(* At rest METRICS counts the transactions as they are, unless a tag has   *)
(* failed half-way or run beside a currency patch, or a patch beside an    *)
(* import or a restore, or of two refreshes the one with the older list    *)
(* may have put last (:1063 puts without a condition).                     *)
MetricsCurrent ==
    /\ AtRest /\ NoPatchBeside /\ NeverMet({{"tag", "patch"}})
    /\ "metrics overtaken" \notin past /\ \A g \in Tags : pc[g] # "failed"
    => metrics = Listed(txn)

(* When every request has ended, a backup of the ledger would be accepted: *)
(* each transaction has its CLUSTER and its FILE row, if no currency patch *)
(* has run beside an import or a restore.                                  *)
RestorableAtRest == AtRest /\ NoPatchBeside => Accepted(ClustersNow, FilesNow, TxnsNow)

(* When every request has answered 200, a backup of the ledger would be     *)
(* accepted: "every transactions[] export row includes a non-empty          *)
(* cluster_id" found in clusters[] (docs/03_detailed_design/backup-schema/  *)
(* v1.md:183), also if a currency patch and an import have run together.    *)
RestorableAfterSuccess ==
    (\A r \in Requests : pc[r] \in {"idle", "ok"}) => Accepted(ClustersNow, FilesNow, TxnsNow)
=============================================================================
