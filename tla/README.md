# housef4: TLA+ models, model checks and proofs

housef4 keeps one household's finances per user: accounts, bank transactions, merchant clusters, the files
they were imported from and the dashboard figures. A React frontend talks to Lambda handlers over HTTP; the
handlers keep everything in one DynamoDB table under `PK = USER#<id>`, two staging tables of the same shape
and a blob store for the uploaded bytes. There is no server process: each request is an invocation of its
own, so every `await` on DynamoDB is a point where other requests of the same user run, and where the
invocation can die. The browser has one thread, but every `await` there is a point where the user has gone
elsewhere.

## 1. Inventory

| component | source | state | operations | hard because | correct when |
|---|---|---|---|---|---|
| partition locks | `db/src/userPartition.ts` | `SYSTEM#RESTORE_LOCK`, `SYSTEM#IMPORT_LOCK` rows | acquire (read the other row, put the own one under a condition), release, delete-if-present, wipe that spares them | the two awaits of an acquire; deletes that do not look at the writer; rows that outlive a crash | one restore and one import at a time, no row forgotten |
| backup restore | `db/src/backupRestore.ts` | primary and restore-staging partitions, lock | validate, materialize, stage, read back, wipe, copy, drain, refresh, release | crash half-way, partial batches, writes in flight after a rejection | all or nothing; staging kept until primary is whole |
| restore abort | `db/src/backupRestore.ts` | lock, staging | delete lock row, clear staging | races the next restore | never destroys what a restore needs |
| import orchestration | `backend/src/services/import/importOrchestration*.ts` | FILE rows, import lock | dedupe, account check, parse, lock, plan, persist | the dedupe check is made outside the lock; two catch blocks share the release | no file twice; lock released on every path that may |
| in-place import | `importPersistPhase.ts`, `planning/persistPlan.ts`, `db/src/dynamoFinanceRepository.ts` | TXN, CLUSTER, FILE, METRICS rows, blobs | patch, insert, rebuild aggregates, retire, put blob, record file, refresh, release | no transaction, no compensation, a lagging index | a 200 means everything; a FILE row means all rows |
| staged import | `db/src/importStaging.ts`, `importMaterialize.ts` | primary and import-staging partitions, lock | collect, materialize, then as a restore | as a restore, and the calls before its `try` | as a restore |
| import blobs | `importBlobPersist.ts`, blob stores | objects | put, delete, patch of the FILE row | compensation that may fail itself | no dangling reference |
| transfer pairing | `db/src/transferPairing.ts`, `backend/src/services/pairing/ingest.ts` | `pairing_id` of transactions | two pools, merge, sliding window, greedy claims | pointers carried over between rounds, ties, bounds | one to one, nearest first, none missed |
| merchant groups | `services/import/clustering/dbscanCosine.ts`, `labelGroups.ts`, `merchantStringMatch.ts` | labels of rows | DBSCAN, split of noise, merge by cleaned name | a list that grows while it is walked, noise that becomes border, labels shared by two loops | dense and matching rows together, nobody else |
| cluster replay | `services/import/clustering/replayClustering.ts` | none | regroup, compare with the stored clusters | renamed is not regrouped | exactly the rows that lost or gained company |
| clustering and persist plan | `services/import/clustering/assignment.ts`, `clusterIdentity.ts`, `planning/buildPersistPlan.ts`, `db/src/clusterAggregates.ts` | cluster ids, CLUSTER rows | remint, categorize, patch, rebuild, retire | every import decides every row anew, under new ids | decisions survive, waiting rows are queued, CLUSTER rows count right |
| tag rule, currency patch, metrics | `db/src/dynamoFinanceRepository.ts` | TXN, CLUSTER, FILE, PROFILE, METRICS rows | list through an index, update or put row by row, rebuild, refresh | take no lock at all | no lost or phantom rows, figures that are right at rest |
| backup export and validation | `db/src/backupRestore.ts`, `dynamoFinanceRepository.ts` | none | page by page snapshot, reference checks, materialize | the pages are read at different times | an export is accepted by a restore |
| query cache | `frontend/src/lib/financeQueryCache.ts`, hooks, pages | cached answers, fetches in flight | fetch, answer, neutralize, invalidate, navigate | answers that are older than the request they follow | nothing stale is taken for fresh |
| restore wizard and stuck banner | `frontend/src/features/backup`, `handlers/backupRestore.ts` | wizard step, file, confirmation, banner, a flag in sessionStorage | pick, read, confirm, post, answer, abort, retry | state that outlives a step back, requests that outlive the page | what was shown is restored; a lock left behind can be cleared |
| sign-in | `frontend/src/auth`, `LoginPage.tsx` | tokens, `ready`, `isAuthenticated`, form, `submitting` | look-up, gate, sign in, reset, sign out | calls that outlive their form | one call at a time, nobody signed out by a late answer |
| parsing, ingress, currency, amount policy | `services/import/parse`, `ingress` | none | pure | formats | not modelled |
| HTTP layer, health, logs, token verification | `backend/src` | none | routing | - | not modelled, but for the answers a client sees |
| infrastructure, scripts, ML training | `infrastructure`, `scripts`, `ml-training` | - | - | - | not modelled |

The restore and the import share the lock rows and the primary partition; the import calls the grouping, the
pairing and the clustering while it plans, under its lock; the blob store is written after the rows; metrics
are recomputed at the end of each writer. Tags and currency patches write the same rows without a lock.
The client hears of all of it through answers only. `PROJECT.json` lists each hazard at its line.

## 2. Modules

| module | models | state and actions in the code |
|---|---|---|
| `PartitionLocks` | the two lock rows and every request that takes them | `lock[k]` is the writer of the row; `ReadOtherLock` and `PutLock` are the two awaits of `acquire*Lock`; `WipePrimary` is `deleteUserPartition`, `Finish`/`GiveUp` the releases, `Stop` everything that leaves the row, `AbortRestore` the abort |
| `LedgerOutcome` | what a restore or a staged import makes of a table | `materializeBackupItems`, `materializeImportPlanToItems`; a row is the set of jobs that contributed to it |
| `AtomicLedger` | the abstract promise: each job replaces the whole ledger at once, or not at all | `Commit` |
| `StagedReplace` | `runRestoreBackupWorkflow`, `runImportStagingWorkflow`, `runRestoreAbortWorkflow` | `phase[j]` is the statement reached; `DeleteNext`, `PutOne` are one key or one chunk; `ReadBack` validates by counts (`Counted`: an import's validation leaves CLUSTER rows out); `Catch` is the catch block, `CleanupFails` and `ReleaseFails` its two best-effort calls; `ChunkFails` moves the puts of the other workers to `stray` |
| `ImportInPlace` | `executeImportOrchestration` with `persistImportInPlace` | `pc[u]` is the await reached; `cluster`, `aggregate`, `file`, `counted` are TXN, CLUSTER, FILE and METRICS rows |
| `ClusterReview` | `runImportPlanning` from stage 7 on, both persist paths, `applyTagRule`, `patchTransactionFileCurrency` | `txn`, `agg` are TXN and CLUSTER rows, `plan` the `PersistPlan`; `Plan`, `Persist` are the halves of an import, `PatchCurrency` a whole request; a tag is taken apart: `TagList`, `TagRow`, `TagCluster`, `TagFails` |
| `LedgerWriters` | `applyTagRule`, `patchTransactionFileCurrency`, `refreshMetrics`, the writes of an in-place import, `exportBackupSnapshot`, the validation of a restore | one action per call: `TagList`, `TagRow`, `TagCluster` and its fallback `TagClusterAnew`; `PatchFile`, `PatchQuery`, `PatchRow`; `RebuildRead`, `RebuildPut`; `MetricsList`, `MetricsPut`; `ExportClusters`, `ExportFiles`, `ExportTxns`; `RestoreWipe`, `RestoreCopy`. `work[r]` is what a request has read and still believes |
| `TransferPairing` | `computeIngestTransferPairings` and the sweep | one action per loop iteration; `left`, `right` are the hints |
| `MerchantGroups` | `dbscanCosine`, `splitNoiseLabels`, `mergeLabelsByCleanedMerchant`, `groupingChangedIds` | one action per loop iteration; `seed`, `done` are the seed list and the part walked, `root` the disjoint sets |
| `FinanceCache` | `financeQueryCache.ts`, the hooks and the pages that send requests | `data`, `invalid`, `fetch` per query key; `Neutralize` and `Invalidate` are the two operations on the cache; `server` is what the request has done meanwhile |
| `SignIn` | `AuthProvider`, `CognitoGate`, `LoginPage` | `looked`, `ready`, `authed`, `mode`, `submitting`; `awaited` and `abandoned` count the calls to Cognito in flight by form, those of the page that is mounted and those of earlier ones |
| `RestoreWizard` | `RestoreWizard.tsx`, `RestoreStuckBanner.tsx`, `DataBackupSettingsPage.tsx` and the answers of the restore routes, composed with `SignIn` | `step`, `file`, `manifest`, `reads`, `confirmed`; `post[p]` is a request with its sender; `lock`, `job` are the server |
| `MCStagedReplace`, `MCImportInPlace`, `MCClusterReview`, `MCLedgerWriters`, `MCTransferPairing`, `MCMerchantGroups`, `MCFinanceCache`, `MCRestoreWizard` | instances for TLC | |
| `PartitionLocksProofs`, `StagedReplaceProofs`, `ImportInPlaceProofs`, `ClusterReviewProofs`, `TransferPairingProofs`, `MerchantGroupsProofs`, `LedgerWritersProofs` | theorems and proofs about the module of the same name | |
| `ClientProofs` | theorems and proofs about `FinanceCache`, `SignIn` and `RestoreWizard`, the three modules of the frontend | |

`StagedReplace` is shown to implement both `AtomicLedger` (through `Logical`: staging while primary is
partly replaced, primary otherwise) and `PartitionLocks` (through `LockPc`); `ImportInPlace` implements
`PartitionLocks`. So what is proved of `PartitionLocks` holds of the workflows.

The ledger is seen at three grains. In `ImportInPlace` one import is taken apart into its awaits, failures
and deaths. In `ClusterReview` an import is two steps, the plan and the whole persist, and only a tag is taken
apart into its updates, which fall before, between and after those; rows have a cluster, a category and a
status: its operators follow the functions of `backend/src/services/import/clustering` and
`db/src/clusterAggregates.ts` one by one (`Inherited` is `inheritedCategoryForGroup`, `Prior` is
`unanimousPriorCategoryForGroup`, `NeedsReview` is `computeClusterPendingReview`), and a merchant cluster id
is the pair of the file and the first row of the group, as every import mints an id for every group. In
`LedgerWriters` every request that takes no lock is taken apart into its calls, an import and a restore beside
it as well; the import keeps every decision, so that whatever goes wrong there is the interleaving's doing.

`MerchantGroups` ends with groups, where `ClusterReview` begins with any grouping. `RestoreWizard` sees of
the server only a lock, a job and answers; `StagedReplace` is what the job does.

## 3. Runs

| run | question | bounds | outcome |
|---|---|---|---|
| `locks` | do the lock rows exclude, and go away, when the other kind's row is read stale? | 2 restores, 2 imports, stale reads; 5184 states | holds |
| `staged_restores` | does a 200 mean the snapshot is in place; does a failure release; are locks handled as `PartitionLocks` says? | 2 restores, 3 keys, snapshots that overlap, aborts, racing acquires | holds |
| `staged_mixed` | is a staged job atomic, its staging kept, and its lock released after a failure? | 1 restore, 1 import, 3 keys of which 1 of a CLUSTER row, chunks may fail | holds |
| `staged_stray_writes` | does a 200 mean the snapshot also when chunks may fail? | 2 restores, 3 keys | violated |
| `import_in_place` | what do a 200, a FILE row and a blob reference promise? | 3 uploads, 2 of the same bytes, 1 empty; 1 older transaction | holds |
| `cluster_review` | do CLUSTER rows, categories and the review queue fit together over several imports, with tags and currency patches in between and inside? | 3 files of one row each, 3 categories, 2 rules, 1 possible transfer, 2 tags, both together beside two imports and one beside the third; 1.76 million states | holds |
| `transfer_pairing` | is the sweep one-to-one, nearest first, complete? | 2 new rows, 3 transactions, all ledgers of the set | holds |
| `merchant_groups` | do the three passes put the right rows together, and does the replay report the right ones? | 5 rows, `MinSamples` 3, every numbering of texts, nearness and mode, every stored clustering of 2 ids whose last row may have none; 340 thousand states | holds |
| `ledger_writers` | do counts, queue, currencies, figures and exports survive writers without a lock? | 2 stored rows and a new one, 1 tag, 1 patch, 1 import, 1 export, 1 restore, any two of them together; 3.13 million states | holds |
| `ledger_unrestorable` | can the ledger be backed up and restored when a patch and an import have both answered 200? | 1 patch, 1 import | violated |
| `finance_cache` | can the client take the old review queue for the new one? | a key that depends on cluster ids and one that does not, 2 imports, 1 tag, 1 patch, 1 restore, 2 of them sent; 1.15 million states | holds |
| `settings_session` | one call at a time, the shown file restored, nobody signed out late, a stuck lock cleared? | a backup and a file that is none, 1 request at a time, 2 calls in flight, 2 mishaps; 514 thousand states | holds |

Bounds. Two requests of each kind are enough for a release, an acquire and a wipe of different requests to
interleave; the theorems lift the bound. Three keys give a restore a key to delete, one to overwrite and one
that is new; partial deletes and copies need two. In the import, two uploads of the same bytes and one of
others give a retry after each kind of failure with a stranger in between. In the pairing, dates 0..3 with a
window of one tick put legs before, at both ends of, and behind the window; two candidates of equal
distance decide ties by account and by id, one row may be paired already or have no FILE row, and amounts
are at, within and beyond the tolerance. In `cluster_review` three imports are needed to have rows that were
paired, decided or waiting before, mixed with new ones; with two tags and two rules a group can hold decided
beside waiting rows and two opinions. Two tags that run together meet each other and two imports, and one tag
meets all three; the theorems lift this bound. The ids that a client may send although they are stale are one
that an earlier import has retired and that of the transfers' bucket.

In `merchant_groups` five rows with `MinSamples` 3 are the least that have two dense rows with a row between
them, a border row that two groups could claim, and noise that is reached later; four texts, of which the
third is within the edit distance of three others that are too far apart from each other, make chains.
`ledger_writers` has one request of each kind, and the constraint `TwoTogether` lets any two of the five run
together while the others come before or after, so that every pair of kinds is interleaved; the theorems lift
it. Two stored rows in one cluster let a row be written before and another after the other request; the new row
joins that cluster.
In `finance_cache` the two keys stand for all that are alike: a key is treated by the code only according to
whether it is in `CLUSTER_SENSITIVE_QUERY_KEYS` and which pages observe it. In `settings_session` a mishap is
a step back in the wizard, an expired session or a failure of the server, so two of them can be combined in
any order; with two calls in flight the answer of a form that was left comes while the form of a new page waits
for its own. The theorems about it have no bound on files, requests or calls.

`CHECK_DEADLOCK FALSE` stands where all requests may have been answered or have died, or the algorithm is
done.

What the passing runs keep apart. In `staged_restores` chunks do not fail and in `staged_mixed` acquires do
not race and nothing is aborted, and an abort has emptied staging before the next restore checks its lock. In
`ledger_writers` an import and a restore do not run together: that is the work of the lock, taken here in one
step, so that the race of two acquires and a stale read of the other row are excluded. Nothing else is kept
apart: tags and currency patches run beside imports, exports, restores and each other, since they look at no
lock row, and a property that such a meeting breaks names the meeting as an exception (`met` and `past` record
what has happened, in the whole behaviour before). The exceptions are listed in section 4.

Fairness. `LocksDrain` assumes that each handler step of a request is weakly fair, because an invocation
that has not died runs to its end, and that nothing dies; nothing is assumed of users, of the abort or of
failures. `StuckLockGetsCleared` assumes that what is awaited is answered in the end (file reads, requests,
the server for its own part) and a user who wants a restore: he picks a backup, goes on where the page
lets him and presses the button of the banner. `Onward` is strongly fair, as going back and forth disables the
next button again and again. Nothing is assumed of the session: who leaves the page or is signed out is
excepted by the property.

## 4. What the violated runs show, and what was seen besides

1. When a chunk of a batch gives up, writes of the other workers are still in flight and can land in the
   staging or primary rows of the next restore, which answers 200 (`staged_stray_writes`).
2. A currency patch that has read its rows before an import puts them back with the ids of clusters that the
   import retires. Both requests answer 200, and no backup of the ledger is accepted any more
   (`ledger_unrestorable`).

Seen in the code and not a run:

* The check and the put of an acquire are separate calls, and the check asks for no consistent read, so a
  restore and an import can run together: `PartitionLocks` and `StagedReplace` (`RacyAcquires`) have such
  behaviours. What holds is `SingleFlight`, within each kind. That a restore is atomic beside an import is
  shown only where acquires do not race.
* An abort deletes the lock row before it empties staging, so a restore that takes the lock in between loses
  rows of its staging. The banner that asks for an abort stays open while a restore it did not hear of is
  still at work (`api_contract.md:545-551` leaves it to the user to know).
* A staged import that throws while it collects or materializes keeps its lock (`importStaging.ts:136`), for it
  is past `persistStarted` and not yet in the `try` block, although `import_transaction_files.md` 8.7.2 has a
  failure before the swap release it. And a release that fails is swallowed (`backupRestore.ts:785-789`): the
  request answers with its first error, and the lock stays. Both are exceptions in `FailureReleasesLock`.
* CLUSTER rows that a failed in-place import has put for clusters without members stay for good: an import
  retires only ids that it finds on transactions (`clusterPipeline.ts:164-171`). `SuccessCommitsEverything`
  speaks of what the successful import retires.
* Two uploads of the same file, the second checked before the first was recorded, are both ingested.
  `LateDuplicateRefused` is about an upload that is checked afterwards.
* A currency patch rebuilds clusters without their `previous_category_id`, so a cluster may leave the review
  queue without an answer of the user. `WaitingIsQueued` and `PendingIsQueued` speak of waiting transactions.
* A tag lists the members of its cluster, updates them one by one and then the CLUSTER row. If an import
  regroups the rows meanwhile, the rest of the updates lands in new clusters: decided rows under a CLUSTER row
  that still asks, with 200 for both requests. The same goes for two tags of one cluster, and for a tag that
  fails half-way. `mixed` has these clusters, and `OneVerdict` excepts them until the next import or tag mends
  them; no waiting row is lost from the queue by it (`PendingIsQueued` has no exception).
* A tag beside a restore may list no members while primary is empty, and take the restored CLUSTER row out of
  the queue afterwards (`WaitingIsQueued` excepts tags beside restores). If the update of the CLUSTER row fails,
  a whole row is put instead, with the number of members listed before (`dynamoFinanceRepository.ts:1752-1770`):
  `CountsAtRest` excepts a put whose count is no longer right ("stale count").
* A currency patch reads whole rows and puts them back. Beside a restore it brings back rows the backup does not
  have, with the clusters, files and currency of before; beside an import, the clusters of before. Of two patches
  of one file either may win row by row. `ExportsAccepted`, `RestorableAtRest`, `CountsAtRest`,
  `WaitingIsQueued` and `MetricsCurrent` except a patch that has run beside an import or a restore,
  `CurrencyUniform` one beside a restore and two of one file; `ledger_unrestorable` shows the case of an import.
* A tag that runs beside a currency patch is undone on the rows that are put back; a tag that fails half-way
  leaves what it wrote, without new figures. `WaitingIsQueued` excepts the first, `MetricsCurrent` both, and
  also two refreshes of which the one with the older list is put last.
* A backup that an import, a patch or a restore ran beside has CLUSTER rows and transactions of different
  moments. A restore accepts it if the references close, and then the CLUSTER rows may miscount and a waiting
  transaction may be out of the queue: `CountsAtRest` and `WaitingIsQueued` except it ("torn backup").
* Invalidation does not restart a query that is being loaded for the first time, so its answer, read before
  the commit, counts as fresh (`financeQueryCache.ts:11-18`, `api_contract.md:171`). `joined` is the exception
  in `SettledIsFresh`. The import page tells that "review actions are paused" (`DataImportPage.tsx:263`), but
  nothing keeps the user from opening the review page meanwhile, which is how such a load begins.
* A file that is picked while the text of another is awaited is uploaded under the summary of the first
  (`RestoreWizard.tsx:100-121`); `swapped` is the exception in `RestoresWhatWasShown`. The confirmation stays
  when the user goes back and picks another file.
* The address field of the reset form may be edited while its code is being sent; the confirmation then goes
  with the edited address. An answer to a sign-in that arrives after a sign-out signs in again.
* Where decided rows of one group disagree, the plurality overrules the rest and nothing is queued
  (`assignment.ts:92`); `import_transaction_files.md` 7 expects mixed predecessors to "widen review
  eligibility". `DecisionKept` speaks of groups that agree.
* A tag of the `internal_transfer` cluster is undone on its rows by the next import, but kept as the
  `assigned_category` of the CLUSTER row. `OneVerdict` leaves that cluster out.
* A tag between the read of the ledger and the patches of an import is lost on the rows; `DecisionKept` and
  `DecidedNotQueued` compare with what the plan has read.
* Currencies of two legs are not compared: counterpart legs are built without `currency`
  (`backend/src/services/pairing/ingest.ts:75-80`), so `currenciesCompatible` never rejects a pair of a new row
  and an existing one, although `transfer_matching.md` 3.2 wants equal currencies. `Compatible` has it as the
  code does, and `PairsAreWhole`, `NearestClaimed` and `NoneLeftOver` speak of candidates in the code's sense:
  they hold with pairs of different currencies, which the run does form, and say nothing for that rule.

## 5. What is proved

Eight modules of theorems, each for any values of the constants that satisfy the `ASSUME`s of the modelled
component. Every invariant named here is inductive; the checked properties follow from it.

`PartitionLocksProofs`, for any sets of requests. `TypeCorrect` needs nothing else. The others assume
`~AbortLiveRestores`: deletes are not owner-checked, so an abort of a running restore breaks them, and the
API documents the abort for restores that are not running. The invariant is `TypeOK` with `HolderOwnsRow`: a
live holder's row names it, and a conditional put succeeds only on an absent row, so two holders of a kind
would both be named by one row (`SingleFlightHolds`). `StaleReads` plays no part in any of the proofs.

`StagedReplaceProofs`, for any jobs, keys, snapshots and initial ledger. `LockInv` (`Types`, `Own`: who keeps
a lock is named by it, `Locked`, `Ended`) holds whatever fails and gives `LocksAreImplemented` and `FailuresRelease`,
for restores and imports alike, failing releases included. `WorkInv` adds `OneLock`, `Strays` (where writes in flight
may still land) and `Work(j)` (what of staging and primary is done at each statement, and what survives the
job's death). It needs two assumptions. `Exclusive`: acquires do not race, or there are only jobs of one
kind. `Isolated`: chunks do not fail, or nothing is aborted and there is at most one job of each kind, so that
no write outlives its job into the next one. Under them, `SnapshotIsRestored`; and if nothing is aborted,
`StagingIsKept` and the refinement `StagedJobsAreAtomic`. The lemma `CountsSuffice` is why comparing counts
is a sufficient check for a restore: staging holds a subset of the rows sent, so it holds all of them if it
holds as many. An import's counts leave out CLUSTER rows and would not do; what makes its staging whole is that
`writeStaging` ends only when every put has succeeded, which `Work` records for imports.

`ImportInPlaceProofs`, for any uploads of any files. `HolderIsAlone` (one upload is past its acquire), `Early`
(what has not been planned has moved nothing), `Progress` (what the holder has done: rows moved, then
inserted, then counted, then old clusters retired) and `Recorded` (the FILE row comes after all of that).
`FileRowsAreComplete`, `BlobsAreThere`, `SuccessIsComplete`, `LateDuplicatesAreRefused`, and the refinement
`LocksAreImplemented`. No assumption about failures.

`ClusterReviewProofs`, for any files, rows, rules, categories, groupings and tags, whose updates fall anywhere.
`Inv` has parts about the ledger (`BatchesWhole`: the rows of a file came together, and before that no id of its
groups existed; `Shown`, `Quiet`, and the invariants of the run), one about tags under way (`TagsRight`: a member
of the tagged cluster is still to be updated or is decided, by this tag if it is `clean`), and one about a plan
that waits to be persisted (`ReadCurrent`: what tags may have changed since it was read; `GroupsApart`: a cluster
has one verdict; `DecisionsPlanned`: a group with a decided row is decided).
The choices of the code are minima over rows, so `MinIsLeast` (every non-empty set of rows has a least row) is
proved from the well-foundedness of strict inclusion on finite sets. It gives the four invariants and the two
action properties of the run.

`TransferPairingProofs`, for any ledgers, window and tolerance. The invariant `Inv` has one part per data
structure: `PoolInv` (both pools sorted, disjoint, the new rows and the counterparts), `MergeInv` (the
timeline is sorted and is exactly what has been merged), `HintInv` (everything left of `left` is too old for
this and every later centre, everything left of `right` is not too young for this one), `ScanInv` (`best` is
the nearest considered leg so far), `PairInv` (pairs are whole) and `PassedInv` (a passed centre is paired or
has nobody left to claim; claims only ever shrink).

`MerchantGroupsProofs`, for any number of rows, any texts, nearness and mode, and any order in which the seed
list is walked. The reference definitions are by closed sets: two rows belong together if every set that has
the one and is closed under nearness of dense rows has the other. `DbscanInv` says of closed labels that
they are closed and connected, and of the open one what its seed list must still reach; `LabelsInv` that
noise has labels of its own; `ForestInv` that rows of one root are connected, matching rows so far compared
have one root, and one of them has the least label; `GroupInv` and `Reported` carry this to the result and
to the replay's report.

`LedgerWritersProofs`, for any numbers of tags, patches, imports, exports and restores, any transactions, files
and clusters, and any number of requests under way. There is no hypothesis about which of them overlap: that
imports and restores do not is what the lock does in the model, and every other meeting that matters is in the
properties, as an exception. `LedgerWritersAssumption` says that the kinds of requests are apart and that what
an import mints is new: its row, the file of that row, its cluster ids. The inductive invariant comes in layers,
each proved from those before it, with lemmas about what each action does for all of them to use. From `Placed`
on a layer holds until what it excepts happens (`NoPatchBeside => Placed`):

* `Typed`: the types, also of what the requests have read, and that imports and restores run one at a time
  (`TypeCorrect`).
* `Accounted`: `met` and `past` have recorded what runs together now. `Restoring`: what a restore will copy is an
  accepted backup, and primary is empty until then but for patches beside it.
* `Placed`: no row, request or backup knows the ids that an import will mint (`Fresh`); a patch rebuilds only
  clusters that have members; during an import a transaction is in a cluster to be retired or in a minted one
  that will be put; so each transaction has its CLUSTER and FILE row, or an import is about to put it (`Kept`).
  A fragment of a CLUSTER row is never referred to: a tag finds the row of its cluster gone only when nothing
  is left in it, or when a restore has wiped it, and then a whole row is put over the fragment if anything
  will refer to it. What an export has read so far covers the transactions that it will read
  (`WholeSnapshot`). Gives `BackupsAccepted` and `RestRestorable`.
* `Filed`, `Priced`: a file's patch puts rows of that file only; a transaction has the currency of its FILE row
  unless the file is in the hands of a patch (`Disputed`) or gone. Gives `CurrencyKept`.
* `CountsRight`: a CLUSTER row that no import is about to delete, a row that a rebuild will put, and a row in a
  backup all count the transactions that refer to them. Gives `CountsKept`.
* `Queued`: a waiting transaction is in a queued cluster or in one that an import will queue (`InQueue`); a tag
  has still to write every waiting member of its cluster (`TagQueue`); a patch puts back the categories that
  are there (`PatchKept`). Gives `QueueKept`.
* `Figured`: if nobody has still to list the transactions, METRICS, or the one request that is about to put it,
  has the current list. Gives `MetricsKept`.

A restore brings back what a backup holds, so each layer also says what is right of the backups. Each
exception of a property (`met`, `past`, a failed tag, `quiet`) is one that the proof needed.

`ClientProofs`, for any keys, pages, files, requests and calls (the bound `MaxRequests` plays no part). In
`FinanceCache`, `NothingFromBefore` is inductive with the types (`CacheTypeCorrect`); for `FreshWhenSettled`
every key is `UpToDate`, or a request that may have changed it is still to be answered (`Owed`), which is what
an invalidation settles. In `SignIn` and `RestoreWizard`, `SessionInv` says that the form that is shown waits
for exactly the call that its page has made (`WaitsForMine`), and that before the look-up nobody is signed in
(`NobodyYet`); it gives `OneCall` and `StaysSignedIn`. `WizardInv`: behind the first step the file is the one
whose summary is shown (`Summarised`), which gives `ShownIsRestored`.

Only model-checked: `LocksDrain` and `StuckLockGetsCleared`, which are liveness under fairness and out of the
prover's reach. Every safety property of a passing run is a theorem.

## 6. Abstractions to know about

* A row of the partition is who wrote it, not its attributes; validation compares counts, as in the code.
* In `ImportInPlace` all clusters of one plan are one cluster, since a plan mints fresh ids for all of them.
  The PROFILE upsert is left out, and so are legs of transfers, whose cluster has a fixed id and is neither
  reminted nor retired: `ClusterReview` has those.
* A call that throws had no effect, and a blob put that fails stored nothing. Calls that are applied and
  still answer with an error are left out.
* The code never asks for `ConsistentRead`. `PartitionLocks` reads the other kind's lock row stale; elsewhere
  reads of the base table see completed writes. Reads through GSI1 may lag and do so in `RebuildAggregate` of
  `ImportInPlace`, nowhere else.
* In `ClusterReview` groups are any partition of the rows that are no legs of transfers, and a rule depends on
  the row only; sample merchants, amounts, suggestions and the currency itself are left out. Cluster members
  are read without the lag of GSI1. A persist is one step: a tag's update between the patches and the rebuild of
  one import is in `LedgerWriters` only, whose rebuild has no prior categories.
* In `LedgerWriters` an import keeps every decision, gives every cluster a new id and succeeds, and a restore
  succeeds; its wipe is one step and its copy another (`StagedReplace` has them key by key), and other requests
  fall in between. The METRICS row of a backup is left out, since `refreshMetrics` follows. Locks are taken in
  one step, with a consistent read. A tag or a patch that fails leaves what it has written. An `UpdateItem` on a
  transaction that a restore has deleted makes an item without `entity_type`, which every reader skips: it is
  `Absent`. A fragment of a CLUSTER row is kept, as tags and rebuilds see it. Queries through an index are read
  at once; the pages of an export are not.
* `TransferPairing` counts whole ticks and cents; account and row ids are numbers in the order of their
  strings.
* In `MerchantGroups` an embedding is a function of the cleaned text and enters only through which texts are
  near; `Close` stands for the edit distance. Cosine distances and text cleaning are left out.
* In `FinanceCache` an answer is current or outdated, whatever it contains. TanStack Query is modelled from
  how the client uses it: one fetch per query, cancellation by reset, invalidation of queries that hold an
  answer.
* In `SignIn` what is typed is left out: any call may be refused. Cognito's answers come at any time. A sign-in
  whose tokens the browser does not keep leaves the session it had, so that `login` may find no token. Tokens
  that are expired and no tokens at all are one state, "none".
* In `RestoreWizard` the job on the server ends in success or failure at any time; a restore that was aborted
  while still at work ends before the next one is accepted.

## 7. Not modelled, and what could come next

Not modelled: text parsing of CSV, OFX and QIF, the amount policy and the resolution of currencies (pure
functions of one file), multipart ingress, the CSV export of transactions, the blob stores themselves, the
health check and logs, routing, verification of tokens (the gateway does it), tables and charts of the
frontend, infrastructure, scripts and ML training. Of the classifier's suggestions nothing is modelled but
that they are not decisions.

Next, in this order:

1. `pairing_id` in `ImportInPlace`: a crash between the patch of the old leg and the insert of the new one.
2. A put that is applied and answered with an error, which matters for the compensation of blobs.
3. The fields of a backup: what a round trip through the file keeps, beyond the references between rows.
