------------------------- MODULE LedgerWritersProofs -------------------------
(***************************************************************************)
(* Proofs about LedgerWriters, for any number of tags, patches, imports,   *)
(* exports, restores, transactions, files and clusters, in any             *)
(* interleaving: the types, and every safety property of the run.          *)
(*                                                                         *)
(* The inductive invariant comes in layers, each proved from those before  *)
(* it: the types (Typed), that met and past record what runs together      *)
(* (Accounted), what a restore has wiped and will copy (Restoring), where  *)
(* the transactions are and that their CLUSTER and FILE rows are there     *)
(* (Placed), their currencies (Filed, Priced), the counts of the CLUSTER   *)
(* rows (CountsRight), the review queue (Queued), and METRICS (Figured).   *)
(* From Placed on, a layer holds until what its property excepts happens.  *)
(* Each layer also says what the requests under way have read, and what    *)
(* the backups hold: a restore brings it back.                             *)
(***************************************************************************)
EXTENDS LedgerWriters, TLAPS, FiniteSetTheorems

----------------------------------------------------------------------------
(* Types                                                                   *)

Category == Categories \cup {Pending}

Work == [rows : [Txns -> Row \cup {Absent}], todo : SUBSET Txns, clusters : SUBSET Clusters,
         retire : SUBSET Clusters, aggs : [Clusters -> ClusterRow \cup {Absent}],
         cluster : Clusters \cup {Absent}, file : Files \cup {Absent},
         currency : Currencies \cup {NoCurrency}, category : Category,
         list : SUBSET (Txns \X Category), listed : SUBSET Txns, from : Exports \cup {Absent}]

Snapshot == [clusters : SUBSET [id : Clusters, row : ClusterRow],
             files : SUBSET [id : Files, currency : Currencies \cup {FirstCurrency}],
             txns : SUBSET [id : Txns, cluster : Clusters, category : Category]]

\* One row per id.
OneEach(rows) == \A x, y \in rows : x.id = y.id => x = y

Stages(r) ==
    {"idle", "ok"}
        \cup (IF r \in Tags THEN {"tag", "metrics", "metrics put", "failed"} ELSE {})
        \cup (IF r \in Patches THEN {"query", "put rows", "rebuild", "failed"} ELSE {})
        \cup (IF r \in Imports THEN {"patch", "rebuild", "retire", "metrics", "metrics put"} ELSE {})
        \cup (IF r \in Exports THEN {"files", "txns"} ELSE {})
        \cup (IF r \in Restores THEN {"copy", "metrics", "metrics put"} ELSE {})

\* What a request has been asked, and the rows that it will write.
TagTyped(g) ==
    pc[g] = "tag" => work[g].cluster \in Clusters /\ work[g].category \in Categories
PatchTyped(p) ==
    /\ pc[p] \in {"query", "put rows", "rebuild"} =>
         work[p].file \in Files /\ work[p].currency \in Currencies
    /\ pc[p] = "put rows" => work[p].todo \subseteq Present(work[p].rows)
    /\ pc[p] \in {"query", "put rows"} => work[p].aggs = NoWork.aggs
ImportTyped(i) ==
    pc[i] = "patch" => /\ work[i].todo \subseteq Present(txn)
                       /\ work[i].todo \cup {NewRow[i]} \subseteq Present(work[i].rows)
                       /\ work[i].aggs = NoWork.aggs
RestoreTyped(r) == pc[r] = "copy" => work[r].from \in Exports

\* The lock.
OneAtATime == \A q, r \in Running(Imports \cup Restores) : q = r

Typed ==
    /\ TypeOK
    /\ work \in [Requests -> Work]
    /\ DOMAIN pc = Requests /\ \A r \in Requests : pc[r] \in Stages(r)
    /\ snapshot \in [Exports -> Snapshot]
    /\ quiet \in [Exports -> BOOLEAN]
    /\ \A g \in Tags : TagTyped(g)
    /\ \A p \in Patches : PatchTyped(p)
    /\ \A i \in Imports : ImportTyped(i)
    /\ \A r \in Restores : RestoreTyped(r)
    /\ OneAtATime

----------------------------------------------------------------------------
(* The constants, the kinds of requests, and finite sets                   *)

LEMMA Kinds ==
  ASSUME Typed, NEW r \in Requests
  PROVE  /\ pc[r] \in {"tag"} => r \in Tags
         /\ pc[r] \in {"query", "put rows"} => r \in Patches
         /\ pc[r] = "rebuild" => r \in Patches \cup Imports
         /\ pc[r] \in {"patch", "retire"} => r \in Imports
         /\ pc[r] \in {"metrics", "metrics put"} => r \in Tags \cup Imports \cup Restores
         /\ pc[r] = "copy" => r \in Restores
         /\ pc[r] \in {"files", "txns"} => r \in Exports
         /\ pc[r] = "failed" => r \in Tags \cup Patches
         /\ r \in Tags => pc[r] \in {"idle", "tag", "metrics", "metrics put", "ok", "failed"}
         /\ r \in Patches => pc[r] \in {"idle", "query", "put rows", "rebuild", "ok", "failed"}
         /\ r \in Imports => pc[r] \in {"idle", "patch", "rebuild", "retire", "metrics",
                                        "metrics put", "ok"}
         /\ r \in Exports => pc[r] \in {"idle", "files", "txns", "ok"}
         /\ r \in Restores => pc[r] \in {"idle", "copy", "metrics", "metrics put", "ok"}
BY LedgerWritersAssumption DEF Typed, Stages

LEMMA KindsApart ==
  /\ \A r \in Tags : r \notin Patches /\ r \notin Imports /\ r \notin Exports /\ r \notin Restores
  /\ \A r \in Patches : r \notin Imports /\ r \notin Exports /\ r \notin Restores
  /\ \A r \in Imports : r \notin Exports /\ r \notin Restores
  /\ \A r \in Exports : r \notin Restores
  /\ Tags \subseteq Requests /\ Patches \subseteq Requests /\ Imports \subseteq Requests
  /\ Exports \subseteq Requests /\ Restores \subseteq Requests
BY LedgerWritersAssumption DEF Requests

LEMMA AbsentIsNoRow ==
  Absent \notin Row /\ Absent \notin ClusterRow /\ Absent \notin Currencies
    /\ Absent # FirstCurrency /\ Pending \notin Categories
BY LedgerWritersAssumption

LEMMA NewIds ==
  ASSUME NEW i \in Imports
  PROVE  /\ NewRow[i] \in Txns /\ NewRow[i] \notin Stored
         /\ \A t \in Txns : t # NewRow[i] => FileOf[t] # FileOf[NewRow[i]]
         /\ \A c \in OldClusters : Remint[i][c] \in Clusters /\ Remint[i][c] \notin OldClusters
         /\ \A j \in Imports : j # i => NewRow[i] # NewRow[j]
         /\ \A j \in Imports : j # i =>
              \A c, d \in OldClusters : Remint[i][c] # Remint[j][d]
<1>1. NewRow[i] \in Txns
  BY DEF Txns
<1>2. \A c \in OldClusters : Remint[i][c] \in Clusters
  BY DEF Clusters
<1>3. /\ NewRow[i] \notin Stored
      /\ \A t \in Txns \ {NewRow[i]} : FileOf[t] # FileOf[NewRow[i]]
      /\ \A c \in OldClusters : Remint[i][c] \notin OldClusters
      /\ \A j \in Imports \ {i} : /\ NewRow[i] # NewRow[j]
                                  /\ \A c, d \in OldClusters : Remint[i][c] # Remint[j][d]
  BY LedgerWritersAssumption
<1> QED
  BY <1>1, <1>2, <1>3

LEMMA FilesOf == \A t \in Txns : FileOf[t] \in Files
BY DEF Files

LEMMA TxnsFinite == IsFiniteSet(Txns)
<1> DEFINE News == {NewRow[i] : i \in Imports}
           f == [i \in Imports |-> NewRow[i]]
<1>1. f \in Surjection(Imports, News)
  BY DEF Surjection
<1>2. IsFiniteSet(Imports) /\ IsFiniteSet(Stored)
  BY LedgerWritersAssumption
<1>3. IsFiniteSet(News)
  BY <1>1, <1>2, FS_Surjection
<1> QED
  BY <1>2, <1>3, FS_Union DEF Txns

LEMMA SizesTyped ==
  ASSUME NEW S \in SUBSET Txns
  PROVE  Cardinality(S) \in 0..Cardinality(Txns)
<1>1. IsFiniteSet(S) /\ Cardinality(S) <= Cardinality(Txns)
  BY TxnsFinite, FS_Subset
<1>2. Cardinality(S) \in Nat /\ Cardinality(Txns) \in Nat
  BY <1>1, TxnsFinite, FS_CardinalityType
<1> QED
  BY <1>1, <1>2

LEMMA TheOnlyTyped ==
  ASSUME NEW T \in SUBSET Txns, NEW rows \in [T -> Category]
  PROVE  TheOnly({rows[t] : t \in T} \ {Pending}) \in Category
<1> DEFINE All == {rows[t] : t \in T}
           S == All \ {Pending}
<1>1. IsFiniteSet(T)
  BY TxnsFinite, FS_Subset
<1>2. rows \in Surjection(T, All)
  BY DEF Surjection
<1>3. IsFiniteSet(All)
  BY <1>1, <1>2, FS_Surjection
<1>4. IsFiniteSet(S)
  BY <1>3, FS_RemoveElement
<1>5. S \subseteq Category /\ Pending \in Category
  BY DEF Category
<1>6. CASE Cardinality(S) = 1
  <2>1. PICK x : S = {x}
    BY <1>4, <1>6, FS_Singleton
  <2>2. TheOnly(S) = x
    BY <1>6, <2>1 DEF TheOnly
  <2> QED
    BY <2>1, <2>2, <1>5
<1>7. CASE Cardinality(S) # 1
  BY <1>5, <1>7 DEF TheOnly
<1> QED
  BY <1>6, <1>7
----------------------------------------------------------------------------
(* What each step does                                                     *)

\* Nothing is known to have changed of the requests other than r.
Others(r) == \A q \in Requests \ {r} : pc'[q] = pc[q] /\ work'[q] = work[q]

LEMMA Remembered ==
  ASSUME work \in [Requests -> Work], NEW r \in Requests, NEW w \in Work, Remember(r, w)
  PROVE  /\ work' \in [Requests -> Work] /\ work'[r] = w
         /\ \A q \in Requests \ {r} : work'[q] = work[q]
BY DEF Remember

LEMMA Went ==
  ASSUME DOMAIN pc = Requests, NEW r \in Requests, NEW where, Goto(r, where)
  PROVE  /\ DOMAIN pc' = Requests /\ pc'[r] = where
         /\ \A q \in Requests \ {r} : pc'[q] = pc[q]
<1>1. pc' = [pc EXCEPT ![r] = where]
  BY DEF Goto
<1> QED
  BY <1>1

LEMMA NoWorkTyped ==
  /\ NoWork \in Work
  /\ \A r \in Requests : work \in [Requests -> Work] => WorkDone(r) \in Work
<1>1. NoWork \in Work
  BY DEF NoWork, Work, Category
<1>2. ASSUME NEW r \in Requests, work \in [Requests -> Work]
      PROVE  WorkDone(r) \in Work
  <2>1. work[r].file \in Files \cup {Absent}
    BY <1>2 DEF Work
  <2> QED
    BY <1>1, <2>1 DEF WorkDone, Work
<1> QED
  BY <1>1, <1>2

LEMMA RowFields ==
  ASSUME Typed, NEW t \in Present(txn)
  PROVE  /\ t \in Txns /\ txn[t] \in Row /\ txn[t] # Absent
         /\ txn[t].cluster \in Clusters /\ txn[t].category \in Category
         /\ txn[t].currency \in Currencies \cup {FirstCurrency, NoCurrency}
BY DEF Typed, TypeOK, Present, Row, Category

LEMMA ListedTyped ==
  ASSUME Typed
  PROVE  Listed(txn) \in SUBSET (Txns \X Category)
BY RowFields DEF Listed

LEMMA MembersOf ==
  ASSUME NEW rows, NEW c
  PROVE  Members(rows, c) \subseteq Present(rows) /\ Present(rows) \subseteq Txns
BY DEF Members, Present

LEMMA AggregateTyped ==
  ASSUME Typed, NEW c \in Clusters
  PROVE  /\ Aggregate(txn, c) \in ClusterRow
         /\ Aggregate(txn, c).whole
         /\ Aggregate(txn, c).size = Cardinality(Members(txn, c))
         /\ Aggregate(txn, c).pending <=> \E t \in Members(txn, c) : txn[t].category = Pending
<1> DEFINE members == Members(txn, c)
           cats == [t \in members |-> txn[t].category]
<1>1. members \in SUBSET Txns /\ members \subseteq Present(txn)
  BY MembersOf
<1>2. Cardinality(members) \in 0..Cardinality(Txns)
  BY <1>1, SizesTyped
<1>3. cats \in [members -> Category]
  BY <1>1, RowFields
<1>4. {txn[t].category : t \in members} = {cats[t] : t \in members}
  OBVIOUS
<1>5. TheOnly({cats[t] : t \in members} \ {Pending}) \in Category
  BY <1>1, <1>3, TheOnlyTyped
<1>6. agg[c] # Absent => agg[c].assigned \in Category
  BY DEF Typed, TypeOK, ClusterRow, Category
<1> HIDE DEF members, cats
<1>7. (IF agg[c] # Absent /\ agg[c].whole /\ agg[c].assigned # Pending
       THEN agg[c].assigned ELSE TheOnly({txn[t].category : t \in members} \ {Pending})) \in Category
  BY <1>4, <1>5, <1>6
<1> QED
  BY <1>2, <1>7 DEF Aggregate, ClusterRow, Category, members
LEMMA TypedFrame ==
  ASSUME Typed, NEW r \in Requests, Others(r),
         TypeOK', work' \in [Requests -> Work], DOMAIN pc' = Requests, pc'[r] \in Stages(r),
         snapshot' \in [Exports -> Snapshot], quiet' \in [Exports -> BOOLEAN],
         Present(txn) \subseteq Present(txn') \/ LockFree,
         r \in Tags => TagTyped(r)', r \in Patches => PatchTyped(r)',
         r \in Imports => ImportTyped(r)', r \in Restores => RestoreTyped(r)',
         r \in Imports \cup Restores => LockFree \/ pc[r] \notin {"idle", "ok", "failed"}
  PROVE  Typed'
<1>1. \A q \in Requests : pc'[q] \in Stages(q)
  BY DEF Typed, Others
<1>2. \A g \in Tags : TagTyped(g)'
  BY KindsApart DEF Typed, Others, TagTyped
<1>3. \A p \in Patches : PatchTyped(p)'
  BY KindsApart DEF Typed, Others, PatchTyped
<1>4. \A i \in Imports : ImportTyped(i)'
  <2> SUFFICES ASSUME NEW i \in Imports, i # r
               PROVE  ImportTyped(i)'
    OBVIOUS
  <2>1. pc'[i] = pc[i] /\ work'[i] = work[i] /\ ImportTyped(i)
    BY KindsApart DEF Typed, Others
  <2>2. pc[i] = "patch" => ~LockFree
    BY DEF LockFree, Running, Ended
  <2> QED
    BY <2>1, <2>2 DEF ImportTyped
<1>5. \A q \in Restores : RestoreTyped(q)'
  BY KindsApart DEF Typed, Others, RestoreTyped
<1>6. OneAtATime'
  <2>1. \A q \in Running(Imports \cup Restores)' : q # r => q \in Running(Imports \cup Restores)
    BY KindsApart DEF Running, Others
  <2>2. r \in Running(Imports \cup Restores)' => LockFree \/ r \in Running(Imports \cup Restores)
    BY DEF Running, Ended
  <2> QED
    BY <2>1, <2>2 DEF OneAtATime, LockFree, Typed
<1> QED
  BY <1>1, <1>2, <1>3, <1>4, <1>5, <1>6 DEF Typed, Stages

LEMMA TagListEffect ==
  ASSUME Typed, NEW r \in Requests, TagList(r)
  PROVE  /\ Typed' /\ Others(r) /\ r \in Tags
         /\ pc[r] = "idle" /\ pc'[r] = "tag"
         /\ txn' = txn /\ agg' = agg /\ file' = file /\ metrics' = metrics
         /\ snapshot' = snapshot /\ quiet' = quiet /\ past' = past /\ Meets(r)
         /\ work'[r].cluster \in Clusters
         /\ work'[r].cluster \in OldClusters \/ agg[work'[r].cluster] # Absent
         /\ work'[r].listed = work'[r].todo
         /\ work'[r].todo = Members(txn, work'[r].cluster)
         /\ work'[r].aggs = NoWork.aggs
<1>1. PICK c \in OldClusters \cup {d \in Clusters : agg[d] # Absent}, cat \in Categories :
        Remember(r, [NoWork EXCEPT !.cluster = c, !.category = cat,
                                   !.todo = Members(txn, c), !.listed = Members(txn, c)])
  BY DEF TagList
<1> DEFINE w == [NoWork EXCEPT !.cluster = c, !.category = cat,
                              !.todo = Members(txn, c), !.listed = Members(txn, c)]
<1>2. /\ w.cluster = c /\ w.category = cat /\ w.todo = Members(txn, c) /\ w.aggs = NoWork.aggs
      /\ w.listed = w.todo /\ c \in Clusters /\ w \in Work
  <2>1. c \in Clusters
    BY DEF Clusters
  <2>2. Members(txn, c) \subseteq Txns
    BY MembersOf
  <2> QED
    BY <2>1, <2>2, NoWorkTyped DEF NoWork, Work, Category
<1> HIDE DEF w
<1>3. work' \in [Requests -> Work] /\ work'[r] = w /\ \A q \in Requests \ {r} : work'[q] = work[q]
  BY <1>1, <1>2, Remembered DEF w, Typed
<1>4. /\ DOMAIN pc' = Requests /\ pc'[r] = "tag" /\ \A q \in Requests \ {r} : pc'[q] = pc[q]
  BY Went DEF TagList, Typed
<1>5. /\ r \in Tags /\ pc[r] = "idle" /\ txn' = txn /\ agg' = agg /\ file' = file
      /\ metrics' = metrics /\ snapshot' = snapshot /\ quiet' = quiet
      /\ past' = past /\ Meets(r)
  BY DEF TagList, ledger
<1>6. Typed'
  <2>1. TagTyped(r)'
    BY <1>2, <1>3 DEF TagTyped
  <2>2. TypeOK' /\ snapshot' \in [Exports -> Snapshot] /\ quiet' \in [Exports -> BOOLEAN]
    BY <1>5 DEF Typed, TypeOK
  <2>3. pc'[r] \in Stages(r) /\ Others(r) /\ Present(txn) \subseteq Present(txn')
    BY <1>3, <1>4, <1>5 DEF Stages, Others
  <2> QED
    BY <1>3, <1>4, <1>5, <2>1, <2>2, <2>3, TypedFrame, KindsApart
<1> QED
  BY <1>1, <1>2, <1>3, <1>4, <1>5, <1>6 DEF Others

LEMMA TagRowEffect ==
  ASSUME Typed, NEW r \in Requests, NEW t \in Txns, TagRow(r, t)
  PROVE  /\ Typed' /\ Others(r) /\ r \in Tags
         /\ pc[r] = "tag" /\ pc'[r] = "tag"
         /\ t \in work[r].todo
         /\ \A u \in Txns \ {t} : txn'[u] = txn[u]
         /\ Present(txn') = Present(txn)
         /\ t \in Present(txn) => /\ txn'[t].cluster = txn[t].cluster
                                 /\ txn'[t].currency = txn[t].currency
                                 /\ txn'[t].category \in Categories
         /\ work'[r].listed = work[r].listed /\ work'[r].category = work[r].category
         /\ agg' = agg /\ file' = file /\ metrics' = metrics /\ UNCHANGED <<snapshot, history>>
         /\ work'[r].todo = work[r].todo \ {t} /\ work'[r].cluster = work[r].cluster
         /\ work'[r].aggs = work[r].aggs
<1> DEFINE w == [work[r] EXCEPT !.todo = @ \ {t}]
           row == IF txn[t] = Absent THEN Absent ELSE [txn[t] EXCEPT !.category = work[r].category]
<1>1. /\ pc[r] = "tag" /\ t \in work[r].todo /\ txn' = [txn EXCEPT ![t] = row] /\ Remember(r, w)
      /\ UNCHANGED <<agg, file, metrics, pc, snapshot, history>>
  BY DEF TagRow
<1>2. r \in Tags /\ TagTyped(r) /\ work[r] \in Work
  BY <1>1, Kinds DEF Typed
<1>3. work[r].category \in Categories /\ work[r].cluster \in Clusters
  BY <1>1, <1>2 DEF TagTyped
<1>4. /\ w \in Work /\ w.todo = work[r].todo \ {t} /\ w.cluster = work[r].cluster
      /\ w.aggs = work[r].aggs /\ w.category = work[r].category /\ w.listed = work[r].listed
  BY <1>2 DEF Work
<1>5. /\ txn[t] = Absent => row = Absent
      /\ txn[t] # Absent => /\ row \in Row /\ row.category = work[r].category
                            /\ row.cluster = txn[t].cluster /\ row.currency = txn[t].currency
  BY <1>3, RowFields DEF Row, Present
<1> HIDE DEF w, row
<1>6. work' \in [Requests -> Work] /\ work'[r] = w /\ \A q \in Requests \ {r} : work'[q] = work[q]
  BY <1>1, <1>4, Remembered DEF Typed
<1>7. /\ txn' \in [Txns -> Row \cup {Absent}] /\ txn'[t] = row
      /\ \A u \in Txns \ {t} : txn'[u] = txn[u]
  BY <1>1, <1>5 DEF Typed, TypeOK
<1>8. Present(txn') = Present(txn)
  BY <1>5, <1>7, AbsentIsNoRow DEF Present
<1>9. Others(r) /\ pc' = pc
  BY <1>1, <1>6 DEF Others
<1>10. Typed'
  <2>1. TagTyped(r)'
    BY <1>2, <1>4, <1>6, <1>9 DEF TagTyped
  <2>2. TypeOK' /\ snapshot' \in [Exports -> Snapshot] /\ quiet' \in [Exports -> BOOLEAN]
    BY <1>1, <1>7 DEF Typed, TypeOK, history
  <2>3. DOMAIN pc' = Requests /\ pc'[r] \in Stages(r)
    BY <1>9 DEF Typed
  <2> QED
    BY <1>2, <1>6, <1>8, <1>9, <2>1, <2>2, <2>3, TypedFrame, KindsApart
<1> QED
  BY <1>1, <1>2, <1>3, <1>4, <1>5, <1>6, <1>7, <1>8, <1>9, <1>10 DEF Present

LEMMA TagClusterEffect ==
  ASSUME Typed, NEW r \in Requests, TagCluster(r)
  PROVE  /\ Typed' /\ Others(r) /\ r \in Tags
         /\ pc[r] = "tag" /\ pc'[r] = "metrics" /\ work' = work
         /\ work[r].todo = {} /\ work[r].cluster \in Clusters
         /\ \A c \in Clusters \ {work[r].cluster} : agg'[c] = agg[c]
         /\ agg'[work[r].cluster] # Absent /\ agg'[work[r].cluster].pending = FALSE
         /\ IF agg[work[r].cluster] = Absent
            THEN agg'[work[r].cluster].whole = FALSE /\ agg'[work[r].cluster].size = 0
            ELSE /\ agg'[work[r].cluster].whole = agg[work[r].cluster].whole
                 /\ agg'[work[r].cluster].size = agg[work[r].cluster].size
         /\ txn' = txn /\ file' = file /\ metrics' = metrics /\ UNCHANGED <<snapshot, history>>
<1> DEFINE c == work[r].cluster
           cat == work[r].category
           row == Updated(r, agg[c])
<1>1. /\ pc[r] = "tag" /\ work[r].todo = {} /\ agg' = [agg EXCEPT ![c] = row] /\ Goto(r, "metrics")
      /\ UNCHANGED <<txn, file, metrics, work, snapshot, history>>
  BY DEF TagCluster
<1>2. r \in Tags /\ TagTyped(r)
  BY <1>1, Kinds DEF Typed
<1>3. c \in Clusters /\ cat \in Categories
  BY <1>1, <1>2 DEF TagTyped
<1>4. 0 \in 0..Cardinality(Txns)
  BY TxnsFinite, FS_CardinalityType
<1>5. /\ row \in ClusterRow /\ row.pending = FALSE
      /\ agg[c] = Absent => row.whole = FALSE /\ row.size = 0
      /\ agg[c] # Absent => row.whole = agg[c].whole /\ row.size = agg[c].size
  <2>1. CASE agg[c] = Absent
    BY <1>3, <1>4, <2>1 DEF ClusterRow, Updated, NewItem
  <2>2. CASE agg[c] # Absent
    <3>1. agg[c] \in ClusterRow
      BY <1>3, <2>2 DEF Typed, TypeOK
    <3> QED
      BY <1>3, <2>2, <3>1 DEF ClusterRow, Updated
  <2> QED
    BY <2>1, <2>2
<1> HIDE DEF row
<1>6. /\ agg' \in [Clusters -> ClusterRow \cup {Absent}] /\ agg'[c] = row /\ row # Absent
      /\ \A d \in Clusters \ {c} : agg'[d] = agg[d]
  BY <1>1, <1>3, <1>5, AbsentIsNoRow DEF Typed, TypeOK
<1>7. /\ DOMAIN pc' = Requests /\ pc'[r] = "metrics" /\ \A q \in Requests \ {r} : pc'[q] = pc[q]
  BY <1>1, Went DEF Typed
<1>8. Others(r)
  BY <1>1, <1>7 DEF Others
<1>9. Typed'
  <2>1. TypeOK' /\ snapshot' \in [Exports -> Snapshot] /\ quiet' \in [Exports -> BOOLEAN]
    BY <1>1, <1>6 DEF Typed, TypeOK, history
  <2>2. pc'[r] \in Stages(r) /\ TagTyped(r)' /\ Present(txn) \subseteq Present(txn')
    BY <1>1, <1>2, <1>7 DEF Stages, TagTyped
  <2>3. work' \in [Requests -> Work]
    BY <1>1 DEF Typed
  <2> QED
    BY <1>2, <1>7, <1>8, <2>1, <2>2, <2>3, TypedFrame, KindsApart
<1> QED
  BY <1>1, <1>2, <1>3, <1>5, <1>6, <1>7, <1>8, <1>9

LEMMA TagClusterAnewEffect ==
  ASSUME Typed, NEW r \in Requests, TagClusterAnew(r)
  PROVE  /\ Typed' /\ Others(r) /\ r \in Tags
         /\ pc[r] = "tag" /\ pc'[r] = "metrics" /\ work' = work
         /\ work[r].todo = {} /\ work[r].cluster \in Clusters
         /\ \A c \in Clusters \ {work[r].cluster} : agg'[c] = agg[c]
         /\ agg'[work[r].cluster] # Absent /\ agg'[work[r].cluster].pending = FALSE
         /\ agg'[work[r].cluster].whole
         /\ \/ "stale count" \in past'
            \/ agg'[work[r].cluster].size = Cardinality(Members(txn, work[r].cluster))
         /\ past \subseteq past' /\ past' \subseteq past \cup {"stale count"}
         /\ txn' = txn /\ file' = file /\ metrics' = metrics /\ UNCHANGED <<snapshot, quiet, met>>
<1> DEFINE c == work[r].cluster
           cat == work[r].category
           size == Cardinality(work[r].listed)
           row == NewItem(r, TRUE, size)
<1>1. /\ pc[r] = "tag" /\ work[r].todo = {} /\ agg' = [agg EXCEPT ![c] = row] /\ Goto(r, "metrics")
      /\ past' = IF size = Cardinality(Members(txn, c)) THEN past ELSE past \cup {"stale count"}
      /\ UNCHANGED <<txn, file, metrics, work, snapshot, quiet, met>>
  BY DEF TagClusterAnew
<1>2. r \in Tags /\ TagTyped(r) /\ work[r] \in Work
  BY <1>1, Kinds DEF Typed
<1>3. c \in Clusters /\ cat \in Categories
  BY <1>1, <1>2 DEF TagTyped
<1>4. size \in 0..Cardinality(Txns)
  BY <1>2, SizesTyped DEF Work
<1>5. row \in ClusterRow /\ row.pending = FALSE /\ row.whole /\ row.size = size
  BY <1>3, <1>4 DEF ClusterRow, NewItem
<1> HIDE DEF row, size
<1>6. /\ agg' \in [Clusters -> ClusterRow \cup {Absent}] /\ agg'[c] = row /\ row # Absent
      /\ \A d \in Clusters \ {c} : agg'[d] = agg[d]
  BY <1>1, <1>3, <1>5, AbsentIsNoRow DEF Typed, TypeOK
<1>7. /\ DOMAIN pc' = Requests /\ pc'[r] = "metrics" /\ \A q \in Requests \ {r} : pc'[q] = pc[q]
  BY <1>1, Went DEF Typed
<1>8. Others(r)
  BY <1>1, <1>7 DEF Others
<1>9. Typed'
  <2>1. TypeOK' /\ snapshot' \in [Exports -> Snapshot] /\ quiet' \in [Exports -> BOOLEAN]
    BY <1>1, <1>6 DEF Typed, TypeOK
  <2>2. pc'[r] \in Stages(r) /\ TagTyped(r)' /\ Present(txn) \subseteq Present(txn')
    BY <1>1, <1>2, <1>7 DEF Stages, TagTyped
  <2>3. work' \in [Requests -> Work]
    BY <1>1 DEF Typed
  <2> QED
    BY <1>2, <1>7, <1>8, <2>1, <2>2, <2>3, TypedFrame, KindsApart
<1>10. /\ "stale count" \in past' \/ row.size = Cardinality(Members(txn, c))
       /\ past \subseteq past' /\ past' \subseteq past \cup {"stale count"}
  BY <1>1, <1>5
<1> QED
  BY <1>1, <1>2, <1>3, <1>5, <1>6, <1>7, <1>8, <1>9, <1>10

LEMMA PatchFileEffect ==
  ASSUME Typed, NEW r \in Requests, PatchFile(r)
  PROVE  /\ Typed' /\ Others(r) /\ r \in Patches /\ Meets(r)
         /\ pc[r] = "idle" /\ pc'[r] = "query"
         /\ work'[r].file \in Files /\ work'[r].currency \in Currencies
         /\ file[work'[r].file] # Absent
         /\ work'[r].aggs = NoWork.aggs
         /\ file'[work'[r].file] = work'[r].currency
         /\ \A f \in Files \ {work'[r].file} : file'[f] = file[f]
         /\ past' = past \cup {"patches of one file" :
                               p \in {q \in Running(Patches) : work[q].file = work'[r].file}}
         /\ \A e \in Exports : quiet'[e] <=> quiet[e] /\ pc[e] = "ok"
         /\ txn' = txn /\ agg' = agg /\ metrics' = metrics /\ snapshot' = snapshot
<1>1. PICK f \in {g \in Files : file[g] # Absent}, cur \in Currencies :
        /\ file' = [file EXCEPT ![f] = cur]
        /\ Remember(r, [NoWork EXCEPT !.file = f, !.currency = cur])
        /\ past' = past \cup {"patches of one file" : p \in {q \in Running(Patches) : work[q].file = f}}
  BY DEF PatchFile
<1> DEFINE w == [NoWork EXCEPT !.file = f, !.currency = cur]
<1>2. w \in Work /\ w.file = f /\ w.currency = cur /\ w.aggs = NoWork.aggs
  BY NoWorkTyped DEF NoWork, Work
<1> HIDE DEF w
<1>3. work' \in [Requests -> Work] /\ work'[r] = w /\ \A q \in Requests \ {r} : work'[q] = work[q]
  BY <1>1, <1>2, Remembered DEF w, Typed
<1>4. /\ DOMAIN pc' = Requests /\ pc'[r] = "query" /\ \A q \in Requests \ {r} : pc'[q] = pc[q]
  BY Went DEF PatchFile, Typed
<1>5. /\ r \in Patches /\ pc[r] = "idle" /\ Meets(r)
      /\ quiet' = [e \in Exports |-> quiet[e] /\ pc[e] = "ok"]
      /\ UNCHANGED <<txn, agg, metrics, snapshot>>
  BY DEF PatchFile, Disturbs
<1>6. /\ file' \in [Files -> Currencies \cup {FirstCurrency, Absent}] /\ file'[f] = cur
      /\ \A g \in Files \ {f} : file'[g] = file[g]
  BY <1>1 DEF Typed, TypeOK
<1>7. Others(r)
  BY <1>3, <1>4 DEF Others
<1>8. Typed'
  <2>1. TypeOK' /\ snapshot' \in [Exports -> Snapshot] /\ quiet' \in [Exports -> BOOLEAN]
    BY <1>5, <1>6 DEF Typed, TypeOK
  <2>2. pc'[r] \in Stages(r) /\ PatchTyped(r)' /\ Present(txn) \subseteq Present(txn')
    BY <1>2, <1>3, <1>4, <1>5 DEF Stages, PatchTyped
  <2> QED
    BY <1>3, <1>4, <1>5, <1>7, <2>1, <2>2, TypedFrame, KindsApart
<1> QED
  BY <1>1, <1>2, <1>3, <1>4, <1>5, <1>6, <1>7, <1>8

LEMMA PatchQueryEffect ==
  ASSUME Typed, NEW r \in Requests, PatchQuery(r)
  PROVE  /\ Typed' /\ Others(r) /\ r \in Patches
         /\ pc[r] = "query" /\ pc'[r] = "put rows"
         /\ work'[r].file = work[r].file /\ work'[r].currency = work[r].currency
         /\ work'[r].aggs = work[r].aggs
         /\ work'[r].todo = {t \in Present(txn) : FileOf[t] = work[r].file}
         /\ work'[r].clusters = {txn[t].cluster : t \in work'[r].todo}
         /\ \A t \in work'[r].todo : /\ work'[r].rows[t].cluster = txn[t].cluster
                                     /\ work'[r].rows[t].category = txn[t].category
                                     /\ work'[r].rows[t].currency = work[r].currency
         /\ UNCHANGED <<ledger, snapshot, history>>
<1> DEFINE found == {t \in Present(txn) : FileOf[t] = work[r].file}
           clusters == {txn[t].cluster : t \in found}
           rows == [t \in Txns |-> IF t \in found
                                   THEN [txn[t] EXCEPT !.currency = work[r].currency] ELSE Absent]
           w == [work[r] EXCEPT !.rows = rows, !.todo = found, !.clusters = clusters]
<1>1. /\ pc[r] = "query" /\ Remember(r, w) /\ Goto(r, "put rows")
      /\ UNCHANGED <<ledger, snapshot, history>>
  BY DEF PatchQuery
<1>2. r \in Patches /\ PatchTyped(r) /\ work[r] \in Work
  BY <1>1, Kinds DEF Typed
<1>3. work[r].file \in Files /\ work[r].currency \in Currencies /\ work[r].aggs = NoWork.aggs
  BY <1>1, <1>2 DEF PatchTyped
<1>4. /\ clusters \subseteq Clusters /\ found \subseteq Txns
      /\ \A t \in found : /\ rows[t] \in Row /\ rows[t].cluster = txn[t].cluster
                          /\ rows[t].category = txn[t].category
                          /\ rows[t].currency = work[r].currency
      /\ rows \in [Txns -> Row \cup {Absent}]
  <2>1. \A t \in found : /\ t \in Txns /\ rows[t] = [txn[t] EXCEPT !.currency = work[r].currency]
                         /\ txn[t] \in Row
    BY RowFields
  <2>2. \A t \in found : /\ rows[t] \in Row /\ rows[t].cluster = txn[t].cluster
                         /\ rows[t].category = txn[t].category
                         /\ rows[t].currency = work[r].currency
    BY <1>3, <2>1 DEF Row
  <2>3. \A t \in Txns : rows[t] \in Row \cup {Absent}
    BY <2>2
  <2>4. clusters \subseteq Clusters
    BY RowFields
  <2> QED
    BY <2>1, <2>2, <2>3, <2>4
<1> HIDE DEF found, clusters, rows
<1>5. /\ w \in Work /\ w.rows = rows /\ w.todo = found /\ w.clusters = clusters
      /\ w.file = work[r].file /\ w.currency = work[r].currency /\ w.aggs = work[r].aggs
  BY <1>2, <1>4 DEF Work
<1> HIDE DEF w
<1>6. work' \in [Requests -> Work] /\ work'[r] = w /\ \A q \in Requests \ {r} : work'[q] = work[q]
  BY <1>1, <1>5, Remembered DEF Typed
<1>7. /\ DOMAIN pc' = Requests /\ pc'[r] = "put rows" /\ \A q \in Requests \ {r} : pc'[q] = pc[q]
  BY <1>1, Went DEF Typed
<1>8. Others(r) /\ Present(txn') = Present(txn)
  BY <1>1, <1>6, <1>7 DEF Others, ledger
<1>9. Typed'
  <2>1. TypeOK' /\ snapshot' \in [Exports -> Snapshot] /\ quiet' \in [Exports -> BOOLEAN]
    BY <1>1 DEF Typed, TypeOK, ledger, history
  <2>2. found \subseteq Present(rows)
    BY <1>4, AbsentIsNoRow DEF Present
  <2>3. PatchTyped(r)'
    BY <1>3, <1>5, <1>6, <2>2 DEF PatchTyped
  <2>4. pc'[r] \in Stages(r)
    BY <1>2, <1>7 DEF Stages
  <2> QED
    BY <1>2, <1>6, <1>7, <1>8, <2>1, <2>3, <2>4, TypedFrame, KindsApart
<1> QED
  BY <1>1, <1>2, <1>4, <1>5, <1>6, <1>7, <1>8, <1>9 DEF found, clusters

LEMMA PatchRowEffect ==
  ASSUME Typed, NEW r \in Requests, NEW t \in Txns, PatchRow(r, t)
  PROVE  /\ Typed' /\ Others(r) /\ r \in Patches
         /\ pc[r] = "put rows" /\ pc'[r] = "put rows"
         /\ t \in work[r].todo /\ work[r].rows[t] \in Row
         /\ txn'[t] = work[r].rows[t] /\ txn'[t] # Absent
         /\ \A u \in Txns \ {t} : txn'[u] = txn[u]
         /\ work'[r].todo = work[r].todo \ {t} /\ work'[r].rows = work[r].rows
         /\ work'[r].file = work[r].file /\ work'[r].currency = work[r].currency
         /\ work'[r].clusters = work[r].clusters /\ work'[r].aggs = work[r].aggs
         /\ agg' = agg /\ file' = file /\ metrics' = metrics /\ UNCHANGED <<snapshot, history>>
<1> DEFINE w == [work[r] EXCEPT !.todo = @ \ {t}]
           row == work[r].rows[t]
<1>1. /\ pc[r] = "put rows" /\ t \in work[r].todo /\ txn' = [txn EXCEPT ![t] = row]
      /\ Remember(r, w) /\ UNCHANGED <<agg, file, metrics, pc, snapshot, history>>
  BY DEF PatchRow
<1>2. r \in Patches /\ PatchTyped(r) /\ work[r] \in Work
  BY <1>1, Kinds DEF Typed
<1>3. row # Absent
  BY <1>1, <1>2 DEF PatchTyped, Present
<1>4. row \in Row
  BY <1>2, <1>3 DEF Work
<1>5. /\ w \in Work /\ w.todo = work[r].todo \ {t} /\ w.rows = work[r].rows
      /\ w.file = work[r].file /\ w.currency = work[r].currency
      /\ w.clusters = work[r].clusters /\ w.aggs = work[r].aggs
  BY <1>2 DEF Work
<1> HIDE DEF w, row
<1>6. work' \in [Requests -> Work] /\ work'[r] = w /\ \A q \in Requests \ {r} : work'[q] = work[q]
  BY <1>1, <1>5, Remembered DEF Typed
<1>7. /\ txn' \in [Txns -> Row \cup {Absent}] /\ txn'[t] = row
      /\ \A u \in Txns \ {t} : txn'[u] = txn[u]
  BY <1>1, <1>4 DEF Typed, TypeOK
<1>8. Others(r) /\ pc' = pc /\ Present(txn) \subseteq Present(txn')
  BY <1>1, <1>3, <1>6, <1>7 DEF Others, Present
<1>9. Typed'
  <2>1. TypeOK' /\ snapshot' \in [Exports -> Snapshot] /\ quiet' \in [Exports -> BOOLEAN]
    BY <1>1, <1>7 DEF Typed, TypeOK, history
  <2>2. PatchTyped(r)'
    BY <1>1, <1>2, <1>5, <1>6, <1>8 DEF PatchTyped, Present
  <2>3. DOMAIN pc' = Requests /\ pc'[r] \in Stages(r)
    BY <1>8 DEF Typed
  <2> QED
    BY <1>2, <1>6, <1>8, <2>1, <2>2, <2>3, TypedFrame, KindsApart
<1> QED
  BY <1>1, <1>2, <1>3, <1>4, <1>5, <1>6, <1>7, <1>8, <1>9 DEF row

LEMMA PatchRowsDoneEffect ==
  ASSUME Typed, NEW r \in Requests, PatchRowsDone(r)
  PROVE  /\ Typed' /\ Others(r) /\ r \in Patches
         /\ pc[r] = "put rows" /\ pc'[r] = "rebuild" /\ work[r].todo = {} /\ work' = work
         /\ work[r].aggs = NoWork.aggs
         /\ UNCHANGED <<ledger, snapshot, history>>
<1>1. /\ pc[r] = "put rows" /\ work[r].todo = {} /\ Goto(r, "rebuild")
      /\ UNCHANGED <<ledger, work, snapshot, history>>
  BY DEF PatchRowsDone
<1>2. r \in Patches /\ PatchTyped(r)
  BY <1>1, Kinds DEF Typed
<1>3. /\ DOMAIN pc' = Requests /\ pc'[r] = "rebuild" /\ \A q \in Requests \ {r} : pc'[q] = pc[q]
  BY <1>1, Went DEF Typed
<1>4. Others(r)
  BY <1>1, <1>3 DEF Others
<1>5. Typed'
  <2>1. TypeOK' /\ snapshot' \in [Exports -> Snapshot] /\ quiet' \in [Exports -> BOOLEAN]
    BY <1>1 DEF Typed, TypeOK, ledger, history
  <2>2. PatchTyped(r)' /\ pc'[r] \in Stages(r)
    BY <1>1, <1>2, <1>3 DEF PatchTyped, Stages
  <2>3. work' \in [Requests -> Work] /\ Present(txn) \subseteq Present(txn')
    BY <1>1 DEF Typed, ledger
  <2> QED
    BY <1>2, <1>3, <1>4, <2>1, <2>2, <2>3, TypedFrame, KindsApart
<1> QED
  BY <1>1, <1>2, <1>3, <1>4, <1>5 DEF PatchTyped

LEMMA RebuildReadEffect ==
  ASSUME Typed, NEW r \in Requests, NEW c \in Clusters, RebuildRead(r, c)
  PROVE  /\ Typed' /\ Others(r) /\ r \in Patches \cup Imports
         /\ pc[r] = "rebuild" /\ pc'[r] = "rebuild" /\ c \in work[r].clusters
         /\ work'[r].clusters = work[r].clusters \ {c}
         /\ work'[r].aggs[c] = Aggregate(txn, c)
         /\ \A d \in Clusters \ {c} : work'[r].aggs[d] = work[r].aggs[d]
         /\ work'[r].rows = work[r].rows /\ work'[r].todo = work[r].todo
         /\ work'[r].file = work[r].file /\ work'[r].currency = work[r].currency
         /\ work'[r].retire = work[r].retire
         /\ UNCHANGED <<ledger, snapshot, history>>
<1> DEFINE w == [work[r] EXCEPT !.clusters = @ \ {c}, !.aggs[c] = Aggregate(txn, c)]
<1>1. /\ pc[r] = "rebuild" /\ c \in work[r].clusters /\ Remember(r, w)
      /\ UNCHANGED <<ledger, pc, snapshot, history>>
  BY DEF RebuildRead
<1>2. r \in Patches \cup Imports /\ work[r] \in Work
  BY <1>1, Kinds DEF Typed
<1>3. Aggregate(txn, c) \in ClusterRow
  BY AggregateTyped
<1>4. /\ w \in Work /\ w.clusters = work[r].clusters \ {c} /\ w.aggs[c] = Aggregate(txn, c)
      /\ \A d \in Clusters \ {c} : w.aggs[d] = work[r].aggs[d]
      /\ w.rows = work[r].rows /\ w.todo = work[r].todo /\ w.file = work[r].file
      /\ w.currency = work[r].currency /\ w.retire = work[r].retire
  BY <1>2, <1>3 DEF Work
<1> HIDE DEF w
<1>5. work' \in [Requests -> Work] /\ work'[r] = w /\ \A q \in Requests \ {r} : work'[q] = work[q]
  BY <1>1, <1>4, Remembered DEF Typed
<1>6. Others(r) /\ pc' = pc
  BY <1>1, <1>5 DEF Others
<1>7. Typed'
  <2>1. TypeOK' /\ snapshot' \in [Exports -> Snapshot] /\ quiet' \in [Exports -> BOOLEAN]
    BY <1>1 DEF Typed, TypeOK, ledger, history
  <2>2. r \in Patches => PatchTyped(r)'
    BY <1>1, <1>4, <1>5, <1>6 DEF PatchTyped, Typed
  <2>3. (r \in Imports => ImportTyped(r)') /\ (r \in Tags => TagTyped(r)')
    BY <1>1, <1>6 DEF ImportTyped, TagTyped
  <2>4. DOMAIN pc' = Requests /\ pc'[r] \in Stages(r) /\ Present(txn) \subseteq Present(txn')
    BY <1>1 DEF Typed, ledger
  <2> QED
    BY <1>1, <1>2, <1>5, <1>6, <2>1, <2>2, <2>3, <2>4, TypedFrame, KindsApart
<1> QED
  BY <1>1, <1>2, <1>4, <1>5, <1>6, <1>7

LEMMA RebuildPutEffect ==
  ASSUME Typed, NEW r \in Requests, RebuildPut(r)
  PROVE  /\ Typed' /\ Others(r) /\ r \in Patches \cup Imports
         /\ pc[r] = "rebuild" /\ work[r].clusters = {}
         /\ r \in Imports => pc'[r] = "retire" /\ work'[r] = work[r]
         /\ r \notin Imports => /\ pc'[r] = "ok" /\ work'[r].file = work[r].file
                                /\ work'[r].aggs = NoWork.aggs
         /\ \A c \in Clusters : agg'[c] = IF work[r].aggs[c] # Absent THEN work[r].aggs[c] ELSE agg[c]
         /\ txn' = txn /\ file' = file /\ metrics' = metrics /\ UNCHANGED <<snapshot, history>>
<1> DEFINE w == IF r \in Imports THEN work[r] ELSE WorkDone(r)
           where == IF r \in Imports THEN "retire" ELSE "ok"
<1>1. /\ pc[r] = "rebuild" /\ work[r].clusters = {} /\ Goto(r, where) /\ Remember(r, w)
      /\ agg' = [c \in Clusters |-> IF work[r].aggs[c] # Absent THEN work[r].aggs[c] ELSE agg[c]]
      /\ UNCHANGED <<txn, file, metrics, snapshot, history>>
  BY DEF RebuildPut, AfterRebuild
<1>2. r \in Patches \cup Imports /\ work[r] \in Work
  BY <1>1, Kinds DEF Typed
<1>3. /\ w \in Work /\ (r \in Imports => w = work[r])
      /\ r \notin Imports => w.file = work[r].file /\ w.aggs = NoWork.aggs
  <2>1. WorkDone(r) \in Work
    BY NoWorkTyped DEF Typed
  <2>2. WorkDone(r).file = work[r].file /\ WorkDone(r).aggs = NoWork.aggs
    BY DEF WorkDone, NoWork
  <2> QED
    BY <1>2, <2>1, <2>2
<1>4. agg' \in [Clusters -> ClusterRow \cup {Absent}]
  BY <1>1, <1>2 DEF Work, Typed, TypeOK
<1>5. (r \in Imports => where = "retire") /\ (r \notin Imports => where = "ok")
  OBVIOUS
<1> HIDE DEF w, where
<1>6. work' \in [Requests -> Work] /\ work'[r] = w /\ \A q \in Requests \ {r} : work'[q] = work[q]
  BY <1>1, <1>3, Remembered DEF Typed
<1>7. /\ DOMAIN pc' = Requests /\ pc'[r] = where /\ \A q \in Requests \ {r} : pc'[q] = pc[q]
  BY <1>1, Went DEF Typed
<1>8. Others(r)
  BY <1>6, <1>7 DEF Others
<1>9. Typed'
  <2>1. TypeOK' /\ snapshot' \in [Exports -> Snapshot] /\ quiet' \in [Exports -> BOOLEAN]
    BY <1>1, <1>4 DEF Typed, TypeOK, history
  <2>2. /\ r \in Patches => PatchTyped(r)'
        /\ r \in Imports => ImportTyped(r)'
        /\ r \in Tags => TagTyped(r)'
    BY <1>2, <1>5, <1>7, KindsApart DEF PatchTyped, ImportTyped, TagTyped
  <2>3. pc'[r] \in Stages(r) /\ Present(txn) \subseteq Present(txn')
    BY <1>1, <1>2, <1>5, <1>7, KindsApart DEF Stages
  <2> QED
    BY <1>1, <1>2, <1>6, <1>7, <1>8, <2>1, <2>2, <2>3, TypedFrame, KindsApart
<1> QED
  BY <1>1, <1>2, <1>3, <1>5, <1>6, <1>7, <1>8, <1>9

LEMMA MetricsListEffect ==
  ASSUME Typed, NEW r \in Requests, MetricsList(r)
  PROVE  /\ Typed' /\ Others(r) /\ r \in Tags \cup Imports \cup Restores
         /\ pc[r] = "metrics" /\ pc'[r] = "metrics put"
         /\ work'[r].list = Listed(txn)
         /\ work'[r].aggs = work[r].aggs /\ work'[r].retire = work[r].retire
         /\ past' = past \cup Overtaking(r)
         /\ UNCHANGED <<ledger, snapshot, quiet, met>>
<1> DEFINE w == [work[r] EXCEPT !.list = Listed(txn)]
<1>1. /\ pc[r] = "metrics" /\ Remember(r, w) /\ Goto(r, "metrics put")
      /\ past' = past \cup Overtaking(r) /\ UNCHANGED <<ledger, snapshot, quiet, met>>
  BY DEF MetricsList
<1>2. r \in Tags \cup Imports \cup Restores /\ work[r] \in Work
  BY <1>1, Kinds DEF Typed
<1>3. /\ w \in Work /\ w.list = Listed(txn)
      /\ w.aggs = work[r].aggs /\ w.retire = work[r].retire
  BY <1>2, ListedTyped DEF Work
<1> HIDE DEF w
<1>4. work' \in [Requests -> Work] /\ work'[r] = w /\ \A q \in Requests \ {r} : work'[q] = work[q]
  BY <1>1, <1>3, Remembered DEF Typed
<1>5. /\ DOMAIN pc' = Requests /\ pc'[r] = "metrics put" /\ \A q \in Requests \ {r} : pc'[q] = pc[q]
  BY <1>1, Went DEF Typed
<1>6. Others(r)
  BY <1>4, <1>5 DEF Others
<1>7. Typed'
  <2>1. TypeOK' /\ snapshot' \in [Exports -> Snapshot] /\ quiet' \in [Exports -> BOOLEAN]
    BY <1>1 DEF Typed, TypeOK, ledger
  <2>2. /\ r \in Patches => PatchTyped(r)'
        /\ r \in Imports => ImportTyped(r)'
        /\ r \in Tags => TagTyped(r)'
        /\ r \in Restores => RestoreTyped(r)'
    BY <1>5 DEF PatchTyped, ImportTyped, TagTyped, RestoreTyped
  <2>3. pc'[r] \in Stages(r) /\ Present(txn) \subseteq Present(txn')
    BY <1>1, <1>2, <1>5, KindsApart DEF Stages, ledger
  <2> QED
    BY <1>1, <1>4, <1>5, <1>6, <2>1, <2>2, <2>3, TypedFrame
<1> QED
  BY <1>1, <1>2, <1>3, <1>4, <1>5, <1>6, <1>7

LEMMA MetricsPutEffect ==
  ASSUME Typed, NEW r \in Requests, MetricsPut(r)
  PROVE  /\ Typed' /\ Others(r) /\ r \in Tags \cup Imports \cup Restores
         /\ pc[r] = "metrics put" /\ pc'[r] = "ok"
         /\ metrics' = work[r].list /\ work'[r] = NoWork
         /\ txn' = txn /\ agg' = agg /\ file' = file /\ UNCHANGED <<snapshot, history>>
<1>1. /\ pc[r] = "metrics put" /\ metrics' = work[r].list /\ Goto(r, "ok") /\ Remember(r, NoWork)
      /\ UNCHANGED <<txn, agg, file, snapshot, history>>
  BY DEF MetricsPut
<1>2. r \in Tags \cup Imports \cup Restores
  BY <1>1, Kinds
<1>3. work' \in [Requests -> Work] /\ work'[r] = NoWork /\ \A q \in Requests \ {r} : work'[q] = work[q]
  BY <1>1, NoWorkTyped, Remembered DEF Typed
<1>4. /\ DOMAIN pc' = Requests /\ pc'[r] = "ok" /\ \A q \in Requests \ {r} : pc'[q] = pc[q]
  BY <1>1, Went DEF Typed
<1>5. Others(r)
  BY <1>3, <1>4 DEF Others
<1>6. Typed'
  <2>1. TypeOK' /\ snapshot' \in [Exports -> Snapshot] /\ quiet' \in [Exports -> BOOLEAN]
    BY <1>1 DEF Typed, TypeOK, history
  <2>2. /\ r \in Patches => PatchTyped(r)'
        /\ r \in Imports => ImportTyped(r)'
        /\ r \in Tags => TagTyped(r)'
        /\ r \in Restores => RestoreTyped(r)'
    BY <1>4 DEF PatchTyped, ImportTyped, TagTyped, RestoreTyped
  <2>3. pc'[r] \in Stages(r) /\ Present(txn) \subseteq Present(txn')
    BY <1>1, <1>4 DEF Stages
  <2> QED
    BY <1>1, <1>3, <1>4, <1>5, <2>1, <2>2, <2>3, TypedFrame
<1> QED
  BY <1>1, <1>2, <1>3, <1>4, <1>5, <1>6

LEMMA ImportPlanEffect ==
  ASSUME Typed, NEW i \in Requests, ImportPlan(i)
  PROVE  /\ Typed' /\ Others(i) /\ i \in Imports /\ LockFree /\ Meets(i)
         /\ pc[i] = "idle" /\ pc'[i] = "patch"
         /\ \A t \in Present(txn) : txn[t].cluster \in OldClusters
         /\ work'[i].todo = Present(txn) /\ work'[i].retire = {txn[t].cluster : t \in Present(txn)}
         /\ work'[i].clusters \subseteq {Remint[i][c] : c \in OldClusters}
         /\ \A t \in Present(txn) \cup {NewRow[i]} : work'[i].rows[t].cluster \in work'[i].clusters
         /\ work'[i].rows[NewRow[i]].currency = FirstCurrency
         /\ work'[i].aggs = NoWork.aggs
         /\ \A e \in Exports : quiet'[e] <=> quiet[e] /\ pc[e] = "ok"
         /\ UNCHANGED <<ledger, snapshot, past>>
<1> DEFINE joined(c) == {txn[t].category : t \in Members(txn, c)}
           New(c) == [cluster |-> Remint[i][c], category |-> TheOnly(joined(c) \ {Pending}),
                      currency |-> FirstCurrency]
           Old(t) == [txn[t] EXCEPT !.cluster = Remint[i][@]]
           Rows(c) == [t \in Txns |-> IF t \in Present(txn) \cup {NewRow[i]}
                                      THEN IF t = NewRow[i] THEN New(c) ELSE Old(t) ELSE Absent]
           W(c) == [NoWork EXCEPT !.rows = Rows(c), !.todo = Present(txn),
                       !.clusters = {Rows(c)[t].cluster : t \in Present(Rows(c))},
                       !.retire = {txn[t].cluster : t \in Present(txn)}]
<1>1. /\ i \in Imports /\ pc[i] = "idle" /\ LockFree /\ Meets(i) /\ Goto(i, "patch")
      /\ quiet' = [e \in Exports |-> quiet[e] /\ pc[e] = "ok"]
      /\ UNCHANGED <<ledger, snapshot, past>>
  BY DEF ImportPlan, Disturbs
<1>2. PICK c \in OldClusters :
        /\ \A t \in Present(txn) : txn[t].cluster \in OldClusters
        /\ Remember(i, W(c))
  BY DEF ImportPlan
<1>3. New(c) \in Row /\ New(c).currency = FirstCurrency /\ New(c).cluster = Remint[i][c]
  <2> DEFINE cats == [t \in Members(txn, c) |-> txn[t].category]
  <2>1. /\ Members(txn, c) \in SUBSET Txns /\ cats \in [Members(txn, c) -> Category]
        /\ joined(c) = {cats[t] : t \in Members(txn, c)}
    BY MembersOf, RowFields
  <2> HIDE DEF cats
  <2>2. TheOnly(joined(c) \ {Pending}) \in Categories \cup {Pending}
    BY <2>1, TheOnlyTyped DEF Category
  <2>3. Remint[i][c] \in Clusters
    BY <1>1, NewIds
  <2> QED
    BY <2>2, <2>3 DEF Row
<1>4. \A t \in Present(txn) : Old(t) \in Row /\ Old(t).cluster = Remint[i][txn[t].cluster]
  <2> SUFFICES ASSUME NEW t \in Present(txn)
               PROVE  Old(t) \in Row /\ Old(t).cluster = Remint[i][txn[t].cluster]
    OBVIOUS
  <2>1. txn[t] \in Row /\ Remint[i][txn[t].cluster] \in Clusters
    BY <1>1, <1>2, NewIds, RowFields
  <2> QED
    BY <2>1 DEF Row
<1> DEFINE rows == Rows(c)
           w == W(c)
<1> HIDE DEF New, Old
<1>5. /\ rows \in [Txns -> Row \cup {Absent}]
      /\ \A t \in Present(txn) \cup {NewRow[i]} :
           /\ t \in Txns /\ rows[t] \in Row
           /\ \E d \in OldClusters : rows[t].cluster = Remint[i][d]
      /\ Present(rows) = Present(txn) \cup {NewRow[i]}
      /\ rows[NewRow[i]].currency = FirstCurrency
  <2>1. \A t \in Present(txn) \cup {NewRow[i]} : t \in Txns
    BY <1>1, NewIds, RowFields
  <2>2. rows[NewRow[i]] = New(c)
    BY <2>1
  <2>3. \A t \in Present(txn) : t # NewRow[i] => rows[t] = Old(t)
    BY <2>1
  <2>4. \A t \in Present(txn) \cup {NewRow[i]} :
           rows[t] \in Row /\ \E d \in OldClusters : rows[t].cluster = Remint[i][d]
    BY <1>2, <1>3, <1>4, <2>2, <2>3
  <2>5. \A t \in Txns : t \notin Present(txn) \cup {NewRow[i]} => rows[t] = Absent
    OBVIOUS
  <2>6. rows \in [Txns -> Row \cup {Absent}]
    <3>1. \A t \in Txns : rows[t] \in Row \cup {Absent}
      BY <2>4, <2>5
    <3> QED
      BY <3>1
  <2> HIDE DEF rows
  <2>7. Present(rows) = Present(txn) \cup {NewRow[i]}
    BY <2>1, <2>4, <2>5, AbsentIsNoRow DEF Present
  <2> QED
    BY <1>3, <2>1, <2>2, <2>4, <2>6, <2>7
<1> HIDE DEF Rows, rows
<1>6. /\ w \in Work /\ w.rows = rows /\ w.todo = Present(txn) /\ w.aggs = NoWork.aggs
      /\ w.clusters = {rows[t].cluster : t \in Present(rows)}
      /\ w.retire = {txn[t].cluster : t \in Present(txn)}
  <2>1. {rows[t].cluster : t \in Present(rows)} \subseteq Clusters
    BY <1>1, <1>5, NewIds
  <2>2. {txn[t].cluster : t \in Present(txn)} \subseteq Clusters /\ Present(txn) \subseteq Txns
    BY RowFields
  <2> QED
    BY <1>5, <2>1, <2>2, NoWorkTyped DEF NoWork, Work, rows
<1> HIDE DEF w
<1>7. work' \in [Requests -> Work] /\ work'[i] = w /\ \A q \in Requests \ {i} : work'[q] = work[q]
  BY <1>2, <1>6, Remembered DEF Typed, w
<1>8. /\ DOMAIN pc' = Requests /\ pc'[i] = "patch" /\ \A q \in Requests \ {i} : pc'[q] = pc[q]
  BY <1>1, Went DEF Typed
<1>9. Others(i)
  BY <1>7, <1>8 DEF Others
<1>10. Typed'
  <2>1. TypeOK' /\ snapshot' \in [Exports -> Snapshot] /\ quiet' \in [Exports -> BOOLEAN]
    BY <1>1 DEF Typed, TypeOK, ledger
  <2>2. ImportTyped(i)'
    BY <1>1, <1>5, <1>6, <1>7, <1>8 DEF ImportTyped, ledger
  <2>3. pc'[i] \in Stages(i) /\ Present(txn) \subseteq Present(txn')
    BY <1>1, <1>8 DEF Stages, ledger
  <2> QED
    BY <1>1, <1>7, <1>8, <1>9, <2>1, <2>2, <2>3, TypedFrame, KindsApart
<1>11. w.clusters \subseteq {Remint[i][d] : d \in OldClusters}
  BY <1>5, <1>6
<1>12. \A t \in Present(txn) \cup {NewRow[i]} : w.rows[t].cluster \in w.clusters
  BY <1>5, <1>6
<1> QED
  BY <1>1, <1>2, <1>5, <1>6, <1>7, <1>8, <1>9, <1>10, <1>11, <1>12

LEMMA ImportPatchEffect ==
  ASSUME Typed, NEW i \in Requests, NEW t \in Txns, ImportPatch(i, t)
  PROVE  /\ Typed' /\ Others(i) /\ i \in Imports
         /\ pc[i] = "patch" /\ pc'[i] = "patch"
         /\ t \in Present(txn) /\ t \in work[i].todo
         /\ \A u \in Txns \ {t} : txn'[u] = txn[u]
         /\ txn'[t] # Absent /\ txn'[t].cluster = work[i].rows[t].cluster
         /\ txn'[t].currency = txn[t].currency
         /\ work'[i].todo = work[i].todo \ {t} /\ work'[i].rows = work[i].rows
         /\ work'[i].clusters = work[i].clusters /\ work'[i].retire = work[i].retire
         /\ work'[i].aggs = work[i].aggs
         /\ agg' = agg /\ file' = file /\ metrics' = metrics /\ UNCHANGED <<snapshot, history>>
<1> DEFINE w == [work[i] EXCEPT !.todo = @ \ {t}]
           row == [txn[t] EXCEPT !.cluster = work[i].rows[t].cluster,
                                 !.category = work[i].rows[t].category]
<1>1. /\ pc[i] = "patch" /\ t \in work[i].todo /\ Remember(i, w)
      /\ txn' = [txn EXCEPT ![t].cluster = work[i].rows[t].cluster,
                            ![t].category = work[i].rows[t].category]
      /\ UNCHANGED <<agg, file, metrics, pc, snapshot, history>>
  BY DEF ImportPatch
<1>2. i \in Imports /\ ImportTyped(i) /\ work[i] \in Work
  BY <1>1, Kinds DEF Typed
<1>3. t \in Present(txn) /\ work[i].rows[t] # Absent
  BY <1>1, <1>2 DEF ImportTyped, Present
<1>4. work[i].rows[t] \in Row
  BY <1>2, <1>3 DEF Work
<1>5. row \in Row /\ row.cluster = work[i].rows[t].cluster /\ row.currency = txn[t].currency
  BY <1>3, <1>4, RowFields DEF Row
<1>6. txn' = [txn EXCEPT ![t] = row]
  BY <1>1 DEF Typed, TypeOK
<1>7. /\ w \in Work /\ w.todo = work[i].todo \ {t} /\ w.rows = work[i].rows
      /\ w.clusters = work[i].clusters /\ w.retire = work[i].retire /\ w.aggs = work[i].aggs
  BY <1>2 DEF Work
<1> HIDE DEF w, row
<1>8. work' \in [Requests -> Work] /\ work'[i] = w /\ \A q \in Requests \ {i} : work'[q] = work[q]
  BY <1>1, <1>7, Remembered DEF Typed
<1>9. /\ txn' \in [Txns -> Row \cup {Absent}] /\ txn'[t] = row
      /\ \A u \in Txns \ {t} : txn'[u] = txn[u]
  BY <1>5, <1>6 DEF Typed, TypeOK
<1>10. Others(i) /\ pc' = pc /\ Present(txn) \subseteq Present(txn')
  BY <1>1, <1>5, <1>8, <1>9, AbsentIsNoRow DEF Others, Present
<1>11. Typed'
  <2>1. TypeOK' /\ snapshot' \in [Exports -> Snapshot] /\ quiet' \in [Exports -> BOOLEAN]
    BY <1>1, <1>9 DEF Typed, TypeOK, history
  <2>2. ImportTyped(i)'
    BY <1>1, <1>2, <1>7, <1>8, <1>10 DEF ImportTyped
  <2>3. DOMAIN pc' = Requests /\ pc'[i] \in Stages(i)
    BY <1>10 DEF Typed
  <2> QED
    BY <1>1, <1>2, <1>8, <1>10, <2>1, <2>2, <2>3, TypedFrame, KindsApart
<1> QED
  BY <1>1, <1>2, <1>3, <1>5, <1>7, <1>8, <1>9, <1>10, <1>11, AbsentIsNoRow

LEMMA ImportInsertEffect ==
  ASSUME Typed, NEW i \in Requests, ImportInsert(i)
  PROVE  /\ Typed' /\ Others(i) /\ i \in Imports
         /\ pc[i] = "patch" /\ pc'[i] = "rebuild" /\ work[i].todo = {}
         /\ \A u \in Txns \ {NewRow[i]} : txn'[u] = txn[u]
         /\ txn'[NewRow[i]] = work[i].rows[NewRow[i]] /\ txn'[NewRow[i]] # Absent
         /\ agg' = agg /\ file' = file /\ metrics' = metrics
         /\ work' = work /\ UNCHANGED <<snapshot, history>>
         /\ work[i].aggs = NoWork.aggs
<1> DEFINE t == NewRow[i]
           row == work[i].rows[t]
<1>1. /\ pc[i] = "patch" /\ work[i].todo = {} /\ txn' = [txn EXCEPT ![t] = row]
      /\ Goto(i, "rebuild") /\ UNCHANGED <<agg, file, metrics, work, snapshot, history>>
  BY DEF ImportInsert
<1>2. i \in Imports /\ ImportTyped(i) /\ work[i] \in Work
  BY <1>1, Kinds DEF Typed
<1>3. row # Absent /\ t \in Txns /\ work[i].aggs = NoWork.aggs
  BY <1>1, <1>2, NewIds DEF ImportTyped, Present
<1>4. row \in Row
  BY <1>2, <1>3 DEF Work
<1> HIDE DEF row
<1>5. /\ txn' \in [Txns -> Row \cup {Absent}] /\ txn'[t] = row
      /\ \A u \in Txns \ {t} : txn'[u] = txn[u]
  BY <1>1, <1>3, <1>4 DEF Typed, TypeOK
<1>6. /\ DOMAIN pc' = Requests /\ pc'[i] = "rebuild" /\ \A q \in Requests \ {i} : pc'[q] = pc[q]
  BY <1>1, Went DEF Typed
<1>7. Others(i) /\ Present(txn) \subseteq Present(txn')
  BY <1>1, <1>3, <1>5, <1>6 DEF Others, Present
<1>8. Typed'
  <2>1. TypeOK' /\ snapshot' \in [Exports -> Snapshot] /\ quiet' \in [Exports -> BOOLEAN]
    BY <1>1, <1>5 DEF Typed, TypeOK, history
  <2>2. ImportTyped(i)' /\ pc'[i] \in Stages(i) /\ work' \in [Requests -> Work]
    BY <1>1, <1>2, <1>6 DEF ImportTyped, Stages, Typed
  <2> QED
    BY <1>1, <1>2, <1>6, <1>7, <2>1, <2>2, TypedFrame, KindsApart
<1> QED
  BY <1>1, <1>2, <1>3, <1>5, <1>6, <1>7, <1>8 DEF row

LEMMA ImportRetireEffect ==
  ASSUME Typed, NEW i \in Requests, NEW c \in Clusters, ImportRetire(i, c)
  PROVE  /\ Typed' /\ Others(i) /\ i \in Imports
         /\ pc[i] = "retire" /\ pc'[i] = "retire" /\ c \in work[i].retire
         /\ agg'[c] = Absent /\ \A d \in Clusters \ {c} : agg'[d] = agg[d]
         /\ work'[i].retire = work[i].retire \ {c} /\ work'[i].aggs = work[i].aggs
         /\ txn' = txn /\ file' = file /\ metrics' = metrics /\ UNCHANGED <<snapshot, history>>
<1> DEFINE w == [work[i] EXCEPT !.retire = @ \ {c}]
<1>1. /\ pc[i] = "retire" /\ c \in work[i].retire /\ agg' = [agg EXCEPT ![c] = Absent]
      /\ Remember(i, w) /\ UNCHANGED <<txn, file, metrics, pc, snapshot, history>>
  BY DEF ImportRetire
<1>2. i \in Imports /\ work[i] \in Work
  BY <1>1, Kinds DEF Typed
<1>3. w \in Work /\ w.retire = work[i].retire \ {c} /\ w.aggs = work[i].aggs
  BY <1>2 DEF Work
<1> HIDE DEF w
<1>4. work' \in [Requests -> Work] /\ work'[i] = w /\ \A q \in Requests \ {i} : work'[q] = work[q]
  BY <1>1, <1>3, Remembered DEF Typed
<1>5. Others(i) /\ pc' = pc /\ Present(txn) \subseteq Present(txn')
  BY <1>1, <1>4 DEF Others
<1>6. /\ agg' \in [Clusters -> ClusterRow \cup {Absent}] /\ agg'[c] = Absent
      /\ \A d \in Clusters \ {c} : agg'[d] = agg[d]
  BY <1>1 DEF Typed, TypeOK
<1>7. Typed'
  <2>1. TypeOK' /\ snapshot' \in [Exports -> Snapshot] /\ quiet' \in [Exports -> BOOLEAN]
    BY <1>1, <1>6 DEF Typed, TypeOK, history
  <2>2. ImportTyped(i)' /\ DOMAIN pc' = Requests /\ pc'[i] \in Stages(i)
    BY <1>1, <1>5 DEF ImportTyped, Typed
  <2> QED
    BY <1>1, <1>2, <1>4, <1>5, <2>1, <2>2, TypedFrame, KindsApart
<1> QED
  BY <1>1, <1>2, <1>3, <1>4, <1>5, <1>6, <1>7

LEMMA ImportRecordEffect ==
  ASSUME Typed, NEW i \in Requests, ImportRecord(i)
  PROVE  /\ Typed' /\ Others(i) /\ i \in Imports
         /\ pc[i] = "retire" /\ pc'[i] = "metrics" /\ work[i].retire = {} /\ work' = work
         /\ file'[FileOf[NewRow[i]]] = FirstCurrency
         /\ \A f \in Files \ {FileOf[NewRow[i]]} : file'[f] = file[f]
         /\ txn' = txn /\ agg' = agg /\ metrics' = metrics /\ UNCHANGED <<snapshot, history>>
<1> DEFINE f == FileOf[NewRow[i]]
<1>1. /\ pc[i] = "retire" /\ work[i].retire = {} /\ file' = [file EXCEPT ![f] = FirstCurrency]
      /\ Goto(i, "metrics") /\ UNCHANGED <<txn, agg, metrics, work, snapshot, history>>
  BY DEF ImportRecord
<1>2. i \in Imports
  BY <1>1, Kinds
<1>3. f \in Files
  BY <1>2, NewIds, FilesOf
<1> HIDE DEF f
<1>4. /\ file' \in [Files -> Currencies \cup {FirstCurrency, Absent}] /\ file'[f] = FirstCurrency
      /\ \A g \in Files \ {f} : file'[g] = file[g]
  BY <1>1, <1>3 DEF Typed, TypeOK
<1>5. /\ DOMAIN pc' = Requests /\ pc'[i] = "metrics" /\ \A q \in Requests \ {i} : pc'[q] = pc[q]
  BY <1>1, Went DEF Typed
<1>6. Others(i) /\ Present(txn) \subseteq Present(txn')
  BY <1>1, <1>5 DEF Others
<1>7. Typed'
  <2>1. TypeOK' /\ snapshot' \in [Exports -> Snapshot] /\ quiet' \in [Exports -> BOOLEAN]
    BY <1>1, <1>4 DEF Typed, TypeOK, history
  <2>2. ImportTyped(i)' /\ pc'[i] \in Stages(i) /\ work' \in [Requests -> Work]
    BY <1>1, <1>2, <1>5 DEF ImportTyped, Stages, Typed
  <2> QED
    BY <1>1, <1>2, <1>5, <1>6, <2>1, <2>2, TypedFrame, KindsApart
<1> QED
  BY <1>1, <1>2, <1>4, <1>5, <1>6, <1>7 DEF f

LEMMA FailEffect ==
  ASSUME Typed, NEW r \in Requests, Fail(r)
  PROVE  /\ Typed' /\ Others(r) /\ r \in Tags \cup Patches /\ pc[r] \notin Ended
         /\ pc'[r] = "failed" /\ work'[r].file = work[r].file /\ work'[r].aggs = NoWork.aggs
         /\ UNCHANGED <<ledger, snapshot, history>>
<1>1. /\ r \in Running(Tags \cup Patches) /\ Goto(r, "failed") /\ Remember(r, WorkDone(r))
      /\ UNCHANGED <<ledger, snapshot, history>>
  BY DEF Fail
<1>2. r \in Tags \cup Patches /\ pc[r] \notin Ended
  BY <1>1 DEF Running
<1>3. WorkDone(r) \in Work /\ WorkDone(r).file = work[r].file /\ WorkDone(r).aggs = NoWork.aggs
  BY NoWorkTyped DEF Typed, WorkDone, NoWork
<1>4. /\ work' \in [Requests -> Work] /\ work'[r] = WorkDone(r)
      /\ \A q \in Requests \ {r} : work'[q] = work[q]
  BY <1>1, <1>3, Remembered DEF Typed
<1>5. /\ DOMAIN pc' = Requests /\ pc'[r] = "failed" /\ \A q \in Requests \ {r} : pc'[q] = pc[q]
  BY <1>1, Went DEF Typed
<1>6. Others(r) /\ Present(txn) \subseteq Present(txn')
  BY <1>1, <1>4, <1>5 DEF Others, ledger
<1>7. Typed'
  <2>1. TypeOK' /\ snapshot' \in [Exports -> Snapshot] /\ quiet' \in [Exports -> BOOLEAN]
    BY <1>1 DEF Typed, TypeOK, ledger, history
  <2>2. TagTyped(r)' /\ PatchTyped(r)' /\ pc'[r] \in Stages(r)
    BY <1>2, <1>5 DEF TagTyped, PatchTyped, Stages
  <2> QED
    BY <1>2, <1>4, <1>5, <1>6, <2>1, <2>2, TypedFrame, KindsApart
<1> QED
  BY <1>1, <1>2, <1>3, <1>4, <1>5, <1>6, <1>7

LEMMA SnapshotFields ==
  ASSUME Typed, NEW e \in Exports
  PROVE  /\ snapshot[e] \in Snapshot
         /\ \A x \in snapshot[e].clusters : x.id \in Clusters /\ x.row \in ClusterRow
         /\ \A x \in snapshot[e].files : x.id \in Files /\ x.currency \in Currencies \cup {FirstCurrency}
         /\ \A x \in snapshot[e].txns : x.id \in Txns /\ x.cluster \in Clusters /\ x.category \in Category
BY DEF Typed, Snapshot

LEMMA ExportClustersEffect ==
  ASSUME Typed, NEW e \in Requests, ExportClusters(e)
  PROVE  /\ Typed' /\ Others(e) /\ e \in Exports
         /\ pc[e] = "idle" /\ pc'[e] = "files" /\ work' = work
         /\ \A x \in snapshot'[e].clusters : x.id \in ClustersNow /\ x.row = agg[x.id]
         /\ \A c \in ClustersNow : \E x \in snapshot'[e].clusters : x.id = c
         /\ OneEach(snapshot'[e].clusters)
         /\ snapshot'[e].files = snapshot[e].files /\ snapshot'[e].txns = snapshot[e].txns
         /\ \A f \in Exports \ {e} : snapshot'[f] = snapshot[f] /\ quiet'[f] = quiet[f]
         /\ quiet'[e] <=> Running(Imports \cup Patches \cup Restores) = {}
         /\ UNCHANGED <<ledger, met, past>>
<1> DEFINE rows == {[id |-> c, row |-> agg[c]] : c \in ClustersNow}
           s == [snapshot[e] EXCEPT !.clusters = rows]
<1>1. /\ e \in Exports /\ pc[e] = "idle" /\ Goto(e, "files")
      /\ snapshot' = [snapshot EXCEPT ![e].clusters = rows]
      /\ quiet' = [quiet EXCEPT ![e] = Running(Imports \cup Patches \cup Restores) = {}]
      /\ UNCHANGED <<ledger, work, met, past>>
  BY DEF ExportClusters
<1>2. /\ rows \subseteq [id : Clusters, row : ClusterRow]
      /\ \A x \in rows : x.id \in ClustersNow /\ x.row = agg[x.id]
      /\ \A c \in ClustersNow : \E x \in rows : x.id = c
  <2>1. \A c \in ClustersNow : c \in Clusters /\ agg[c] \in ClusterRow
    BY DEF ClustersNow, Typed, TypeOK
  <2>2. \A c \in ClustersNow : [id |-> c, row |-> agg[c]] \in rows
    OBVIOUS
  <2>3. \A c \in ClustersNow : \E x \in rows : x.id = c
    BY <2>2
  <2> QED
    BY <2>1, <2>3
<1>3. OneEach(rows)
  BY DEF OneEach
<1> HIDE DEF rows
<1>4. /\ s \in Snapshot /\ s.clusters = rows
      /\ s.files = snapshot[e].files /\ s.txns = snapshot[e].txns
  <2>1. snapshot[e] \in Snapshot
    BY <1>1 DEF Typed
  <2>2. rows \in SUBSET [id : Clusters, row : ClusterRow]
    BY <1>2
  <2> QED
    BY <2>1, <2>2 DEF Snapshot
<1>5. snapshot' = [snapshot EXCEPT ![e] = s]
  BY <1>1 DEF Typed
<1> HIDE DEF s
<1>6. /\ snapshot' \in [Exports -> Snapshot] /\ snapshot'[e] = s
      /\ \A f \in Exports \ {e} : snapshot'[f] = snapshot[f]
  BY <1>1, <1>4, <1>5 DEF Typed
<1>7. /\ quiet' \in [Exports -> BOOLEAN]
      /\ quiet'[e] <=> Running(Imports \cup Patches \cup Restores) = {}
      /\ \A f \in Exports \ {e} : quiet'[f] = quiet[f]
  BY <1>1 DEF Typed
<1>8. /\ DOMAIN pc' = Requests /\ pc'[e] = "files" /\ \A q \in Requests \ {e} : pc'[q] = pc[q]
  BY <1>1, Went DEF Typed
<1>9. Others(e)
  BY <1>1, <1>8 DEF Others
<1>10. Typed'
  <2>1. TypeOK' /\ pc'[e] \in Stages(e) /\ Present(txn) \subseteq Present(txn')
    BY <1>1, <1>8 DEF Typed, TypeOK, ledger, Stages
  <2>2. work' \in [Requests -> Work]
    BY <1>1 DEF Typed
  <2> QED
    BY <1>1, <1>6, <1>7, <1>8, <1>9, <2>1, <2>2, TypedFrame, KindsApart
<1>11. /\ \A x \in snapshot'[e].clusters : x.id \in ClustersNow /\ x.row = agg[x.id]
       /\ \A c \in ClustersNow : \E x \in snapshot'[e].clusters : x.id = c
       /\ OneEach(snapshot'[e].clusters)
       /\ snapshot'[e].files = snapshot[e].files /\ snapshot'[e].txns = snapshot[e].txns
  BY <1>2, <1>3, <1>4, <1>6
<1> QED
  BY <1>1, <1>6, <1>7, <1>8, <1>9, <1>10, <1>11

LEMMA ExportFilesEffect ==
  ASSUME Typed, NEW e \in Requests, ExportFiles(e)
  PROVE  /\ Typed' /\ Others(e) /\ e \in Exports
         /\ pc[e] = "files" /\ pc'[e] = "txns" /\ work' = work
         /\ \A x \in snapshot'[e].files : x.id \in FilesNow
         /\ \A f \in FilesNow : \E x \in snapshot'[e].files : x.id = f
         /\ snapshot'[e].clusters = snapshot[e].clusters /\ snapshot'[e].txns = snapshot[e].txns
         /\ \A f \in Exports \ {e} : snapshot'[f] = snapshot[f]
         /\ UNCHANGED <<ledger, history>>
<1> DEFINE rows == {[id |-> f, currency |-> file[f]] : f \in FilesNow}
           s == [snapshot[e] EXCEPT !.files = rows]
<1>1. /\ pc[e] = "files" /\ Goto(e, "txns")
      /\ snapshot' = [snapshot EXCEPT ![e].files = rows]
      /\ UNCHANGED <<ledger, work, history>>
  BY DEF ExportFiles
<1>2. e \in Exports
  BY <1>1, Kinds
<1>3. /\ rows \subseteq [id : Files, currency : Currencies \cup {FirstCurrency}]
      /\ \A x \in rows : x.id \in FilesNow
      /\ \A f \in FilesNow : \E x \in rows : x.id = f
  <2>1. \A f \in FilesNow : f \in Files /\ file[f] \in Currencies \cup {FirstCurrency}
    BY DEF FilesNow, Typed, TypeOK
  <2>2. \A f \in FilesNow : [id |-> f, currency |-> file[f]] \in rows
    OBVIOUS
  <2>3. \A f \in FilesNow : \E x \in rows : x.id = f
    BY <2>2
  <2> QED
    BY <2>1, <2>3
<1> HIDE DEF rows
<1>4. /\ s \in Snapshot /\ s.files = rows
      /\ s.clusters = snapshot[e].clusters /\ s.txns = snapshot[e].txns
  BY <1>2, <1>3 DEF Typed, Snapshot
<1>5. snapshot' = [snapshot EXCEPT ![e] = s]
  BY <1>1, <1>2 DEF Typed
<1> HIDE DEF s
<1>6. /\ snapshot' \in [Exports -> Snapshot] /\ snapshot'[e] = s
      /\ \A f \in Exports \ {e} : snapshot'[f] = snapshot[f]
  BY <1>2, <1>4, <1>5 DEF Typed
<1>7. /\ DOMAIN pc' = Requests /\ pc'[e] = "txns" /\ \A q \in Requests \ {e} : pc'[q] = pc[q]
  BY <1>1, Went DEF Typed
<1>8. Others(e)
  BY <1>1, <1>7 DEF Others
<1>9. Typed'
  <2>1. TypeOK' /\ pc'[e] \in Stages(e) /\ Present(txn) \subseteq Present(txn')
    BY <1>1, <1>2, <1>7 DEF Typed, TypeOK, ledger, Stages
  <2>2. work' \in [Requests -> Work] /\ quiet' \in [Exports -> BOOLEAN]
    BY <1>1 DEF Typed, history
  <2> QED
    BY <1>2, <1>6, <1>7, <1>8, <2>1, <2>2, TypedFrame, KindsApart
<1> QED
  BY <1>1, <1>2, <1>3, <1>4, <1>6, <1>7, <1>8, <1>9

LEMMA ExportTxnsEffect ==
  ASSUME Typed, NEW e \in Requests, ExportTxns(e)
  PROVE  /\ Typed' /\ Others(e) /\ e \in Exports
         /\ pc[e] = "txns" /\ pc'[e] = "ok" /\ work' = work
         /\ \A x \in snapshot'[e].txns : /\ x.id \in Present(txn)
                                         /\ x.cluster = txn[x.id].cluster
                                         /\ x.category = txn[x.id].category
         /\ \A t \in Present(txn) : \E x \in snapshot'[e].txns : x.id = t
         /\ OneEach(snapshot'[e].txns)
         /\ snapshot'[e].clusters = snapshot[e].clusters /\ snapshot'[e].files = snapshot[e].files
         /\ \A f \in Exports \ {e} : snapshot'[f] = snapshot[f]
         /\ UNCHANGED <<ledger, history>>
<1> DEFINE s == [snapshot[e] EXCEPT !.txns = TxnsNow]
<1>1. /\ pc[e] = "txns" /\ Goto(e, "ok")
      /\ snapshot' = [snapshot EXCEPT ![e].txns = TxnsNow]
      /\ UNCHANGED <<ledger, work, history>>
  BY DEF ExportTxns
<1>2. e \in Exports
  BY <1>1, Kinds
<1>3. /\ TxnsNow \subseteq [id : Txns, cluster : Clusters, category : Category]
      /\ \A x \in TxnsNow : /\ x.id \in Present(txn) /\ x.cluster = txn[x.id].cluster
                            /\ x.category = txn[x.id].category
      /\ \A t \in Present(txn) : \E x \in TxnsNow : x.id = t
      /\ OneEach(TxnsNow)
  <2>1. \A t \in Present(txn) : /\ t \in Txns /\ txn[t].cluster \in Clusters
                                /\ txn[t].category \in Category
    BY RowFields
  <2>2. \A t \in Present(txn) :
          [id |-> t, cluster |-> txn[t].cluster, category |-> txn[t].category] \in TxnsNow
    BY DEF TxnsNow
  <2>3. \A t \in Present(txn) : \E x \in TxnsNow : x.id = t
    BY <2>2
  <2>4. OneEach(TxnsNow)
    BY DEF TxnsNow, OneEach
  <2> QED
    BY <2>1, <2>3, <2>4 DEF TxnsNow
<1>4. /\ s \in Snapshot /\ s.txns = TxnsNow
      /\ s.clusters = snapshot[e].clusters /\ s.files = snapshot[e].files
  BY <1>2, <1>3 DEF Typed, Snapshot
<1>5. snapshot' = [snapshot EXCEPT ![e] = s]
  BY <1>1, <1>2 DEF Typed
<1> HIDE DEF s
<1>6. /\ snapshot' \in [Exports -> Snapshot] /\ snapshot'[e] = s
      /\ \A f \in Exports \ {e} : snapshot'[f] = snapshot[f]
  BY <1>2, <1>4, <1>5 DEF Typed
<1>7. /\ DOMAIN pc' = Requests /\ pc'[e] = "ok" /\ \A q \in Requests \ {e} : pc'[q] = pc[q]
  BY <1>1, Went DEF Typed
<1>8. Others(e)
  BY <1>1, <1>7 DEF Others
<1>9. Typed'
  <2>1. TypeOK' /\ pc'[e] \in Stages(e) /\ Present(txn) \subseteq Present(txn')
    BY <1>1, <1>2, <1>7 DEF Typed, TypeOK, ledger, Stages
  <2>2. work' \in [Requests -> Work] /\ quiet' \in [Exports -> BOOLEAN]
    BY <1>1 DEF Typed, history
  <2> QED
    BY <1>2, <1>6, <1>7, <1>8, <2>1, <2>2, TypedFrame, KindsApart
<1> QED
  BY <1>1, <1>2, <1>3, <1>4, <1>6, <1>7, <1>8, <1>9

LEMMA RestoreWipeEffect ==
  ASSUME Typed, NEW r \in Requests, NEW e \in Exports, RestoreWipe(r, e)
  PROVE  /\ Typed' /\ Others(r) /\ r \in Restores /\ pc[e] = "ok"
         /\ pc[r] = "idle" /\ pc'[r] = "copy" /\ snapshot' = snapshot
         /\ work'[r].from = e /\ work'[r].aggs = NoWork.aggs
         /\ LockFree /\ Meets(r) /\ AcceptedSnapshot(snapshot[e])
         /\ \A t \in Txns : txn'[t] = Absent
         /\ \A c \in Clusters : agg'[c] = Absent
         /\ \A f \in Files : file'[f] = Absent
         /\ metrics' = {}
         /\ \A x \in Exports : quiet'[x] <=> quiet[x] /\ pc[x] = "ok"
         /\ past' = IF quiet[e] THEN past ELSE past \cup {"torn backup"}
<1> DEFINE w == [NoWork EXCEPT !.from = e]
<1>1. /\ r \in Restores /\ pc[r] = "idle" /\ pc[e] = "ok" /\ LockFree
      /\ AcceptedSnapshot(snapshot[e])
      /\ txn' = [t \in Txns |-> Absent] /\ agg' = [c \in Clusters |-> Absent]
      /\ file' = [f \in Files |-> Absent] /\ metrics' = {}
      /\ Goto(r, "copy") /\ Remember(r, w) /\ Meets(r)
      /\ quiet' = [x \in Exports |-> quiet[x] /\ pc[x] = "ok"]
      /\ past' = (IF quiet[e] THEN past ELSE past \cup {"torn backup"})
      /\ snapshot' = snapshot
  BY DEF RestoreWipe, Disturbs
<1>2. w \in Work /\ w.from = e /\ w.aggs = NoWork.aggs
  BY NoWorkTyped DEF NoWork, Work
<1> HIDE DEF w
<1>3. work' \in [Requests -> Work] /\ work'[r] = w /\ \A q \in Requests \ {r} : work'[q] = work[q]
  BY <1>1, <1>2, Remembered DEF Typed
<1>4. /\ DOMAIN pc' = Requests /\ pc'[r] = "copy" /\ \A q \in Requests \ {r} : pc'[q] = pc[q]
  BY <1>1, Went DEF Typed
<1>5. Others(r)
  BY <1>3, <1>4 DEF Others
<1>6. Typed'
  <2>1. TypeOK' /\ snapshot' \in [Exports -> Snapshot] /\ quiet' \in [Exports -> BOOLEAN]
    BY <1>1 DEF Typed, TypeOK
  <2>2. pc'[r] \in Stages(r) /\ RestoreTyped(r)'
    BY <1>1, <1>2, <1>3, <1>4 DEF Stages, RestoreTyped
  <2> QED
    BY <1>1, <1>3, <1>4, <1>5, <2>1, <2>2, TypedFrame, KindsApart
<1>7. /\ \A t \in Txns : txn'[t] = Absent
      /\ \A c \in Clusters : agg'[c] = Absent
      /\ \A f \in Files : file'[f] = Absent
      /\ \A x \in Exports : quiet'[x] <=> quiet[x] /\ pc[x] = "ok"
  BY <1>1
<1>8. work'[r].from = e /\ work'[r].aggs = NoWork.aggs
  BY <1>2, <1>3
<1>9. /\ r \in Restores /\ pc[r] = "idle" /\ pc[e] = "ok" /\ LockFree /\ Meets(r)
      /\ AcceptedSnapshot(snapshot[e]) /\ metrics' = {} /\ snapshot' = snapshot
      /\ past' = (IF quiet[e] THEN past ELSE past \cup {"torn backup"})
  BY <1>1
<1> QED
  BY <1>4, <1>5, <1>6, <1>7, <1>8, <1>9

LEMMA RestoreCopyEffect ==
  ASSUME Typed, NEW r \in Requests, NEW s, s = snapshot[work[r].from], RestoreCopy(r)
  PROVE  /\ Typed' /\ Others(r) /\ r \in Restores /\ work[r].from \in Exports
         /\ pc[r] = "copy" /\ pc'[r] = "metrics" /\ work'[r] = NoWork
         /\ \A t \in Txns : t \notin Ids(s.txns) => txn'[t] = txn[t]
         /\ \A t \in Ids(s.txns) : \E x \in s.txns :
              /\ x.id = t /\ txn'[t].cluster = x.cluster
              /\ txn'[t].category = x.category /\ txn'[t].currency = NoCurrency
         /\ Present(txn') = Present(txn) \cup Ids(s.txns)
         /\ \A c \in Clusters : c \notin Ids(s.clusters) => agg'[c] = agg[c]
         /\ \A c \in Ids(s.clusters) : /\ agg'[c] # Absent
                                       /\ \E x \in s.clusters : x.id = c /\ agg'[c] = x.row
         /\ \A f \in Files : f \notin Ids(s.files) => file'[f] = file[f]
         /\ \A f \in Ids(s.files) : file'[f] # Absent
         /\ metrics' = metrics /\ UNCHANGED <<snapshot, history>>
<1> DEFINE rows == [t \in Txns |-> IF t \in Ids(s.txns) THEN RestoredRow(Of(s.txns, t)) ELSE txn[t]]
           aggs == [c \in Clusters |-> IF c \in Ids(s.clusters) THEN Of(s.clusters, c).row ELSE agg[c]]
           files == [f \in Files |-> IF f \in Ids(s.files) THEN Of(s.files, f).currency ELSE file[f]]
<1>1. /\ pc[r] = "copy" /\ txn' = rows /\ agg' = aggs /\ file' = files
      /\ Goto(r, "metrics") /\ Remember(r, NoWork) /\ UNCHANGED <<metrics, snapshot, history>>
  BY DEF RestoreCopy
<1>2. r \in Restores /\ work[r].from \in Exports
  BY <1>1, Kinds DEF Typed, RestoreTyped
<1>3. /\ \A x \in s.clusters : x.id \in Clusters /\ x.row \in ClusterRow
      /\ \A x \in s.files : x.id \in Files /\ x.currency \in Currencies \cup {FirstCurrency}
      /\ \A x \in s.txns : x.id \in Txns /\ x.cluster \in Clusters /\ x.category \in Category
  BY <1>2, SnapshotFields
<1>4. ASSUME NEW S, NEW id \in Ids(S)
      PROVE  Of(S, id) \in S /\ Of(S, id).id = id
  <2>1. \E x \in S : x.id = id
    BY DEF Ids
  <2> QED
    BY <2>1 DEF Of
<1>5. \A x \in s.txns : RestoredRow(x) \in Row /\ RestoredRow(x).cluster = x.cluster
                        /\ RestoredRow(x).category = x.category
                        /\ RestoredRow(x).currency = NoCurrency
  BY <1>3 DEF RestoredRow, Row, Category
<1>6. /\ rows \in [Txns -> Row \cup {Absent}]
      /\ \A t \in Txns : t \notin Ids(s.txns) => rows[t] = txn[t]
      /\ \A t \in Ids(s.txns) : \E x \in s.txns :
           /\ x.id = t /\ rows[t].cluster = x.cluster
           /\ rows[t].category = x.category /\ rows[t].currency = NoCurrency
      /\ Present(rows) = Present(txn) \cup Ids(s.txns)
  <2>1. \A t \in Ids(s.txns) : Of(s.txns, t) \in s.txns /\ Of(s.txns, t).id = t /\ t \in Txns
    BY <1>3, <1>4
  <2>2. \A t \in Ids(s.txns) : /\ rows[t] = RestoredRow(Of(s.txns, t))
                               /\ rows[t] \in Row /\ rows[t] # Absent
    BY <1>5, <2>1, AbsentIsNoRow
  <2>3. \A t \in Txns : t \notin Ids(s.txns) => rows[t] = txn[t]
    OBVIOUS
  <2>4. rows \in [Txns -> Row \cup {Absent}]
    <3>1. \A t \in Txns : rows[t] \in Row \cup {Absent}
      BY <2>2, <2>3 DEF Typed, TypeOK
    <3> QED
      BY <3>1
  <2> HIDE DEF rows
  <2>5. \A t \in Ids(s.txns) : \E x \in s.txns :
           /\ x.id = t /\ rows[t].cluster = x.cluster
           /\ rows[t].category = x.category /\ rows[t].currency = NoCurrency
    BY <1>5, <2>1, <2>2
  <2>6. Present(rows) = Present(txn) \cup Ids(s.txns)
    BY <2>1, <2>2, <2>3 DEF Present
  <2> QED
    BY <2>3, <2>4, <2>5, <2>6
<1>7. /\ aggs \in [Clusters -> ClusterRow \cup {Absent}]
      /\ \A c \in Clusters : c \notin Ids(s.clusters) => aggs[c] = agg[c]
      /\ \A c \in Ids(s.clusters) : /\ aggs[c] # Absent
                                    /\ \E x \in s.clusters : x.id = c /\ aggs[c] = x.row
  <2>1. \A c \in Ids(s.clusters) : /\ Of(s.clusters, c) \in s.clusters /\ Of(s.clusters, c).id = c
                                   /\ Of(s.clusters, c).row \in ClusterRow /\ c \in Clusters
    BY <1>3, <1>4
  <2>2. \A c \in Clusters : IF c \in Ids(s.clusters) THEN aggs[c] = Of(s.clusters, c).row
                            ELSE aggs[c] = agg[c]
    OBVIOUS
  <2>3. aggs \in [Clusters -> ClusterRow \cup {Absent}]
    <3>1. \A c \in Clusters : aggs[c] \in ClusterRow \cup {Absent}
      BY <2>1, <2>2 DEF Typed, TypeOK
    <3> QED
      BY <3>1
  <2> HIDE DEF aggs
  <2> QED
    BY <2>1, <2>2, <2>3, AbsentIsNoRow
<1>8. /\ files \in [Files -> Currencies \cup {FirstCurrency, Absent}]
      /\ \A f \in Files : f \notin Ids(s.files) => files[f] = file[f]
      /\ \A f \in Ids(s.files) : files[f] # Absent
  <2>1. \A f \in Ids(s.files) : f \in Files /\ Of(s.files, f).currency \in Currencies \cup {FirstCurrency}
    BY <1>3, <1>4
  <2>2. \A f \in Files : IF f \in Ids(s.files) THEN files[f] = Of(s.files, f).currency
                         ELSE files[f] = file[f]
    OBVIOUS
  <2>3. files \in [Files -> Currencies \cup {FirstCurrency, Absent}]
    <3>1. \A f \in Files : files[f] \in Currencies \cup {FirstCurrency, Absent}
      BY <2>1, <2>2 DEF Typed, TypeOK
    <3> QED
      BY <3>1
  <2> HIDE DEF files
  <2> QED
    BY <2>1, <2>2, <2>3, AbsentIsNoRow
<1> HIDE DEF rows, aggs, files
<1>9. work' \in [Requests -> Work] /\ work'[r] = NoWork /\ \A q \in Requests \ {r} : work'[q] = work[q]
  BY <1>1, NoWorkTyped, Remembered DEF Typed
<1>10. /\ DOMAIN pc' = Requests /\ pc'[r] = "metrics" /\ \A q \in Requests \ {r} : pc'[q] = pc[q]
  BY <1>1, Went DEF Typed
<1>11. Others(r)
  BY <1>9, <1>10 DEF Others
<1>12. Typed'
  <2>1. TypeOK' /\ snapshot' \in [Exports -> Snapshot] /\ quiet' \in [Exports -> BOOLEAN]
    BY <1>1, <1>6, <1>7, <1>8 DEF Typed, TypeOK, history
  <2>2. pc'[r] \in Stages(r) /\ RestoreTyped(r)' /\ Present(txn) \subseteq Present(txn')
    BY <1>1, <1>2, <1>6, <1>10 DEF Stages, RestoreTyped
  <2> QED
    BY <1>1, <1>2, <1>9, <1>10, <1>11, <2>1, <2>2, TypedFrame, KindsApart
<1> QED
  BY <1>1, <1>2, <1>6, <1>7, <1>8, <1>9, <1>10, <1>11, <1>12

LEMMA RestoreCopyFrame ==
  ASSUME Typed, NEW r \in Requests, RestoreCopy(r)
  PROVE  /\ Typed' /\ Others(r) /\ r \in Restores
         /\ pc[r] = "copy" /\ pc'[r] = "metrics" /\ work'[r] = NoWork
         /\ metrics' = metrics /\ UNCHANGED <<snapshot, history>>
BY RestoreCopyEffect

LEMMA TypedInit ==
  ASSUME Init
  PROVE  Typed
<1>1. txn \in [Txns -> Row \cup {Absent}]
  <2>1. \A t \in Stored : [cluster |-> FirstCluster[t], category |-> Pending,
                           currency |-> FirstCurrency] \in Row
    BY LedgerWritersAssumption DEF Row, Clusters
  <2> QED
    BY <2>1 DEF Init
<1>2. agg \in [Clusters -> ClusterRow \cup {Absent}]
  <2>1. \A c \in OldClusters : Cardinality({t \in Stored : FirstCluster[t] = c}) \in 0..Cardinality(Txns)
    BY SizesTyped DEF Txns
  <2>2. \A c \in OldClusters : [whole |-> TRUE, assigned |-> Pending, pending |-> TRUE,
                                size |-> Cardinality({t \in Stored : FirstCluster[t] = c})] \in ClusterRow
    BY <2>1 DEF ClusterRow
  <2>3. \A c \in Clusters : agg[c] \in ClusterRow \cup {Absent}
    BY <2>2 DEF Init
  <2> QED
    BY <2>3 DEF Init
<1>3. file \in [Files -> Currencies \cup {FirstCurrency, Absent}]
  BY DEF Init
<1>4. work \in [Requests -> Work] /\ quiet \in [Exports -> BOOLEAN]
  BY NoWorkTyped DEF Init
<1>5. snapshot \in [Exports -> Snapshot]
  BY DEF Init, Snapshot, NoSnapshot
<1>6. /\ DOMAIN pc = Requests
      /\ \A r \in Requests : pc[r] = "idle" /\ pc[r] \in Stages(r)
  BY DEF Init, Stages
<1>7. OneAtATime
  BY <1>6, KindsApart DEF OneAtATime, Running, Ended
<1> QED
  BY <1>1, <1>2, <1>3, <1>4, <1>5, <1>6, <1>7, KindsApart
     DEF Typed, TypeOK, TagTyped, PatchTyped, ImportTyped, RestoreTyped

LEMMA TypedNext ==
  ASSUME Typed, [Next]_vars
  PROVE  Typed'
<1>1. CASE UNCHANGED vars
  <2>1. /\ txn' = txn /\ agg' = agg /\ file' = file /\ pc' = pc /\ work' = work
        /\ snapshot' = snapshot /\ quiet' = quiet
    BY <1>1 DEF vars, ledger, history
  <2>2. TypeOK' /\ Present(txn') = Present(txn)
    BY <2>1 DEF Typed, TypeOK
  <2>3. /\ \A g \in Tags : TagTyped(g)'
        /\ \A p \in Patches : PatchTyped(p)'
        /\ \A i \in Imports : ImportTyped(i)'
        /\ \A r \in Restores : RestoreTyped(r)'
        /\ OneAtATime'
    BY <2>1, <2>2 DEF Typed, TagTyped, PatchTyped, ImportTyped, RestoreTyped, OneAtATime, Running
  <2> QED
    BY <2>1, <2>2, <2>3 DEF Typed, Stages
<1>2. CASE Next
  BY <1>2, TagListEffect, TagClusterEffect, TagClusterAnewEffect, PatchFileEffect, PatchQueryEffect,
     PatchRowsDoneEffect, RebuildPutEffect, MetricsListEffect, MetricsPutEffect,
     ImportPlanEffect, ImportInsertEffect, ImportRecordEffect, FailEffect,
     ExportClustersEffect, ExportFilesEffect, ExportTxnsEffect, TagRowEffect, PatchRowEffect,
     ImportPatchEffect, RebuildReadEffect, ImportRetireEffect, RestoreWipeEffect,
     RestoreCopyEffect DEF Next
<1> QED
  BY <1>1, <1>2

(* Each TXN, CLUSTER and FILE row is absent or has the fields that the     *)
(* code writes, and a CLUSTER row counts no more transactions than there   *)
(* are, whatever runs beside what: tags and patches beside a restore too.  *)
THEOREM TypeCorrect == Spec => []TypeOK
<1>1. Init => Typed
  BY TypedInit
<1>2. Typed /\ [Next]_vars => Typed'
  BY TypedNext
<1>3. Typed => TypeOK
  BY DEF Typed
<1> QED
  BY <1>1, <1>2, <1>3, PTL DEF Spec

----------------------------------------------------------------------------
(* Who runs together                                                       *)

\* The overlaps of the requests under way are on record.
Recorded == \A q, r \in Running(Requests \ Exports) :
                {Kind(q), Kind(r)} \in Overlaps => {Kind(q), Kind(r)} \in met
Doubled == \A p, q \in Running(Patches) :
               p # q /\ work[p].file = work[q].file => "patches of one file" \in past
Accounted == Recorded /\ Doubled

\* No patch has run beside an import or a restore.
Apart == Accounted /\ NoPatchBeside

Step(r) ==
    \/ TagList(r) \/ TagCluster(r) \/ TagClusterAnew(r) \/ PatchFile(r) \/ PatchQuery(r)
    \/ PatchRowsDone(r) \/ RebuildPut(r) \/ MetricsList(r) \/ MetricsPut(r)
    \/ ImportPlan(r) \/ ImportInsert(r) \/ ImportRecord(r) \/ Fail(r)
    \/ ExportClusters(r) \/ ExportFiles(r) \/ ExportTxns(r)
    \/ \E t \in Txns : TagRow(r, t) \/ PatchRow(r, t) \/ ImportPatch(r, t)
    \/ \E c \in Clusters : RebuildRead(r, c) \/ ImportRetire(r, c)
    \/ RestoreCopy(r) \/ \E e \in Exports : RestoreWipe(r, e)

LEMMA NextIsStep == Next => \E r \in Requests : Step(r)
BY DEF Next, Step

LEMMA HistoryGrows ==
  ASSUME [Next]_vars
  PROVE  met \subseteq met' /\ past \subseteq past'
<1>1. CASE UNCHANGED vars
  BY <1>1 DEF vars, history
<1>2. CASE Next
  <2> PICK r \in Requests : Step(r)
    BY <1>2, NextIsStep
  <2>1. CASE TagList(r) \/ PatchFile(r) \/ ImportPlan(r) \/ \E e \in Exports : RestoreWipe(r, e)
    BY <2>1 DEF TagList, PatchFile, ImportPlan, RestoreWipe, Meets
  <2>2. CASE \/ TagCluster(r) \/ PatchQuery(r) \/ PatchRowsDone(r) \/ RebuildPut(r)
             \/ MetricsPut(r) \/ ImportInsert(r) \/ ImportRecord(r) \/ Fail(r)
    BY <2>2 DEF TagCluster, PatchQuery, PatchRowsDone, RebuildPut, MetricsPut, ImportInsert,
       ImportRecord, Fail, history
  <2>3. CASE \/ TagClusterAnew(r) \/ MetricsList(r) \/ ExportClusters(r) \/ ExportFiles(r)
             \/ ExportTxns(r) \/ RestoreCopy(r)
    BY <2>3 DEF TagClusterAnew, MetricsList, ExportClusters, ExportFiles, ExportTxns, RestoreCopy,
       history
  <2>4. CASE \/ \E t \in Txns : TagRow(r, t) \/ PatchRow(r, t) \/ ImportPatch(r, t)
             \/ \E c \in Clusters : RebuildRead(r, c) \/ ImportRetire(r, c)
    BY <2>4 DEF TagRow, PatchRow, ImportPatch, RebuildRead, ImportRetire, history
  <2> QED
    BY <2>1, <2>2, <2>3, <2>4 DEF Step
<1> QED
  BY <1>1, <1>2

\* What has not happened after a step had not happened before it.
LEMMA NotBefore ==
  ASSUME [Next]_vars
  PROVE  /\ \A pairs : NeverMet(pairs)' => NeverMet(pairs)
         /\ NoPatchBeside' => NoPatchBeside
         /\ \A x : x \notin past' => x \notin past
<1>1. met \subseteq met' /\ past \subseteq past'
  BY HistoryGrows
<1> QED
  BY <1>1 DEF NeverMet, NoPatchBeside

LEMMA KindOf ==
  /\ \A r \in Tags : Kind(r) = "tag"
  /\ \A r \in Patches : Kind(r) = "patch"
  /\ \A r \in Imports : Kind(r) = "import"
  /\ \A r \in Restores : Kind(r) = "restore"
BY KindsApart DEF Kind

\* A pair on record.
LEMMA OnRecord ==
  ASSUME Recorded, NEW q \in Requests, NEW r \in Requests, q \notin Exports, r \notin Exports,
         pc[q] \notin Ended, pc[r] \notin Ended, {Kind(q), Kind(r)} \in Overlaps
  PROVE  {Kind(q), Kind(r)} \in met
BY DEF Recorded, Running

LEMMA RecordedFrame ==
  ASSUME Recorded, NEW r \in Requests, Others(r), met \subseteq met',
         r \in Exports \/ pc'[r] \in Ended \/ pc[r] \notin Ended \/ Meets(r)
  PROVE  Recorded'
<1> SUFFICES ASSUME NEW q \in Running(Requests \ Exports)', NEW s \in Running(Requests \ Exports)',
                    {Kind(q), Kind(s)} \in Overlaps
             PROVE  {Kind(q), Kind(s)} \in met'
  BY DEF Recorded, Kind, Overlaps
<1>1. \A x \in Running(Requests \ Exports)' : x # r \/ pc[r] \notin Ended => x \in Running(Requests \ Exports)
  BY DEF Running, Others
<1>2. Kind(q) # Kind(s)
  BY DEF Overlaps
<1>3. CASE (q # r /\ s # r) \/ pc[r] \notin Ended
  BY <1>1, <1>3 DEF Recorded
<1>4. CASE (q = r \/ s = r) /\ pc[r] \in Ended
  <2>1. Meets(r)
    BY <1>4 DEF Running
  <2>2. \A x \in Running(Requests \ Exports)' \ {r} : {Kind(r), Kind(x)} \in Overlaps => {Kind(r), Kind(x)} \in met'
    BY <1>1, <2>1 DEF Meets
  <2>3. {Kind(q), Kind(s)} = {Kind(s), Kind(q)}
    OBVIOUS
  <2> QED
    BY <1>2, <1>4, <2>2, <2>3
<1> QED
  BY <1>3, <1>4

LEMMA DoubledFrame ==
  ASSUME Doubled, NEW r \in Requests, Others(r), past \subseteq past',
         r \in Patches /\ pc'[r] \notin Ended => pc[r] \notin Ended /\ work'[r].file = work[r].file
  PROVE  Doubled'
<1>1. \A p \in Running(Patches)' : p \in Running(Patches) /\ work'[p].file = work[p].file
  BY KindsApart DEF Running, Others
<1> QED
  BY <1>1 DEF Doubled

LEMMA AccountedNext ==
  ASSUME Typed, Accounted, [Next]_vars
  PROVE  Accounted'
<1>0. met \subseteq met' /\ past \subseteq past'
  BY HistoryGrows
<1>1. CASE UNCHANGED vars
  <2>1. pc' = pc /\ work' = work /\ met' = met /\ past' = past
    BY <1>1 DEF vars, history
  <2> QED
    BY <2>1 DEF Accounted, Recorded, Doubled, Running
<1> SUFFICES ASSUME NEW r \in Requests, Step(r)
             PROVE  Accounted'
  BY <1>1, NextIsStep
<1>2. CASE TagList(r) \/ ImportPlan(r) \/ \E e \in Exports : RestoreWipe(r, e)
  <2>1. Others(r) /\ r \notin Patches /\ Meets(r)
    BY <1>2, TagListEffect, ImportPlanEffect, RestoreWipeEffect, KindsApart
  <2> QED
    BY <1>0, <2>1, RecordedFrame, DoubledFrame DEF Accounted
<1>3. CASE PatchFile(r)
  <2>1. /\ Others(r) /\ r \in Patches /\ Meets(r)
        /\ past' = past \cup {"patches of one file" :
                              p \in {q \in Running(Patches) : work[q].file = work'[r].file}}
    BY <1>3, PatchFileEffect
  <2>2. \A q \in Running(Patches)' : q # r => q \in Running(Patches) /\ work'[q] = work[q]
    BY <2>1, KindsApart DEF Running, Others
  <2>3. \A q \in Running(Patches)' : q # r /\ work'[q].file = work'[r].file => "patches of one file" \in past'
    BY <2>1, <2>2
  <2>4. Doubled'
    BY <1>0, <2>2, <2>3 DEF Doubled, Accounted
  <2> QED
    BY <1>0, <2>1, <2>4, RecordedFrame DEF Accounted
<1>4. CASE ExportClusters(r) \/ ExportFiles(r) \/ ExportTxns(r)
  <2>1. Others(r) /\ r \in Exports /\ r \notin Patches
    BY <1>4, ExportClustersEffect, ExportFilesEffect, ExportTxnsEffect, KindsApart
  <2> QED
    BY <1>0, <2>1, RecordedFrame, DoubledFrame DEF Accounted
<1>5. CASE PatchQuery(r) \/ PatchRowsDone(r) \/ RebuildPut(r) \/ Fail(r)
  <2>1. /\ Others(r) /\ pc[r] \notin Ended
        /\ r \in Patches => work'[r].file = work[r].file \/ pc'[r] \in Ended
    BY <1>5, PatchQueryEffect, PatchRowsDoneEffect, RebuildPutEffect, FailEffect DEF Ended
  <2> QED
    BY <1>0, <2>1, RecordedFrame, DoubledFrame DEF Accounted
<1>7. CASE \/ TagCluster(r) \/ TagClusterAnew(r) \/ MetricsList(r) \/ MetricsPut(r)
           \/ ImportInsert(r) \/ ImportRecord(r) \/ RestoreCopy(r)
  <2>1. Others(r) /\ pc[r] \notin Ended /\ r \notin Patches
    BY <1>7, TagClusterEffect, TagClusterAnewEffect, MetricsListEffect, MetricsPutEffect,
       ImportInsertEffect, ImportRecordEffect, RestoreCopyFrame, KindsApart DEF Ended
  <2> QED
    BY <1>0, <2>1, RecordedFrame, DoubledFrame DEF Accounted
<1>6. CASE \/ \E t \in Txns : TagRow(r, t) \/ PatchRow(r, t) \/ ImportPatch(r, t)
           \/ \E c \in Clusters : RebuildRead(r, c) \/ ImportRetire(r, c)
  <2>1. /\ Others(r) /\ pc[r] \notin Ended
        /\ r \in Patches => work'[r].file = work[r].file
    <3>1. CASE \E t \in Txns : TagRow(r, t)
      BY <3>1, TagRowEffect, KindsApart DEF Ended
    <3>2. CASE \E t \in Txns : PatchRow(r, t)
      BY <3>2, PatchRowEffect DEF Ended
    <3>3. CASE \E t \in Txns : ImportPatch(r, t)
      BY <3>3, ImportPatchEffect, KindsApart DEF Ended
    <3>4. CASE \E c \in Clusters : RebuildRead(r, c)
      BY <3>4, RebuildReadEffect DEF Ended
    <3>5. CASE \E c \in Clusters : ImportRetire(r, c)
      BY <3>5, ImportRetireEffect, KindsApart DEF Ended
    <3> QED
      BY <1>6, <3>1, <3>2, <3>3, <3>4, <3>5
  <2> QED
    BY <1>0, <2>1, RecordedFrame, DoubledFrame DEF Accounted
<1> QED
  BY <1>2, <1>3, <1>4, <1>5, <1>6, <1>7 DEF Step

LEMMA AccountedInit ==
  ASSUME Init
  PROVE  Accounted
<1>1. \A r \in Requests : pc[r] = "idle"
  BY DEF Init
<1> QED
  BY <1>1, KindsApart DEF Accounted, Recorded, Doubled, Running, Ended

\* Beside a restore runs no import and no other restore, and no patch if none ever has.
LEMMA AloneWithRestore ==
  ASSUME Typed, Accounted, NEW r \in Restores, pc[r] \notin Ended
  PROVE  /\ \A i \in Imports : pc[i] \in {"idle", "ok"}
         /\ \A q \in Restores \ {r} : pc[q] \in {"idle", "ok"}
         /\ NeverMet({{"patch", "restore"}}) => \A p \in Patches : pc[p] \in Ended
<1>1. \A q \in (Imports \cup Restores) \ {r} : pc[q] \in Ended
  BY DEF Typed, OneAtATime, Running
<1>2. ASSUME NEW p \in Patches, pc[p] \notin Ended PROVE {"patch", "restore"} \in met
  <2>1. Kind(p) = "patch" /\ Kind(r) = "restore" /\ p \in Requests /\ r \in Requests
        /\ p \notin Exports /\ r \notin Exports
    BY KindOf, KindsApart
  <2> QED
    BY <1>2, <2>1, OnRecord DEF Accounted, Overlaps
<1> QED
  BY <1>1, <1>2, Kinds, KindsApart DEF NeverMet, Ended

\* While an import runs, the other imports and the restores are idle or ended, and no patch runs.
LEMMA Alone ==
  ASSUME Typed, Apart, NEW i \in Imports, pc[i] \notin Ended
  PROVE  /\ \A j \in Imports \ {i} : pc[j] \in {"idle", "ok"}
         /\ \A p \in Patches : pc[p] \in Ended
         /\ \A r \in Restores : pc[r] \in {"idle", "ok"}
<1>1. \A q \in (Imports \cup Restores) \ {i} : pc[q] \in Ended
  BY DEF Typed, OneAtATime, Running
<1>2. ASSUME NEW p \in Patches PROVE pc[p] \in Ended
  <2>1. Kind(p) = "patch" /\ Kind(i) = "import" /\ p \in Requests /\ i \in Requests
        /\ p \notin Exports /\ i \notin Exports
    BY KindOf, KindsApart
  <2> QED
    BY <2>1, OnRecord DEF Apart, Accounted, Overlaps, NoPatchBeside, NeverMet
<1> QED
  BY <1>1, <1>2, Kinds, KindsApart DEF Ended

\* While a patch runs, no import and no restore does.
LEMMA AloneWithPatch ==
  ASSUME Typed, Apart, NEW p \in Patches, pc[p] \notin Ended
  PROVE  /\ \A i \in Imports : pc[i] \in {"idle", "ok"}
         /\ \A r \in Restores : pc[r] \in {"idle", "ok"}
<1>1. \A i \in Imports : pc[i] \in Ended
  BY Alone
<1>2. \A r \in Restores : pc[r] \in Ended
  BY AloneWithRestore DEF Apart, NoPatchBeside, NeverMet
<1> QED
  BY <1>1, <1>2, Kinds, KindsApart DEF Ended

\* A patch that starts is on record beside an import or a restore, and they beside it.
LEMMA StartsAlone ==
  ASSUME NEW r \in Requests, Meets(r)
  PROVE  /\ r \in Imports /\ NeverMet({{"patch", "import"}})' => \A p \in Patches : pc[p] \in Ended
         /\ r \in Restores /\ NeverMet({{"patch", "restore"}})' => \A p \in Patches : pc[p] \in Ended
         /\ r \in Patches /\ NeverMet({{"patch", "import"}})' => \A i \in Imports : pc[i] \in Ended
         /\ r \in Patches /\ NeverMet({{"patch", "restore"}})' => \A q \in Restores : pc[q] \in Ended
<1>1. ASSUME NEW q \in Requests, q \notin Exports, pc[q] \notin Ended, {Kind(r), Kind(q)} \in Overlaps
      PROVE  {Kind(r), Kind(q)} \in met'
  BY <1>1 DEF Meets, Running
<1>2. \A p \in Patches, q \in Imports \cup Restores :
        p \in Requests /\ q \in Requests /\ p \notin Exports /\ q \notin Exports
  BY KindsApart
<1>3. {"patch", "import"} \in Overlaps /\ {"patch", "restore"} \in Overlaps
  BY DEF Overlaps
<1>4. /\ {"patch", "import"} = {"import", "patch"} /\ {"patch", "restore"} = {"restore", "patch"}
  OBVIOUS
<1>5. ASSUME r \in Imports, NEW p \in Patches, pc[p] \notin Ended PROVE {"patch", "import"} \in met'
  BY <1>1, <1>2, <1>3, <1>4, <1>5, KindOf
<1>6. ASSUME r \in Restores, NEW p \in Patches, pc[p] \notin Ended PROVE {"patch", "restore"} \in met'
  BY <1>1, <1>2, <1>3, <1>4, <1>6, KindOf
<1>7. ASSUME r \in Patches, NEW i \in Imports, pc[i] \notin Ended PROVE {"patch", "import"} \in met'
  BY <1>1, <1>2, <1>3, <1>7, KindOf
<1>8. ASSUME r \in Patches, NEW q \in Restores, pc[q] \notin Ended PROVE {"patch", "restore"} \in met'
  BY <1>1, <1>2, <1>3, <1>8, KindOf
<1> QED
  BY <1>5, <1>6, <1>7, <1>8 DEF NeverMet

\* What a running import or patch excludes, whatever has met.
LEMMA LockHeld ==
  ASSUME Typed, NEW i \in Imports, pc[i] \notin Ended
  PROVE  /\ \A j \in Imports \ {i} : pc[j] \in {"idle", "ok"}
         /\ \A r \in Restores : pc[r] \in {"idle", "ok"}
<1>1. \A q \in (Imports \cup Restores) \ {i} : pc[q] \in Ended
  BY DEF Typed, OneAtATime, Running
<1> QED
  BY <1>1, Kinds, KindsApart DEF Ended

----------------------------------------------------------------------------
(* What a restore has wiped, and what it will copy                         *)

Copying(r) ==
    pc[r] = "copy" => /\ pc[work[r].from] = "ok" /\ AcceptedSnapshot(snapshot[work[r].from])
                      /\ quiet[work[r].from] \/ "torn backup" \in past
Emptied(r) ==
    pc[r] = "copy" /\ NeverMet({{"patch", "restore"}}) =>
        Present(txn) = {} /\ \A f \in Files : file[f] = Absent
Restoring == \A r \in Restores : Copying(r) /\ Emptied(r)

\* What an export that has ended has read stays as it is.
LEMMA ReadStays ==
  ASSUME Typed, [Next]_vars, NEW e \in Exports, pc[e] = "ok"
  PROVE  pc'[e] = "ok" /\ snapshot'[e] = snapshot[e] /\ (quiet[e] => quiet'[e])
<1>1. CASE UNCHANGED vars
  BY <1>1 DEF vars, history
<1> SUFFICES ASSUME NEW r \in Requests, Step(r)
             PROVE  pc'[e] = "ok" /\ snapshot'[e] = snapshot[e] /\ (quiet[e] => quiet'[e])
  BY <1>1, NextIsStep
<1> e \in Requests
  BY KindsApart
<1>2. CASE \/ TagList(r) \/ TagCluster(r) \/ TagClusterAnew(r) \/ PatchQuery(r)
           \/ PatchRowsDone(r) \/ RebuildPut(r)
  <2>1. Others(r) /\ r \notin Exports /\ snapshot' = snapshot /\ quiet' = quiet
    BY <1>2, TagListEffect, TagClusterEffect, TagClusterAnewEffect, PatchQueryEffect,
       PatchRowsDoneEffect, RebuildPutEffect, KindsApart DEF history
  <2> QED
    BY <2>1 DEF Others
<1>6. CASE \/ MetricsList(r) \/ MetricsPut(r) \/ ImportInsert(r) \/ ImportRecord(r)
           \/ Fail(r) \/ RestoreCopy(r)
  <2>1. Others(r) /\ r \notin Exports /\ snapshot' = snapshot /\ quiet' = quiet
    BY <1>6, MetricsListEffect, MetricsPutEffect, ImportInsertEffect, ImportRecordEffect,
       FailEffect, RestoreCopyFrame, KindsApart DEF history
  <2> QED
    BY <2>1 DEF Others
<1>3. CASE PatchFile(r) \/ ImportPlan(r) \/ \E f \in Exports : RestoreWipe(r, f)
  <2>1. Others(r) /\ r \notin Exports /\ snapshot' = snapshot /\ (quiet[e] => quiet'[e])
    BY <1>3, PatchFileEffect, ImportPlanEffect, RestoreWipeEffect, KindsApart
  <2> QED
    BY <2>1 DEF Others
<1>4. CASE ExportClusters(r) \/ ExportFiles(r) \/ ExportTxns(r)
  <2>1. Others(r) /\ e # r /\ snapshot'[e] = snapshot[e] /\ quiet'[e] = quiet[e]
    BY <1>4, ExportClustersEffect, ExportFilesEffect, ExportTxnsEffect DEF history
  <2> QED
    BY <2>1 DEF Others
<1>5. CASE \/ \E t \in Txns : TagRow(r, t) \/ PatchRow(r, t) \/ ImportPatch(r, t)
           \/ \E c \in Clusters : RebuildRead(r, c) \/ ImportRetire(r, c)
  <2>1. Others(r) /\ r \notin Exports /\ snapshot' = snapshot /\ quiet' = quiet
    BY <1>5, TagRowEffect, PatchRowEffect, ImportPatchEffect, RebuildReadEffect,
       ImportRetireEffect, KindsApart DEF history
  <2> QED
    BY <2>1 DEF Others
<1> QED
  BY <1>2, <1>3, <1>4, <1>5, <1>6 DEF Step

\* A restore that is at its copy after a step was there before, or the step is its wipe.
LEMMA StillCopying ==
  ASSUME Typed, NEW q \in Requests, Step(q), NEW r \in Restores, pc'[r] = "copy"
  PROVE  IF q = r THEN \E e \in Exports : RestoreWipe(r, e)
         ELSE pc[r] = "copy" /\ work'[r] = work[r]
<1> r \in Requests
  BY KindsApart
<1>1. CASE \/ TagList(q) \/ TagCluster(q) \/ TagClusterAnew(q) \/ PatchFile(q) \/ PatchQuery(q)
           \/ PatchRowsDone(q) \/ RebuildPut(q)
  <2>1. Others(q) /\ q \notin Restores
    BY <1>1, TagListEffect, TagClusterEffect, TagClusterAnewEffect, PatchFileEffect,
       PatchQueryEffect, PatchRowsDoneEffect, RebuildPutEffect, KindsApart
  <2> QED
    BY <2>1 DEF Others
<1>2. CASE \/ ImportPlan(q) \/ ImportInsert(q) \/ ImportRecord(q) \/ Fail(q)
           \/ ExportClusters(q) \/ ExportFiles(q) \/ ExportTxns(q)
  <2>1. Others(q) /\ q \notin Restores
    BY <1>2, ImportPlanEffect, ImportInsertEffect, ImportRecordEffect, FailEffect,
       ExportClustersEffect, ExportFilesEffect, ExportTxnsEffect, KindsApart
  <2> QED
    BY <2>1 DEF Others
<1>3. CASE \/ \E t \in Txns : TagRow(q, t) \/ PatchRow(q, t) \/ ImportPatch(q, t)
           \/ \E c \in Clusters : RebuildRead(q, c) \/ ImportRetire(q, c)
  <2>1. Others(q) /\ q \notin Restores
    BY <1>3, TagRowEffect, PatchRowEffect, ImportPatchEffect, RebuildReadEffect,
       ImportRetireEffect, KindsApart
  <2> QED
    BY <2>1 DEF Others
<1>4. CASE MetricsList(q) \/ MetricsPut(q) \/ RestoreCopy(q)
  <2>1. Others(q) /\ pc'[q] # "copy"
    BY <1>4, MetricsListEffect, MetricsPutEffect, RestoreCopyFrame
  <2> QED
    BY <2>1 DEF Others
<1>5. CASE \E e \in Exports : RestoreWipe(q, e)
  <2>1. Others(q)
    BY <1>5, RestoreWipeEffect
  <2>2. CASE q = r
    BY <1>5, <2>2
  <2>3. CASE q # r
    BY <2>1, <2>3 DEF Others
  <2> QED
    BY <2>2, <2>3
<1> QED
  BY <1>1, <1>2, <1>3, <1>4, <1>5 DEF Step

\* Between the wipe and the copy only the members' fragments of tags are put.
LEMMA StaysEmpty ==
  ASSUME Typed, Accounted, NEW q \in Requests, Step(q), NEW r \in Restores, r # q, pc[r] = "copy",
         NeverMet({{"patch", "restore"}}), NeverMet({{"patch", "restore"}})',
         Present(txn) = {}, \A f \in Files : file[f] = Absent
  PROVE  Present(txn') = {} /\ \A f \in Files : file'[f] = Absent
<1>1. /\ \A i \in Imports : pc[i] \in {"idle", "ok"}
      /\ \A p \in Patches : pc[p] \in {"idle", "ok", "failed"}
      /\ \A s \in Restores \ {r} : pc[s] \in {"idle", "ok"}
  BY AloneWithRestore DEF Ended
<1>2. CASE \/ TagList(q) \/ TagCluster(q) \/ TagClusterAnew(q) \/ PatchQuery(q)
           \/ PatchRowsDone(q) \/ RebuildPut(q) \/ MetricsList(q) \/ MetricsPut(q) \/ Fail(q)
           \/ ImportPlan(q)
  <2>1. txn' = txn /\ file' = file
    BY <1>2, TagListEffect, TagClusterEffect, TagClusterAnewEffect, PatchQueryEffect,
       PatchRowsDoneEffect, RebuildPutEffect, MetricsListEffect, MetricsPutEffect, FailEffect,
       ImportPlanEffect DEF ledger
  <2> QED
    BY <2>1
<1>3. CASE PatchFile(q)
  <2>1. q \in Patches /\ Meets(q)
    BY <1>3, PatchFileEffect
  <2> QED
    BY <2>1, StartsAlone DEF Ended
<1>4. ~ImportInsert(q) /\ ~ImportRecord(q) /\ ~RestoreCopy(q)
  BY <1>1, ImportInsertEffect, ImportRecordEffect, RestoreCopyFrame
<1>5. CASE ExportClusters(q) \/ ExportFiles(q) \/ ExportTxns(q)
  BY <1>5, ExportClustersEffect, ExportFilesEffect, ExportTxnsEffect DEF ledger
<1>6. CASE \E t \in Txns : TagRow(q, t) \/ PatchRow(q, t) \/ ImportPatch(q, t)
  <2> PICK t \in Txns : TagRow(q, t) \/ PatchRow(q, t) \/ ImportPatch(q, t)
    BY <1>6
  <2>1. ~PatchRow(q, t) /\ ~ImportPatch(q, t)
    BY <1>1, PatchRowEffect, ImportPatchEffect
  <2> QED
    BY <2>1, TagRowEffect
<1>7. CASE \E c \in Clusters : RebuildRead(q, c) \/ ImportRetire(q, c)
  BY <1>7, RebuildReadEffect, ImportRetireEffect DEF ledger
<1>8. CASE \E e \in Exports : RestoreWipe(q, e)
  <2> PICK e \in Exports : RestoreWipe(q, e)
    BY <1>8
  <2> QED
    BY RestoreWipeEffect DEF Present
<1> QED
  BY <1>2, <1>3, <1>4, <1>5, <1>6, <1>7, <1>8 DEF Step

LEMMA RestoringNext ==
  ASSUME Typed, Accounted, Restoring, [Next]_vars
  PROVE  Restoring'
<1>1. CASE UNCHANGED vars
  <2>1. /\ txn' = txn /\ file' = file /\ pc' = pc /\ work' = work /\ snapshot' = snapshot
        /\ quiet' = quiet /\ met' = met /\ past' = past
    BY <1>1 DEF vars, ledger, history
  <2> QED
    BY <2>1 DEF Restoring, Copying, Emptied, NeverMet
<1> SUFFICES ASSUME NEW q \in Requests, Step(q), NEW r \in Restores, pc'[r] = "copy"
             PROVE  Copying(r)' /\ Emptied(r)'
  BY <1>1, NextIsStep DEF Restoring, Copying, Emptied
<1>2. CASE q = r
  <2>1. PICK e \in Exports : RestoreWipe(r, e)
    BY <1>2, StillCopying
  <2>2. /\ pc[e] = "ok" /\ work'[r].from = e /\ AcceptedSnapshot(snapshot[e])
        /\ \A t \in Txns : txn'[t] = Absent
        /\ \A f \in Files : file'[f] = Absent
        /\ past' = IF quiet[e] THEN past ELSE past \cup {"torn backup"}
    BY <1>2, <2>1, RestoreWipeEffect
  <2>3. pc'[e] = "ok" /\ snapshot'[e] = snapshot[e] /\ (quiet[e] => quiet'[e])
    BY <2>2, ReadStays
  <2> QED
    BY <2>2, <2>3 DEF Copying, Emptied, Present, AcceptedSnapshot
<1>3. CASE q # r
  <2> DEFINE e == work[r].from
  <2>1. pc[r] = "copy" /\ work'[r] = work[r] /\ Copying(r) /\ Emptied(r) /\ e \in Exports
    BY <1>3, StillCopying DEF Restoring, Typed, RestoreTyped
  <2>2. pc'[e] = "ok" /\ snapshot'[e] = snapshot[e] /\ (quiet[e] => quiet'[e])
    BY <2>1, ReadStays DEF Copying
  <2>3. Copying(r)'
    BY <2>1, <2>2, HistoryGrows DEF Copying, AcceptedSnapshot
  <2>4. Emptied(r)'
    BY <1>3, <2>1, NotBefore, StaysEmpty DEF Emptied
  <2> QED
    BY <2>3, <2>4
<1> QED
  BY <1>2, <1>3

----------------------------------------------------------------------------
(* Where the transactions are, and whether their rows are there, while no  *)
(* patch has run beside an import or a restore                             *)

Mint(i) == {Remint[i][c] : c \in OldClusters}

\* The clusters that import i will mint are in no row and in no request.
Unminted(i) ==
    /\ \A c \in Mint(i) : agg[c] = Absent
    /\ \A g \in Tags : pc[g] = "tag" => work[g].cluster \notin Mint(i)
Unplanned(i) ==
    /\ txn[NewRow[i]] = Absent
    /\ \A t \in Present(txn) : txn[t].cluster \notin Mint(i)
    /\ \A e \in Exports :
         /\ NewRow[i] \notin Ids(snapshot[e].txns)
         /\ FileOf[NewRow[i]] \notin Ids(snapshot[e].files)
         /\ Ids(snapshot[e].clusters) \cap Mint(i) = {}

Fresh(i) ==
    /\ pc[i] = "idle" => Unplanned(i)
    /\ pc[i] \in {"idle", "patch", "rebuild"} => Unminted(i)
    /\ pc[i] \in {"idle", "patch", "rebuild", "retire"} => file[FileOf[NewRow[i]]] = Absent

PatchPlaces(p) ==
    /\ pc[p] = "put rows" =>
         \A t \in work[p].todo : /\ t \in Present(txn) /\ FileOf[t] = work[p].file
                                 /\ work[p].rows[t].cluster = txn[t].cluster
    /\ pc[p] \in {"put rows", "rebuild"} =>
         /\ \A c \in work[p].clusters : Members(txn, c) # {}
         /\ \A c \in Clusters : work[p].aggs[c] # Absent => Members(txn, c) # {}

ImportPlaces(i) ==
    /\ pc[i] \in {"patch", "rebuild"} =>
         /\ work[i].clusters \subseteq Mint(i)
         /\ \A c \in Clusters : work[i].aggs[c] # Absent => c \in Mint(i)
    /\ pc[i] = "patch" =>
         /\ \A t \in Present(txn) \cup {NewRow[i]} : work[i].rows[t].cluster \in work[i].clusters
         /\ \A t \in Present(txn) : IF t \in work[i].todo THEN txn[t].cluster \in work[i].retire
                                    ELSE txn[t].cluster = work[i].rows[t].cluster
    /\ pc[i] = "rebuild" =>
         \A t \in Present(txn) : txn[t].cluster \in work[i].clusters
                                    \/ work[i].aggs[txn[t].cluster] # Absent
    /\ pc[i] = "retire" => \A t \in Present(txn) : txn[t].cluster \in Mint(i)
    /\ IF pc[i] \in {"patch", "rebuild", "retire"} THEN work[i].retire \subseteq OldClusters
       ELSE work[i].retire = {}
    /\ pc[i] \in {"rebuild", "retire"} => NewRow[i] \in Present(txn)

\* The CLUSTER and the FILE row of t are there, or an import has not put them yet.
Moved(i, t) == (pc[i] = "patch" /\ t \notin work[i].todo) \/ pc[i] = "rebuild"
Kept(t) ==
    /\ txn[t].cluster \in ClustersNow \/ \E i \in Imports : Moved(i, t)
    /\ file[FileOf[t]] # Absent \/ \E i \in Imports : pc[i] \in {"rebuild", "retire"} /\ t = NewRow[i]

WholeRows(r) == \A c \in Clusters : work[r].aggs[c] # Absent => work[r].aggs[c].whole

Reading(e) == quiet[e] /\ pc[e] \in {"files", "txns"}
WholeSnapshot(e) ==
    /\ OneEach(snapshot[e].clusters) /\ OneEach(snapshot[e].txns)
    /\ \A x \in snapshot[e].clusters : x.row.whole
    /\ Reading(e) =>
         /\ Running(Imports \cup Patches \cup Restores) = {}
         /\ \A t \in Present(txn) :
              /\ txn[t].cluster \in Ids(snapshot[e].clusters)
              /\ pc[e] = "txns" => FileOf[t] \in Ids(snapshot[e].files)
    /\ quiet[e] /\ pc[e] = "ok" => AcceptedSnapshot(snapshot[e])

Placed ==
    /\ \A i \in Imports : Fresh(i) /\ ImportPlaces(i)
    /\ \A p \in Patches : PatchPlaces(p)
    /\ \A r \in Requests : WholeRows(r)
    /\ \A t \in Present(txn) : Kept(t)
    /\ \A e \in Exports : WholeSnapshot(e)

SamePlaces ==
    /\ Present(txn') = Present(txn)
    /\ \A t \in Present(txn) : txn'[t].cluster = txn[t].cluster
SameClusters ==
    \A c \in Clusters : /\ agg'[c] = Absent <=> agg[c] = Absent
                        /\ agg[c] # Absent => agg'[c].whole = agg[c].whole
SameFiles == \A f \in Files : file'[f] = Absent <=> file[f] = Absent

LEMMA SameMembers ==
  ASSUME SamePlaces, NEW c
  PROVE  Members(txn', c) = Members(txn, c)
BY DEF SamePlaces, Members

LEMMA SameClustersNow ==
  ASSUME SameClusters
  PROVE  ClustersNow' = ClustersNow
BY DEF SameClusters, ClustersNow

LEMMA NoAggs ==
  \A c \in Clusters : NoWork.aggs[c] = Absent
BY DEF NoWork

LEMMA MintsApart ==
  ASSUME NEW i \in Imports
  PROVE  /\ Mint(i) \subseteq Clusters /\ Mint(i) \cap OldClusters = {}
         /\ \A j \in Imports \ {i} : Mint(i) \cap Mint(j) = {}
<1>1. Mint(i) \subseteq Clusters /\ Mint(i) \cap OldClusters = {}
  BY NewIds DEF Mint
<1>2. ASSUME NEW j \in Imports \ {i} PROVE Mint(i) \cap Mint(j) = {}
  <2>1. \A c, d \in OldClusters : Remint[i][c] # Remint[j][d]
    BY NewIds
  <2> QED
    BY <2>1 DEF Mint
<1> QED
  BY <1>1, <1>2

\* A step that moves no transaction and puts or deletes no item, of a request
\* that is no export.
LEMMA PlacedFrame ==
  ASSUME Typed, Placed, NEW r \in Requests, Others(r), r \notin Exports,
         SamePlaces, SameClusters, SameFiles, snapshot' = snapshot,
         \A e \in Exports : quiet'[e] => quiet[e],
         r \in Imports \cup Patches \cup Restores =>
            \/ pc[r] \notin Ended \/ pc'[r] \in Ended
            \/ \A e \in Exports : quiet'[e] => pc[e] = "ok",
         r \in Imports =>
            /\ Fresh(r)' /\ ImportPlaces(r)'
            /\ \A t \in Txns : Moved(r, t) => Moved(r, t)'
            /\ pc[r] \in {"rebuild", "retire"} => pc'[r] = pc[r],
         r \in Patches => PatchPlaces(r)',
         r \in Tags /\ pc'[r] = "tag" =>
            \/ agg[work'[r].cluster] # Absent \/ work'[r].cluster \in OldClusters
            \/ (pc[r] = "tag" /\ work'[r].cluster = work[r].cluster),
         WholeRows(r)'
  PROVE  Placed'
<1>1. ClustersNow' = ClustersNow
  BY SameClustersNow
<1>2. ASSUME NEW i \in Imports
      PROVE  Fresh(i)' /\ ImportPlaces(i)'
  <2>1. CASE i = r
    BY <2>1
  <2>2. CASE i # r
    <3>1. pc'[i] = pc[i] /\ work'[i] = work[i]
      BY <2>2, KindsApart DEF Others
    <3>2. /\ Mint(i) \subseteq Clusters /\ FileOf[NewRow[i]] \in Files /\ NewRow[i] \in Txns
          /\ Present(txn) \subseteq Txns
      BY MintsApart, NewIds, FilesOf DEF Present
    <3>3. Fresh(i) /\ ImportPlaces(i)
      BY DEF Placed
    <3>4. Unplanned(i) => Unplanned(i)'
      BY <3>2 DEF Unplanned, SamePlaces, Present
    <3>5. ASSUME Unminted(i) PROVE Unminted(i)'
      <4>1. \A c \in Mint(i) : agg'[c] = Absent
        BY <3>2, <3>5 DEF Unminted, SameClusters
      <4>2. ASSUME NEW g \in Tags, pc'[g] = "tag" PROVE work'[g].cluster \notin Mint(i)
        <5>1. CASE g = r
          BY <3>5, <4>2, <5>1, MintsApart DEF Unminted
        <5>2. CASE g # r
          <6>1. pc'[g] = pc[g] /\ work'[g] = work[g]
            BY <5>2, KindsApart DEF Others
          <6> QED
            BY <3>5, <4>2, <6>1 DEF Unminted
        <5> QED
          BY <5>1, <5>2
      <4> QED
        BY <4>1, <4>2 DEF Unminted
    <3>6. Fresh(i)'
      BY <3>1, <3>2, <3>3, <3>4, <3>5 DEF Fresh, SameFiles
    <3>7. ImportPlaces(i)'
      BY <3>1, <3>2, <3>3 DEF ImportPlaces, SamePlaces
    <3> QED
      BY <3>6, <3>7
  <2> QED
    BY <2>1, <2>2
<1>3. ASSUME NEW p \in Patches
      PROVE  PatchPlaces(p)'
  <2>1. CASE p = r
    BY <2>1
  <2>2. CASE p # r
    <3>1. pc'[p] = pc[p] /\ work'[p] = work[p]
      BY <2>2, KindsApart DEF Others
    <3>2. PatchPlaces(p)
      BY DEF Placed
    <3> QED
      BY <3>1, <3>2, SameMembers DEF PatchPlaces, SamePlaces
  <2> QED
    BY <2>1, <2>2
<1>4. ASSUME NEW q \in Requests PROVE WholeRows(q)'
  BY DEF Placed, WholeRows, Others
<1>5. ASSUME NEW t \in Present(txn') PROVE Kept(t)'
  <2>1. t \in Present(txn) /\ Kept(t) /\ txn'[t].cluster = txn[t].cluster /\ t \in Txns
    BY <1>5 DEF SamePlaces, Placed, Present
  <2>2. \A i \in Imports : /\ Moved(i, t) => Moved(i, t)'
                           /\ pc[i] \in {"rebuild", "retire"} => pc'[i] = pc[i]
    BY <2>1, KindsApart DEF Others, Moved
  <2>3. file[FileOf[t]] # Absent => file'[FileOf[t]] # Absent
    BY <2>1, FilesOf DEF SameFiles
  <2> QED
    BY <1>1, <2>1, <2>2, <2>3 DEF Kept
<1>6. ASSUME NEW e \in Exports PROVE WholeSnapshot(e)'
  <2>1. pc'[e] = pc[e]
    BY KindsApart DEF Others
  <2>2. Reading(e)' => Reading(e)
    BY <2>1 DEF Reading
  <2>3. Reading(e)' => Running(Imports \cup Patches \cup Restores)' = {}
    <3>1. Reading(e) => Running(Imports \cup Patches \cup Restores) = {}
      BY DEF Placed, WholeSnapshot
    <3>2. \A q \in Imports \cup Patches \cup Restores : q # r => pc'[q] = pc[q]
      BY KindsApart DEF Others
    <3>3. Reading(e)' => pc[e] # "ok" /\ quiet'[e]
      BY <2>1 DEF Reading
    <3> QED
      BY <2>2, <3>1, <3>2, <3>3 DEF Running
  <2>4. quiet'[e] => quiet[e]
    OBVIOUS
  <2>5. WholeSnapshot(e)
    BY DEF Placed
  <2> QED
    BY <2>1, <2>2, <2>3, <2>4, <2>5 DEF WholeSnapshot, SamePlaces
<1> QED
  BY <1>2, <1>3, <1>4, <1>5, <1>6 DEF Placed

LEMMA UnchangedIsSame ==
  /\ txn' = txn => SamePlaces
  /\ agg' = agg => SameClusters
  /\ file' = file => SameFiles
BY DEF SamePlaces, SameClusters, SameFiles

LEMMA PlacedTag ==
  ASSUME Typed, Placed, NEW r \in Requests, TagList(r) \/ \E t \in Txns : TagRow(r, t)
  PROVE  Placed'
<1>1. /\ Others(r) /\ r \in Tags /\ r \notin Exports /\ r \notin Imports /\ r \notin Patches /\ r \notin Restores
      /\ agg' = agg /\ file' = file /\ snapshot' = snapshot /\ quiet' = quiet
  BY TagListEffect, TagRowEffect, KindsApart DEF history
<1>2. SamePlaces
  <2>1. CASE TagList(r)
    BY <2>1, TagListEffect, UnchangedIsSame
  <2>2. CASE \E t \in Txns : TagRow(r, t)
    BY <2>2, TagRowEffect DEF SamePlaces, Present
  <2> QED
    BY <2>1, <2>2
<1>3. WholeRows(r)'
  <2>1. CASE TagList(r)
    BY <2>1, TagListEffect, NoAggs DEF WholeRows
  <2>2. CASE \E t \in Txns : TagRow(r, t)
    <3>1. work'[r].aggs = work[r].aggs
      BY <2>2, TagRowEffect
    <3> QED
      BY <3>1 DEF WholeRows, Placed
  <2> QED
    BY <2>1, <2>2
<1>4. \/ agg[work'[r].cluster] # Absent \/ work'[r].cluster \in OldClusters
      \/ (pc[r] = "tag" /\ work'[r].cluster = work[r].cluster)
  BY TagListEffect, TagRowEffect
<1> QED
  BY <1>1, <1>2, <1>3, <1>4, UnchangedIsSame, PlacedFrame

LEMMA PlacedPatch ==
  ASSUME Typed, Placed, NEW r \in Requests,
         PatchFile(r) \/ PatchQuery(r) \/ PatchRowsDone(r) \/ \E t \in Txns : PatchRow(r, t)
  PROVE  Placed'
<1>1. /\ Others(r) /\ r \in Patches /\ r \notin Exports /\ r \notin Imports /\ r \notin Tags
      /\ agg' = agg /\ snapshot' = snapshot /\ PatchPlaces(r) /\ WholeRows(r)
  BY PatchFileEffect, PatchQueryEffect, PatchRowsDoneEffect, PatchRowEffect, KindsApart
     DEF history, ledger, Placed
<1>2. CASE PatchFile(r)
  <2> DEFINE f == work'[r].file
  <2>0. /\ pc'[r] = "query" /\ work'[r].aggs = NoWork.aggs
        /\ f \in Files /\ file[f] # Absent
        /\ work'[r].currency \in Currencies /\ file'[f] = work'[r].currency
        /\ \A g \in Files \ {f} : file'[g] = file[g]
    BY <1>2, PatchFileEffect
  <2>1. SameFiles
    BY <2>0, AbsentIsNoRow DEF SameFiles
  <2>2. txn' = txn /\ \A e \in Exports : quiet'[e] => quiet[e] /\ pc[e] = "ok"
    BY <1>2, PatchFileEffect
  <2>3. PatchPlaces(r)' /\ WholeRows(r)'
    BY <2>0, NoAggs DEF PatchPlaces, WholeRows
  <2> QED
    BY <1>1, <2>1, <2>2, <2>3, UnchangedIsSame, PlacedFrame
<1>3. CASE PatchQuery(r)
  <2>1. pc[r] = "query" /\ UNCHANGED <<ledger, snapshot, history>>
    BY <1>3, PatchQueryEffect
  <2>2. PatchTyped(r)
    BY <1>1 DEF Typed
  <2>3. work'[r].aggs = NoWork.aggs
    BY <1>3, <2>1, <2>2, PatchQueryEffect DEF PatchTyped
  <2>4. /\ pc'[r] = "put rows" /\ txn' = txn
        /\ \A t \in work'[r].todo : /\ t \in Present(txn) /\ FileOf[t] = work'[r].file
                                    /\ work'[r].rows[t].cluster = txn[t].cluster
        /\ work'[r].clusters = {txn[t].cluster : t \in work'[r].todo}
    <3>1. /\ work'[r].todo = {t \in Present(txn) : FileOf[t] = work[r].file}
          /\ work'[r].file = work[r].file
      BY <1>3, PatchQueryEffect
    <3>2. /\ pc'[r] = "put rows"
          /\ \A t \in work'[r].todo : work'[r].rows[t].cluster = txn[t].cluster
          /\ work'[r].clusters = {txn[t].cluster : t \in work'[r].todo}
      BY <1>3, PatchQueryEffect
    <3> QED
      BY <2>1, <3>1, <3>2 DEF ledger
  <2>5. PatchPlaces(r)'
    BY <2>3, <2>4, NoAggs DEF PatchPlaces, Members
  <2> QED
    BY <1>1, <2>1, <2>3, <2>5, NoAggs, UnchangedIsSame, PlacedFrame
       DEF ledger, history, WholeRows, Ended
<1>4. CASE PatchRowsDone(r)
  <2>1. /\ pc[r] = "put rows" /\ pc'[r] = "rebuild" /\ work' = work
        /\ UNCHANGED <<ledger, snapshot, history>>
    BY <1>4, PatchRowsDoneEffect
  <2>2. PatchPlaces(r)' /\ WholeRows(r)'
    BY <1>1, <2>1 DEF PatchPlaces, WholeRows, ledger
  <2> QED
    BY <1>1, <2>1, <2>2, UnchangedIsSame, PlacedFrame DEF ledger, history, Ended
<1>5. CASE \E t \in Txns : PatchRow(r, t)
  <2> PICK t \in Txns : PatchRow(r, t)
    BY <1>5
  <2>1. /\ pc[r] = "put rows" /\ pc'[r] = "put rows" /\ t \in work[r].todo
        /\ txn'[t] = work[r].rows[t] /\ txn'[t] # Absent
        /\ \A u \in Txns \ {t} : txn'[u] = txn[u]
        /\ work'[r].todo = work[r].todo \ {t} /\ work'[r].rows = work[r].rows
        /\ work'[r].file = work[r].file
        /\ work'[r].clusters = work[r].clusters /\ work'[r].aggs = work[r].aggs
        /\ file' = file /\ UNCHANGED <<snapshot, history>>
    BY PatchRowEffect
  <2>2. SamePlaces
    <3>1. t \in Present(txn) /\ work[r].rows[t].cluster = txn[t].cluster
      BY <1>1, <2>1 DEF PatchPlaces
    <3> QED
      BY <2>1, <3>1 DEF SamePlaces, Present
  <2>3. work[r].todo \subseteq Present(txn)
    BY <1>1, <2>1 DEF PatchPlaces
  <2>4. PatchPlaces(r)' /\ WholeRows(r)'
    <3>1. \A c \in Clusters : Members(txn', c) = Members(txn, c)
      BY <2>2, SameMembers
    <3>2. \A c \in work[r].clusters : c \in Clusters
      BY <1>1, KindsApart DEF Typed, Work
    <3>3. \A u \in Present(txn) : txn'[u].cluster = txn[u].cluster
      BY <2>2 DEF SamePlaces
    <3>4. \A u \in work'[r].todo : /\ u \in Present(txn') /\ FileOf[u] = work'[r].file
                                   /\ work'[r].rows[u].cluster = txn'[u].cluster
      <4> SUFFICES ASSUME NEW u \in work[r].todo
                   PROVE  /\ u \in Present(txn') /\ FileOf[u] = work[r].file
                          /\ work[r].rows[u].cluster = txn'[u].cluster
        BY <2>1
      <4>1. u \in Present(txn) /\ FileOf[u] = work[r].file /\ work[r].rows[u].cluster = txn[u].cluster
        BY <1>1, <2>1 DEF PatchPlaces
      <4> QED
        BY <2>2, <3>3, <4>1 DEF SamePlaces
    <3>5. /\ \A c \in work'[r].clusters : Members(txn', c) # {}
          /\ \A c \in Clusters : work'[r].aggs[c] # Absent => Members(txn', c) # {}
      BY <1>1, <2>1, <3>1, <3>2 DEF PatchPlaces
    <3> QED
      BY <1>1, <2>1, <3>4, <3>5 DEF PatchPlaces, WholeRows
  <2> QED
    BY <1>1, <2>1, <2>2, <2>4, UnchangedIsSame, PlacedFrame DEF history, Ended
<1> QED
  BY <1>2, <1>3, <1>4, <1>5

LEMMA PlacedRebuildRead ==
  ASSUME Typed, Apart, Placed, NEW r \in Requests, NEW c \in Clusters, RebuildRead(r, c)
  PROVE  Placed'
<1>1. /\ Others(r) /\ r \in Patches \cup Imports /\ r \notin Exports /\ r \notin Tags
      /\ pc[r] = "rebuild" /\ pc'[r] = "rebuild" /\ c \in work[r].clusters
      /\ work'[r].clusters = work[r].clusters \ {c}
      /\ work'[r].aggs[c] = Aggregate(txn, c)
      /\ \A d \in Clusters \ {c} : work'[r].aggs[d] = work[r].aggs[d]
      /\ work'[r].retire = work[r].retire
      /\ UNCHANGED <<ledger, snapshot, history>>
  BY RebuildReadEffect, KindsApart
<1>2. Aggregate(txn, c) # Absent /\ Aggregate(txn, c).whole
  BY AggregateTyped, AbsentIsNoRow
<1>3. WholeRows(r)'
  BY <1>1, <1>2 DEF WholeRows, Placed
<1>4. r \in Patches => PatchPlaces(r)'
  BY <1>1 DEF PatchPlaces, Placed, ledger
<1>5. r \in Imports => ImportPlaces(r)'
  <2> SUFFICES ASSUME r \in Imports PROVE ImportPlaces(r)'
    OBVIOUS
  <2>1. ImportPlaces(r) /\ txn' = txn
    BY <1>1 DEF Placed, ledger
  <2>2. \A t \in Present(txn) : txn[t].cluster \in Clusters
    BY RowFields
  <2> QED
    BY <1>1, <1>2, <2>1, <2>2 DEF ImportPlaces
<1>6. r \in Imports => Fresh(r)'
  <2> SUFFICES ASSUME r \in Imports PROVE Fresh(r)'
    OBVIOUS
  <2>1. Fresh(r) /\ agg' = agg /\ file' = file
    BY <1>1 DEF Placed, ledger
  <2>2. \A g \in Tags : pc'[g] = pc[g] /\ work'[g] = work[g]
    BY <1>1, KindsApart DEF Others
  <2> QED
    BY <1>1, <2>1, <2>2 DEF Fresh, Unminted
<1>7. \A t \in Txns : Moved(r, t) => Moved(r, t)'
  BY <1>1 DEF Moved
<1> QED
  BY <1>1, <1>3, <1>4, <1>5, <1>6, <1>7, UnchangedIsSame, PlacedFrame DEF ledger, history, Ended

LEMMA PlacedMetricsOrFail ==
  ASSUME Typed, Placed, NEW r \in Requests, MetricsList(r) \/ MetricsPut(r) \/ Fail(r)
  PROVE  Placed'
<1>1. /\ Others(r) /\ r \in Tags \cup Imports \cup Patches \cup Restores /\ r \notin Exports
      /\ txn' = txn /\ agg' = agg /\ file' = file /\ snapshot' = snapshot /\ quiet' = quiet
      /\ pc[r] \notin Ended
  BY MetricsListEffect, MetricsPutEffect, FailEffect, KindsApart DEF ledger, history, Ended
<1>2. pc'[r] \in {"metrics put", "ok", "failed"}
  BY MetricsListEffect, MetricsPutEffect, FailEffect
<1>3. WholeRows(r)'
  <2>1. work'[r].aggs = work[r].aggs \/ work'[r].aggs = NoWork.aggs
    BY MetricsListEffect, MetricsPutEffect, FailEffect
  <2> QED
    BY <2>1, NoAggs DEF WholeRows, Placed
<1>4. r \in Imports => /\ Fresh(r)' /\ ImportPlaces(r)' /\ pc[r] \in {"metrics", "metrics put"}
  <2> SUFFICES ASSUME r \in Imports
               PROVE  Fresh(r)' /\ ImportPlaces(r)' /\ pc[r] \in {"metrics", "metrics put"}
    OBVIOUS
  <2>1. pc[r] \in {"metrics", "metrics put"}
    BY MetricsListEffect, MetricsPutEffect, FailEffect, KindsApart
  <2>2. ImportPlaces(r)
    BY DEF Placed
  <2>3. work'[r].retire = {}
    <3>1. work[r].retire = {}
      BY <2>1, <2>2 DEF ImportPlaces
    <3>2. ~Fail(r)
      BY FailEffect, KindsApart
    <3>3. work'[r].retire = work[r].retire \/ work'[r].retire = NoWork.retire
      BY <3>2, MetricsListEffect, MetricsPutEffect
    <3>4. NoWork.retire = {}
      BY DEF NoWork
    <3> QED
      BY <3>1, <3>3, <3>4
  <2> QED
    BY <1>2, <2>1, <2>3 DEF Fresh, ImportPlaces
<1>5. r \in Patches => PatchPlaces(r)'
  BY <1>2 DEF PatchPlaces
<1>6. r \in Imports => \A t \in Txns : ~Moved(r, t)
  BY <1>4 DEF Moved
<1> QED
  BY <1>1, <1>2, <1>3, <1>4, <1>5, <1>6, UnchangedIsSame, PlacedFrame

LEMMA PlacedImportPlan ==
  ASSUME Typed, Placed, NEW i \in Requests, ImportPlan(i)
  PROVE  Placed'
<1>1. /\ Others(i) /\ i \in Imports /\ i \notin Exports /\ i \notin Tags /\ i \notin Patches
      /\ pc[i] = "idle" /\ pc'[i] = "patch"
      /\ \A t \in Present(txn) : txn[t].cluster \in OldClusters
      /\ work'[i].todo = Present(txn) /\ work'[i].retire = {txn[t].cluster : t \in Present(txn)}
      /\ work'[i].clusters \subseteq Mint(i)
      /\ \A t \in Present(txn) \cup {NewRow[i]} : work'[i].rows[t].cluster \in work'[i].clusters
      /\ work'[i].aggs = NoWork.aggs
      /\ \A e \in Exports : quiet'[e] => quiet[e] /\ pc[e] = "ok"
      /\ txn' = txn /\ agg' = agg /\ file' = file /\ snapshot' = snapshot
  BY ImportPlanEffect, KindsApart DEF ledger, Mint
<1>2. Fresh(i)
  BY <1>1 DEF Placed
<1>3. Fresh(i)'
  <2>1. \A g \in Tags : pc'[g] = pc[g] /\ work'[g] = work[g]
    BY <1>1, KindsApart DEF Others
  <2> QED
    BY <1>1, <1>2, <2>1 DEF Fresh, Unminted
<1>4. ImportPlaces(i)'
  BY <1>1, NoAggs DEF ImportPlaces
<1>5. WholeRows(i)' /\ \A t \in Txns : ~Moved(i, t)
  BY <1>1, NoAggs DEF WholeRows, Moved
<1> QED
  BY <1>1, <1>3, <1>4, <1>5, UnchangedIsSame, PlacedFrame

\* A step that moves no transaction and puts or deletes CLUSTER or FILE rows.
LEMMA PlacedPut ==
  ASSUME Typed, Placed, NEW r \in Requests, Others(r), r \notin Exports, pc[r] \notin Ended,
         txn' = txn, snapshot' = snapshot, quiet' = quiet, pc'[r] # "tag",
         \A i \in Imports \ {r} :
            /\ pc[i] \in {"idle", "patch", "rebuild"} => \A c \in Mint(i) : agg'[c] = Absent
            /\ pc[i] \in {"idle", "patch", "rebuild", "retire"} => file'[FileOf[NewRow[i]]] = Absent,
         r \in Imports => Fresh(r)' /\ ImportPlaces(r)',
         r \in Patches => PatchPlaces(r)',
         WholeRows(r)',
         \A t \in Present(txn) : Kept(t)'
  PROVE  Placed'
<1>1. ASSUME NEW i \in Imports
      PROVE  Fresh(i)' /\ ImportPlaces(i)'
  <2>1. CASE i = r
    BY <2>1
  <2>2. CASE i # r
    <3>1. pc'[i] = pc[i] /\ work'[i] = work[i]
      BY <2>2, KindsApart DEF Others
    <3>2. Fresh(i) /\ ImportPlaces(i)
      BY DEF Placed
    <3>3. Unplanned(i) => Unplanned(i)'
      BY DEF Unplanned
    <3>4. \A g \in Tags : pc'[g] = "tag" => pc[g] = "tag" /\ work'[g] = work[g]
      BY KindsApart DEF Others
    <3>5. Fresh(i)'
      BY <2>2, <3>1, <3>2, <3>3, <3>4 DEF Fresh, Unminted
    <3>6. ImportPlaces(i)'
      BY <3>1, <3>2 DEF ImportPlaces
    <3> QED
      BY <3>5, <3>6
  <2> QED
    BY <2>1, <2>2
<1>2. ASSUME NEW p \in Patches PROVE PatchPlaces(p)'
  <2>1. p # r => PatchPlaces(p) /\ pc'[p] = pc[p] /\ work'[p] = work[p]
    BY KindsApart DEF Placed, Others
  <2>2. \A c : Members(txn', c) = Members(txn, c)
    OBVIOUS
  <2> QED
    BY <2>1, <2>2 DEF PatchPlaces
<1>3. ASSUME NEW q \in Requests PROVE WholeRows(q)'
  BY DEF Placed, WholeRows, Others
<1>4. ASSUME NEW e \in Exports PROVE WholeSnapshot(e)'
  <2>1. pc'[e] = pc[e] /\ WholeSnapshot(e)
    BY KindsApart DEF Others, Placed
  <2>2. Running(Imports \cup Patches \cup Restores) = {} => Running(Imports \cup Patches \cup Restores)' = {}
    BY KindsApart DEF Running, Others
  <2> QED
    BY <2>1, <2>2 DEF WholeSnapshot, Reading
<1> QED
  BY <1>1, <1>2, <1>3, <1>4 DEF Placed

LEMMA PlacedTagCluster ==
  ASSUME Typed, Placed, NEW r \in Requests, TagCluster(r) \/ TagClusterAnew(r)
  PROVE  Placed'
<1> DEFINE c == work[r].cluster
<1>1. /\ Others(r) /\ r \in Tags /\ r \notin Exports /\ r \notin Imports /\ r \notin Patches
      /\ pc[r] = "tag" /\ pc'[r] = "metrics" /\ work' = work /\ c \in Clusters
      /\ \A d \in Clusters \ {c} : agg'[d] = agg[d]
      /\ agg[c] # Absent => agg'[c] # Absent /\ (agg[c].whole => agg'[c].whole)
      /\ txn' = txn /\ file' = file /\ snapshot' = snapshot /\ quiet' = quiet
  BY TagClusterEffect, TagClusterAnewEffect, KindsApart DEF history
<1>2. ClustersNow \subseteq ClustersNow'
  BY <1>1 DEF ClustersNow
<1>3. ASSUME NEW i \in Imports, Unminted(i) PROVE \A d \in Mint(i) : agg'[d] = Absent
  <2>1. c \notin Mint(i) /\ Mint(i) \subseteq Clusters
    BY <1>1, <1>3, MintsApart DEF Unminted
  <2> QED
    BY <1>1, <1>3, <2>1 DEF Unminted
<1>4. \A i \in Imports \ {r} :
        /\ pc[i] \in {"idle", "patch", "rebuild"} => \A d \in Mint(i) : agg'[d] = Absent
        /\ pc[i] \in {"idle", "patch", "rebuild", "retire"} => file'[FileOf[NewRow[i]]] = Absent
  BY <1>1, <1>3 DEF Placed, Fresh
<1>5. \A i \in Imports : pc'[i] = pc[i]
  BY <1>1, KindsApart DEF Others
<1>6. ASSUME NEW t \in Present(txn) PROVE Kept(t)'
  <2>1. Kept(t)
    BY DEF Placed
  <2>2. \A i \in Imports : Moved(i, t) => Moved(i, t)'
    BY <1>1, <1>5 DEF Moved
  <2> QED
    BY <1>1, <1>2, <1>5, <2>1, <2>2 DEF Kept
<1>7. WholeRows(r)'
  BY <1>1 DEF WholeRows, Placed
<1> QED
  BY <1>1, <1>4, <1>6, <1>7, PlacedPut DEF Ended

LEMMA PlacedRebuildPutOfPatch ==
  ASSUME Typed, Apart, Placed, NEW r \in Patches, RebuildPut(r)
  PROVE  Placed'
<1>1. /\ r \in Requests /\ Others(r) /\ r \notin Exports /\ r \notin Imports
      /\ pc[r] = "rebuild" /\ pc'[r] = "ok"
      /\ work'[r].aggs = NoWork.aggs
      /\ \A c \in Clusters : agg'[c] = IF work[r].aggs[c] # Absent THEN work[r].aggs[c] ELSE agg[c]
      /\ txn' = txn /\ file' = file /\ snapshot' = snapshot /\ quiet' = quiet
  BY RebuildPutEffect, KindsApart DEF history
<1>2. \A i \in Imports : pc[i] \in {"idle", "ok"}
  BY <1>1, AloneWithPatch DEF Ended
<1>3. PatchPlaces(r) /\ WholeRows(r)
  BY <1>1 DEF Placed
<1>4. ASSUME NEW i \in Imports, pc[i] = "idle", NEW c \in Mint(i)
      PROVE  agg'[c] = Absent
  <2>1. c \in Clusters /\ agg[c] = Absent /\ Unplanned(i)
    BY <1>4, MintsApart DEF Placed, Fresh, Unminted
  <2>2. Members(txn, c) = {}
    BY <2>1 DEF Unplanned, Members
  <2>3. work[r].aggs[c] = Absent
    BY <1>1, <1>3, <2>1, <2>2 DEF PatchPlaces
  <2> QED
    BY <1>1, <2>1, <2>3
<1>5. \A i \in Imports \ {r} :
        /\ pc[i] \in {"idle", "patch", "rebuild"} => \A d \in Mint(i) : agg'[d] = Absent
        /\ pc[i] \in {"idle", "patch", "rebuild", "retire"} => file'[FileOf[NewRow[i]]] = Absent
  BY <1>1, <1>2, <1>4 DEF Placed, Fresh
<1>6. ASSUME NEW t \in Present(txn) PROVE Kept(t)'
  <2>1. txn[t].cluster \in ClustersNow /\ file[FileOf[t]] # Absent
    BY <1>2 DEF Placed, Kept, Moved
  <2>2. txn[t].cluster \in ClustersNow'
    BY <1>1, <1>3, <2>1 DEF ClustersNow, WholeRows
  <2> QED
    BY <1>1, <2>1, <2>2 DEF Kept
<1>7. WholeRows(r)' /\ PatchPlaces(r)'
  BY <1>1, NoAggs DEF WholeRows, PatchPlaces
<1> QED
  BY <1>1, <1>5, <1>6, <1>7, PlacedPut DEF Ended

LEMMA PlacedRebuildPutOfImport ==
  ASSUME Typed, Apart, Placed, NEW i \in Imports, RebuildPut(i)
  PROVE  Placed'
<1>1. /\ i \in Requests /\ Others(i) /\ i \notin Exports /\ i \notin Patches
      /\ pc[i] = "rebuild" /\ pc'[i] = "retire" /\ work[i].clusters = {} /\ work'[i] = work[i]
      /\ \A c \in Clusters : agg'[c] = IF work[i].aggs[c] # Absent THEN work[i].aggs[c] ELSE agg[c]
      /\ txn' = txn /\ file' = file /\ snapshot' = snapshot /\ quiet' = quiet
  BY RebuildPutEffect, KindsApart DEF history
<1>2. ImportPlaces(i) /\ WholeRows(i) /\ Fresh(i)
  BY <1>1 DEF Placed
<1>3. \A j \in Imports \ {i} : pc[j] \in {"idle", "ok"}
  BY <1>1, Alone DEF Ended
<1>4. ASSUME NEW j \in Imports \ {i}, pc[j] = "idle", NEW c \in Mint(j)
      PROVE  agg'[c] = Absent
  <2>1. c \in Clusters /\ agg[c] = Absent /\ c \notin Mint(i)
    BY <1>4, MintsApart DEF Placed, Fresh, Unminted
  <2>2. work[i].aggs[c] = Absent
    BY <1>1, <1>2, <2>1 DEF ImportPlaces
  <2> QED
    BY <1>1, <2>1, <2>2
<1>5. \A j \in Imports \ {i} :
        /\ pc[j] \in {"idle", "patch", "rebuild"} => \A d \in Mint(j) : agg'[d] = Absent
        /\ pc[j] \in {"idle", "patch", "rebuild", "retire"} => file'[FileOf[NewRow[j]]] = Absent
  BY <1>1, <1>3, <1>4 DEF Placed, Fresh
<1>6. ASSUME NEW t \in Present(txn)
      PROVE  txn[t].cluster \in Clusters /\ txn[t].cluster \in Mint(i) /\ work[i].aggs[txn[t].cluster] # Absent
  BY <1>1, <1>2, RowFields DEF ImportPlaces
<1>7. ASSUME NEW t \in Present(txn) PROVE Kept(t)'
  <2>1. txn[t].cluster \in ClustersNow'
    BY <1>1, <1>2, <1>6 DEF ClustersNow, WholeRows
  <2>2. file[FileOf[t]] # Absent \/ t = NewRow[i]
    BY <1>3 DEF Placed, Kept
  <2> QED
    BY <1>1, <2>1, <2>2 DEF Kept
<1>8. ImportPlaces(i)'
  BY <1>1, <1>2, <1>6 DEF ImportPlaces
<1>9. Fresh(i)' /\ WholeRows(i)'
  BY <1>1, <1>2 DEF Fresh, WholeRows
<1> QED
  BY <1>1, <1>5, <1>7, <1>8, <1>9, PlacedPut DEF Ended

LEMMA PlacedImportRetire ==
  ASSUME Typed, Apart, Placed, NEW i \in Requests, NEW c \in Clusters, ImportRetire(i, c)
  PROVE  Placed'
<1>1. /\ Others(i) /\ i \in Imports /\ i \notin Exports /\ i \notin Patches
      /\ pc[i] = "retire" /\ pc'[i] = "retire" /\ c \in work[i].retire
      /\ agg'[c] = Absent /\ \A d \in Clusters \ {c} : agg'[d] = agg[d]
      /\ work'[i].retire = work[i].retire \ {c} /\ work'[i].aggs = work[i].aggs
      /\ txn' = txn /\ file' = file /\ snapshot' = snapshot /\ quiet' = quiet
  BY ImportRetireEffect, KindsApart DEF history
<1>2. ImportPlaces(i) /\ WholeRows(i) /\ Fresh(i)
  BY <1>1 DEF Placed
<1>3. \A j \in Imports \ {i} : pc[j] \in {"idle", "ok"}
  BY <1>1, Alone DEF Ended
<1>4. \A j \in Imports \ {i} :
        /\ pc[j] \in {"idle", "patch", "rebuild"} => \A d \in Mint(j) : agg'[d] = Absent
        /\ pc[j] \in {"idle", "patch", "rebuild", "retire"} => file'[FileOf[NewRow[j]]] = Absent
  BY <1>1, MintsApart DEF Placed, Fresh, Unminted
<1>5. ASSUME NEW t \in Present(txn) PROVE Kept(t)'
  <2>1. txn[t].cluster # c
    BY <1>1, <1>2, MintsApart DEF ImportPlaces
  <2>2. txn[t].cluster \in ClustersNow /\ (file[FileOf[t]] # Absent \/ t = NewRow[i])
    BY <1>1, <1>3 DEF Placed, Kept, Moved
  <2>3. txn[t].cluster \in ClustersNow'
    BY <1>1, <2>1, <2>2 DEF ClustersNow
  <2> QED
    BY <1>1, <2>2, <2>3 DEF Kept
<1>6. ImportPlaces(i)' /\ Fresh(i)' /\ WholeRows(i)'
  BY <1>1, <1>2 DEF ImportPlaces, Fresh, WholeRows
<1> QED
  BY <1>1, <1>4, <1>5, <1>6, PlacedPut DEF Ended

LEMMA PlacedImportRecord ==
  ASSUME Typed, Apart, Placed, NEW i \in Requests, ImportRecord(i)
  PROVE  Placed'
<1> DEFINE f == FileOf[NewRow[i]]
<1>1. /\ Others(i) /\ i \in Imports /\ i \notin Exports /\ i \notin Patches
      /\ pc[i] = "retire" /\ pc'[i] = "metrics" /\ work[i].retire = {} /\ work' = work
      /\ file'[f] = FirstCurrency /\ \A g \in Files \ {f} : file'[g] = file[g]
      /\ txn' = txn /\ agg' = agg /\ snapshot' = snapshot /\ quiet' = quiet
  BY ImportRecordEffect, KindsApart DEF history
<1>2. WholeRows(i)
  BY <1>1 DEF Placed
<1>3. \A j \in Imports \ {i} : pc[j] \in {"idle", "ok"}
  BY <1>1, Alone DEF Ended
<1>4. \A j \in Imports \ {i} :
        /\ pc[j] \in {"idle", "patch", "rebuild"} => \A d \in Mint(j) : agg'[d] = Absent
        /\ pc[j] \in {"idle", "patch", "rebuild", "retire"} => file'[FileOf[NewRow[j]]] = Absent
  <2>1. \A j \in Imports \ {i} : FileOf[NewRow[j]] \in Files \ {f}
    BY <1>1, NewIds, FilesOf
  <2> QED
    BY <1>1, <2>1 DEF Placed, Fresh, Unminted
<1>5. ASSUME NEW t \in Present(txn) PROVE Kept(t)'
  <2>1. txn[t].cluster \in ClustersNow /\ (file[FileOf[t]] # Absent \/ t = NewRow[i])
    BY <1>1, <1>3 DEF Placed, Kept, Moved
  <2>2. FileOf[t] \in Files
    BY RowFields, FilesOf
  <2>3. file'[FileOf[t]] # Absent
    BY <1>1, <2>1, <2>2, AbsentIsNoRow
  <2> QED
    BY <1>1, <2>1, <2>3 DEF Kept, ClustersNow
<1>6. ImportPlaces(i)' /\ Fresh(i)' /\ WholeRows(i)'
  BY <1>1, <1>2 DEF ImportPlaces, Fresh, WholeRows
<1> QED
  BY <1>1, <1>4, <1>5, <1>6, PlacedPut DEF Ended

LEMMA PlacedImportPatch ==
  ASSUME Typed, Apart, Placed, NEW i \in Requests, NEW t \in Txns, ImportPatch(i, t)
  PROVE  Placed'
<1>1. /\ Others(i) /\ i \in Imports /\ i \notin Exports /\ i \notin Patches /\ i \notin Tags
      /\ pc[i] = "patch" /\ pc'[i] = "patch" /\ t \in Present(txn) /\ t \in work[i].todo
      /\ \A u \in Txns \ {t} : txn'[u] = txn[u]
      /\ txn'[t] # Absent /\ txn'[t].cluster = work[i].rows[t].cluster
      /\ work'[i].todo = work[i].todo \ {t} /\ work'[i].rows = work[i].rows
      /\ work'[i].clusters = work[i].clusters /\ work'[i].retire = work[i].retire
      /\ work'[i].aggs = work[i].aggs
      /\ agg' = agg /\ file' = file /\ snapshot' = snapshot /\ quiet' = quiet
  BY ImportPatchEffect, KindsApart DEF history
<1>2. ImportPlaces(i) /\ WholeRows(i) /\ Fresh(i)
  BY <1>1 DEF Placed
<1>3. /\ \A j \in Imports \ {i} : pc[j] \in {"idle", "ok"}
      /\ \A p \in Patches : pc[p] \in Ended
  BY <1>1, Alone DEF Ended
<1>4. /\ \A q \in Tags \cup Patches \cup Exports \cup (Imports \ {i}) :
           pc'[q] = pc[q] /\ work'[q] = work[q]
  BY <1>1, KindsApart DEF Others
<1>5. Present(txn') = Present(txn) /\ Present(txn) \subseteq Txns
  BY <1>1 DEF Present
<1>6. txn'[t].cluster \in Mint(i)
  BY <1>1, <1>2 DEF ImportPlaces
<1>7. ASSUME NEW j \in Imports PROVE Fresh(j)' /\ ImportPlaces(j)'
  <2>1. Unminted(j) => Unminted(j)'
    BY <1>1, <1>4 DEF Unminted
  <2>2. CASE j = i
    <3>1. Fresh(i)'
      BY <1>1, <1>2, <2>1, <2>2 DEF Fresh
    <3>2. ImportPlaces(i)'
      <4>1. \A u \in Present(txn') : IF u \in work'[i].todo THEN txn'[u].cluster \in work'[i].retire
                                     ELSE txn'[u].cluster = work'[i].rows[u].cluster
        BY <1>1, <1>2, <1>5 DEF ImportPlaces
      <4> QED
        BY <1>1, <1>2, <1>5, <4>1 DEF ImportPlaces
    <3> QED
      BY <2>2, <3>1, <3>2
  <2>3. CASE j # i
    <3>1. pc'[j] = pc[j] /\ work'[j] = work[j] /\ pc[j] \in {"idle", "ok"}
      BY <1>3, <1>4, <2>3
    <3>2. Fresh(j) /\ ImportPlaces(j)
      BY DEF Placed
    <3>3. ASSUME Unplanned(j) PROVE Unplanned(j)'
      <4>1. txn'[t].cluster \notin Mint(j)
        BY <1>1, <1>6, <2>3, MintsApart
      <4>2. NewRow[j] \in Txns /\ NewRow[j] # t
        BY <1>1, <3>3, NewIds DEF Unplanned, Present
      <4>3. \A u \in Present(txn') : txn'[u].cluster \notin Mint(j)
        BY <1>1, <1>5, <3>3, <4>1 DEF Unplanned
      <4> QED
        BY <1>1, <3>3, <4>2, <4>3 DEF Unplanned
    <3>4. Fresh(j)'
      BY <1>1, <2>1, <3>1, <3>2, <3>3 DEF Fresh
    <3>5. ImportPlaces(j)'
      BY <3>1, <3>2 DEF ImportPlaces
    <3> QED
      BY <3>4, <3>5
  <2> QED
    BY <2>2, <2>3
<1>8. ASSUME NEW p \in Patches PROVE PatchPlaces(p)'
  BY <1>3, <1>4 DEF PatchPlaces, Ended
<1>9. ASSUME NEW q \in Requests PROVE WholeRows(q)'
  BY <1>1 DEF Placed, WholeRows, Others
<1>10. ASSUME NEW u \in Present(txn') PROVE Kept(u)'
  <2>1. u \in Present(txn) /\ Kept(u)
    BY <1>5 DEF Placed
  <2>2. file'[FileOf[u]] # Absent \/ \E j \in Imports : pc'[j] \in {"rebuild", "retire"} /\ u = NewRow[j]
    BY <1>1, <1>3, <2>1 DEF Kept
  <2>3. CASE u = t
    BY <1>1, <2>2, <2>3 DEF Kept, Moved
  <2>4. CASE u # t
    <3>1. txn'[u] = txn[u]
      BY <1>1, <1>5, <2>1, <2>4
    <3>2. txn[u].cluster \in ClustersNow \/ Moved(i, u)
      BY <1>3, <2>1 DEF Kept, Moved
    <3>3. Moved(i, u) => Moved(i, u)'
      BY <1>1 DEF Moved
    <3> QED
      BY <1>1, <2>2, <3>1, <3>2, <3>3 DEF Kept, ClustersNow
  <2> QED
    BY <2>3, <2>4
<1>11. ASSUME NEW e \in Exports PROVE WholeSnapshot(e)'
  <2>1. WholeSnapshot(e) /\ pc'[e] = pc[e]
    BY <1>4 DEF Placed
  <2>2. ~ Reading(e)
    BY <1>1, <2>1 DEF WholeSnapshot, Running, Ended
  <2>3. ~ Reading(e)'
    BY <1>1, <2>1, <2>2 DEF Reading
  <2> QED
    BY <1>1, <2>1, <2>3 DEF WholeSnapshot
<1> QED
  BY <1>7, <1>8, <1>9, <1>10, <1>11 DEF Placed

LEMMA PlacedImportInsert ==
  ASSUME Typed, Apart, Placed, NEW i \in Requests, ImportInsert(i)
  PROVE  Placed'
<1> DEFINE t == NewRow[i]
<1>1. /\ Others(i) /\ i \in Imports /\ i \notin Exports /\ i \notin Patches /\ i \notin Tags
      /\ pc[i] = "patch" /\ pc'[i] = "rebuild" /\ work[i].todo = {} /\ work' = work
      /\ \A u \in Txns \ {t} : txn'[u] = txn[u]
      /\ txn'[t] = work[i].rows[t] /\ txn'[t] # Absent
      /\ agg' = agg /\ file' = file /\ snapshot' = snapshot /\ quiet' = quiet
  BY ImportInsertEffect, KindsApart DEF history
<1>2. ImportPlaces(i) /\ WholeRows(i) /\ Fresh(i)
  BY <1>1 DEF Placed
<1>3. /\ \A j \in Imports \ {i} : pc[j] \in {"idle", "ok"}
      /\ \A p \in Patches : pc[p] \in Ended
  BY <1>1, Alone DEF Ended
<1>4. /\ \A q \in Tags \cup Patches \cup Exports \cup (Imports \ {i}) : pc'[q] = pc[q]
  BY <1>1, KindsApart DEF Others
<1>5. Present(txn') = Present(txn) \cup {t} /\ Present(txn) \subseteq Txns /\ t \in Txns
  BY <1>1, NewIds DEF Present
<1>6. \A u \in Present(txn') : txn'[u].cluster \in work[i].clusters /\ txn'[u].cluster \in Mint(i)
  <2>1. \A u \in Present(txn') : txn'[u].cluster \in work[i].clusters
    BY <1>1, <1>2, <1>5 DEF ImportPlaces
  <2> QED
    BY <1>1, <1>2, <2>1 DEF ImportPlaces
<1>7. ASSUME NEW j \in Imports PROVE Fresh(j)' /\ ImportPlaces(j)'
  <2>1. Unminted(j) => Unminted(j)'
    BY <1>1, <1>4 DEF Unminted
  <2>2. CASE j = i
    BY <1>1, <1>2, <1>5, <1>6, <2>1, <2>2 DEF Fresh, ImportPlaces
  <2>3. CASE j # i
    <3>1. pc'[j] = pc[j] /\ pc[j] \in {"idle", "ok"}
      BY <1>3, <1>4, <2>3
    <3>2. Fresh(j) /\ ImportPlaces(j)
      BY DEF Placed
    <3>3. ASSUME Unplanned(j) PROVE Unplanned(j)'
      <4>1. NewRow[j] \in Txns /\ NewRow[j] # t
        BY <1>1, <2>3, NewIds
      <4>2. \A u \in Present(txn') : txn'[u].cluster \notin Mint(j)
        BY <1>1, <1>6, <2>3, MintsApart
      <4> QED
        BY <1>1, <3>3, <4>1, <4>2 DEF Unplanned
    <3> QED
      BY <1>1, <2>1, <3>1, <3>2, <3>3 DEF Fresh, ImportPlaces
  <2> QED
    BY <2>2, <2>3
<1>8. ASSUME NEW p \in Patches PROVE PatchPlaces(p)'
  BY <1>3, <1>4 DEF PatchPlaces, Ended
<1>9. ASSUME NEW q \in Requests PROVE WholeRows(q)'
  BY <1>1 DEF Placed, WholeRows
<1>10. ASSUME NEW u \in Present(txn') PROVE Kept(u)'
  <2>1. Moved(i, u)'
    BY <1>1 DEF Moved
  <2>2. u # t => u \in Present(txn) /\ file[FileOf[u]] # Absent
    BY <1>1, <1>3, <1>5 DEF Placed, Kept
  <2> QED
    BY <1>1, <2>1, <2>2 DEF Kept
<1>11. ASSUME NEW e \in Exports PROVE WholeSnapshot(e)'
  <2>1. WholeSnapshot(e) /\ pc'[e] = pc[e]
    BY <1>4 DEF Placed
  <2>2. ~ Reading(e)
    BY <1>1, <2>1 DEF WholeSnapshot, Running, Ended
  <2>3. ~ Reading(e)'
    BY <1>1, <2>1, <2>2 DEF Reading
  <2> QED
    BY <1>1, <2>1, <2>3 DEF WholeSnapshot
<1> QED
  BY <1>7, <1>8, <1>9, <1>10, <1>11 DEF Placed

\* A step of an export reads the ledger; what it has read comes from the ledger.
LEMMA PlacedExport ==
  ASSUME Typed, Placed, NEW e \in Requests, ExportClusters(e) \/ ExportFiles(e) \/ ExportTxns(e),
         \A i \in Imports : pc[i] = "idle" =>
            /\ NewRow[i] \notin Ids(snapshot'[e].txns)
            /\ FileOf[NewRow[i]] \notin Ids(snapshot'[e].files)
            /\ Ids(snapshot'[e].clusters) \cap Mint(i) = {},
         WholeSnapshot(e)'
  PROVE  Placed'
<1>1. /\ Others(e) /\ e \in Exports /\ work' = work
      /\ txn' = txn /\ agg' = agg /\ file' = file
      /\ \A f \in Exports \ {e} : snapshot'[f] = snapshot[f] /\ quiet'[f] = quiet[f]
  BY ExportClustersEffect, ExportFilesEffect, ExportTxnsEffect DEF ledger, history
<1>2. \A q \in Tags \cup Patches \cup Imports \cup Restores \cup (Exports \ {e}) : pc'[q] = pc[q]
  BY <1>1, KindsApart DEF Others
<1>3. ASSUME NEW i \in Imports PROVE Fresh(i)' /\ ImportPlaces(i)'
  <2>1. Fresh(i) /\ ImportPlaces(i) /\ pc'[i] = pc[i]
    BY <1>2 DEF Placed
  <2>2. Unminted(i) => Unminted(i)'
    BY <1>1, <1>2 DEF Unminted
  <2>3. pc[i] = "idle" /\ Unplanned(i) => Unplanned(i)'
    BY <1>1 DEF Unplanned
  <2> QED
    BY <1>1, <2>1, <2>2, <2>3 DEF Fresh, ImportPlaces
<1>4. ASSUME NEW p \in Patches PROVE PatchPlaces(p)'
  <2>1. PatchPlaces(p) /\ pc'[p] = pc[p]
    BY <1>2 DEF Placed
  <2> QED
    BY <1>1, <2>1 DEF PatchPlaces
<1>5. ASSUME NEW q \in Requests PROVE WholeRows(q)'
  BY <1>1 DEF Placed, WholeRows
<1>6. ASSUME NEW t \in Present(txn') PROVE Kept(t)'
  <2>1. Kept(t)
    BY <1>1 DEF Placed
  <2>2. \A i \in Imports : Moved(i, t) => Moved(i, t)'
    BY <1>1, <1>2 DEF Moved
  <2> QED
    BY <1>1, <1>2, <2>1, <2>2 DEF Kept, ClustersNow
<1>7. ASSUME NEW f \in Exports PROVE WholeSnapshot(f)'
  <2>1. CASE f = e
    BY <2>1
  <2>2. CASE f # e
    <3>1. pc'[f] = pc[f] /\ quiet'[f] = quiet[f] /\ snapshot'[f] = snapshot[f] /\ WholeSnapshot(f)
      BY <1>1, <1>2, <2>2 DEF Placed
    <3>2. Running(Imports \cup Patches \cup Restores)' = Running(Imports \cup Patches \cup Restores)
      BY <1>2 DEF Running
    <3> QED
      BY <1>1, <3>1, <3>2 DEF WholeSnapshot, Reading
  <2> QED
    BY <2>1, <2>2
<1> QED
  BY <1>3, <1>4, <1>5, <1>6, <1>7 DEF Placed

\* While no import and no patch runs, each transaction has its rows.
LEMMA KeptAlone ==
  ASSUME Placed, Running(Imports \cup Patches) = {}, NEW t \in Present(txn)
  PROVE  txn[t].cluster \in ClustersNow /\ FileOf[t] \in FilesNow
<1>1. Kept(t) /\ \A i \in Imports : pc[i] \in Ended
  BY DEF Placed, Running
<1>2. txn[t].cluster \in ClustersNow /\ file[FileOf[t]] # Absent
  BY <1>1 DEF Kept, Moved, Ended
<1> QED
  BY <1>2, FilesOf DEF FilesNow, Present

LEMMA PlacedExportClusters ==
  ASSUME Typed, Placed, NEW e \in Requests, ExportClusters(e)
  PROVE  Placed'
<1>1. /\ e \in Exports /\ pc[e] = "idle" /\ pc'[e] = "files" /\ Others(e)
      /\ \A x \in snapshot'[e].clusters : x.id \in ClustersNow /\ x.row = agg[x.id]
      /\ \A c \in ClustersNow : \E x \in snapshot'[e].clusters : x.id = c
      /\ OneEach(snapshot'[e].clusters)
      /\ snapshot'[e].files = snapshot[e].files /\ snapshot'[e].txns = snapshot[e].txns
      /\ quiet'[e] <=> Running(Imports \cup Patches \cup Restores) = {}
      /\ txn' = txn /\ agg' = agg
  BY ExportClustersEffect DEF ledger
<1>2. \A i \in Imports : pc[i] = "idle" =>
        /\ NewRow[i] \notin Ids(snapshot'[e].txns)
        /\ FileOf[NewRow[i]] \notin Ids(snapshot'[e].files)
        /\ Ids(snapshot'[e].clusters) \cap Mint(i) = {}
  <2> SUFFICES ASSUME NEW i \in Imports, pc[i] = "idle"
               PROVE  /\ NewRow[i] \notin Ids(snapshot'[e].txns)
                      /\ FileOf[NewRow[i]] \notin Ids(snapshot'[e].files)
                      /\ Ids(snapshot'[e].clusters) \cap Mint(i) = {}
    OBVIOUS
  <2>1. Unplanned(i) /\ Unminted(i)
    BY DEF Placed, Fresh
  <2>2. ClustersNow \cap Mint(i) = {}
    BY <2>1 DEF Unminted, ClustersNow
  <2> QED
    BY <1>1, <2>1, <2>2 DEF Unplanned, Ids
<1>3. WholeSnapshot(e)'
  <2>1. OneEach(snapshot'[e].txns) /\ \A x \in snapshot'[e].clusters : x.row.whole
    BY <1>1 DEF Placed, WholeSnapshot, ClustersNow
  <2>2. ASSUME Reading(e)'
        PROVE  /\ Running(Imports \cup Patches \cup Restores)' = {}
               /\ \A t \in Present(txn') : txn'[t].cluster \in Ids(snapshot'[e].clusters)
    <3>1. Running(Imports \cup Patches \cup Restores) = {}
      BY <1>1, <2>2 DEF Reading
    <3>2. Running(Imports \cup Patches) = {}
      BY <3>1 DEF Running
    <3>3. Running(Imports \cup Patches \cup Restores)' = {}
      BY <1>1, <3>1, KindsApart DEF Running, Others
    <3>4. \A t \in Present(txn) : txn[t].cluster \in ClustersNow
      BY <3>2, KeptAlone
    <3> QED
      BY <1>1, <3>3, <3>4 DEF Ids
  <2> QED
    BY <1>1, <2>1, <2>2 DEF WholeSnapshot
<1> QED
  BY <1>2, <1>3, PlacedExport

LEMMA PlacedExportFiles ==
  ASSUME Typed, Placed, NEW e \in Requests, ExportFiles(e)
  PROVE  Placed'
<1>1. /\ e \in Exports /\ pc[e] = "files" /\ pc'[e] = "txns" /\ Others(e)
      /\ \A x \in snapshot'[e].files : x.id \in FilesNow
      /\ \A f \in FilesNow : \E x \in snapshot'[e].files : x.id = f
      /\ snapshot'[e].clusters = snapshot[e].clusters /\ snapshot'[e].txns = snapshot[e].txns
      /\ txn' = txn /\ quiet' = quiet
  BY ExportFilesEffect DEF ledger, history
<1>2. \A i \in Imports : pc[i] = "idle" =>
        /\ NewRow[i] \notin Ids(snapshot'[e].txns)
        /\ FileOf[NewRow[i]] \notin Ids(snapshot'[e].files)
        /\ Ids(snapshot'[e].clusters) \cap Mint(i) = {}
  <2> SUFFICES ASSUME NEW i \in Imports, pc[i] = "idle"
               PROVE  /\ NewRow[i] \notin Ids(snapshot'[e].txns)
                      /\ FileOf[NewRow[i]] \notin Ids(snapshot'[e].files)
                      /\ Ids(snapshot'[e].clusters) \cap Mint(i) = {}
    OBVIOUS
  <2>1. Unplanned(i) /\ FileOf[NewRow[i]] \notin FilesNow
    BY DEF Placed, Fresh, FilesNow
  <2> QED
    BY <1>1, <2>1 DEF Unplanned, Ids
<1>3. WholeSnapshot(e)'
  <2>1. WholeSnapshot(e)
    BY <1>1 DEF Placed
  <2>2. ASSUME Reading(e)'
        PROVE  /\ Running(Imports \cup Patches \cup Restores)' = {}
               /\ \A t \in Present(txn') : /\ txn'[t].cluster \in Ids(snapshot'[e].clusters)
                                           /\ FileOf[t] \in Ids(snapshot'[e].files)
    <3>1. Reading(e)
      BY <1>1, <2>2 DEF Reading
    <3>2. /\ Running(Imports \cup Patches \cup Restores) = {}
          /\ \A t \in Present(txn) : txn[t].cluster \in Ids(snapshot[e].clusters)
      BY <2>1, <3>1 DEF WholeSnapshot
    <3>3. Running(Imports \cup Patches \cup Restores)' = {}
      BY <1>1, <3>2, KindsApart DEF Running, Others
    <3>4. \A t \in Present(txn) : FileOf[t] \in FilesNow
      BY <3>2, KeptAlone DEF Running
    <3> QED
      BY <1>1, <3>2, <3>3, <3>4 DEF Ids
  <2> QED
    BY <1>1, <2>1, <2>2 DEF WholeSnapshot
<1> QED
  BY <1>2, <1>3, PlacedExport

LEMMA PlacedExportTxns ==
  ASSUME Typed, Placed, NEW e \in Requests, ExportTxns(e)
  PROVE  Placed'
<1>1. /\ e \in Exports /\ pc[e] = "txns" /\ pc'[e] = "ok" /\ Others(e)
      /\ \A x \in snapshot'[e].txns : x.id \in Present(txn) /\ x.cluster = txn[x.id].cluster
      /\ OneEach(snapshot'[e].txns)
      /\ snapshot'[e].clusters = snapshot[e].clusters /\ snapshot'[e].files = snapshot[e].files
      /\ quiet' = quiet
  BY ExportTxnsEffect DEF history
<1>2. \A i \in Imports : pc[i] = "idle" =>
        /\ NewRow[i] \notin Ids(snapshot'[e].txns)
        /\ FileOf[NewRow[i]] \notin Ids(snapshot'[e].files)
        /\ Ids(snapshot'[e].clusters) \cap Mint(i) = {}
  <2> SUFFICES ASSUME NEW i \in Imports, pc[i] = "idle"
               PROVE  /\ NewRow[i] \notin Ids(snapshot'[e].txns)
                      /\ FileOf[NewRow[i]] \notin Ids(snapshot'[e].files)
                      /\ Ids(snapshot'[e].clusters) \cap Mint(i) = {}
    OBVIOUS
  <2>1. Unplanned(i) /\ NewRow[i] \notin Present(txn)
    BY DEF Placed, Fresh, Unplanned, Present
  <2> QED
    BY <1>1, <2>1 DEF Unplanned, Ids
<1>3. WholeSnapshot(e)'
  <2>1. WholeSnapshot(e)
    BY <1>1 DEF Placed
  <2>2. ASSUME quiet'[e] PROVE AcceptedSnapshot(snapshot'[e])
    <3>1. Reading(e)
      BY <1>1, <2>2 DEF Reading
    <3>2. \A t \in Present(txn) : /\ txn[t].cluster \in Ids(snapshot[e].clusters)
                                  /\ FileOf[t] \in Ids(snapshot[e].files)
      BY <1>1, <2>1, <3>1 DEF WholeSnapshot
    <3> QED
      BY <1>1, <3>2 DEF AcceptedSnapshot, Accepted
  <2>3. ~ Reading(e)'
    BY <1>1 DEF Reading
  <2> QED
    BY <1>1, <2>1, <2>2, <2>3 DEF WholeSnapshot
<1> QED
  BY <1>2, <1>3, PlacedExport

LEMMA PlacedWipe ==
  ASSUME Typed, Placed, NEW r \in Requests, NEW e \in Exports, RestoreWipe(r, e), NoPatchBeside'
  PROVE  Placed'
<1>1. /\ Others(r) /\ r \in Restores /\ pc[r] = "idle" /\ snapshot' = snapshot /\ LockFree /\ Meets(r)
      /\ work'[r].aggs = NoWork.aggs
      /\ Present(txn') = {} /\ (\A c \in Clusters : agg'[c] = Absent) /\ \A f \in Files : file'[f] = Absent
      /\ \A x \in Exports : quiet'[x] <=> quiet[x] /\ pc[x] = "ok"
  BY RestoreWipeEffect DEF Present
<1>2. /\ \A q \in Tags \cup Patches \cup Imports \cup Exports : pc'[q] = pc[q] /\ work'[q] = work[q]
      /\ \A i \in Imports : pc[i] \in Ended
      /\ \A p \in Patches : pc[p] \in Ended
  <2>1. \A p \in Patches : pc[p] \in Ended
    BY <1>1, StartsAlone DEF NoPatchBeside, NeverMet
  <2> QED
    BY <1>1, <2>1, KindsApart DEF Others, LockFree, Running
<1>3. ASSUME NEW i \in Imports PROVE Fresh(i)' /\ ImportPlaces(i)'
  <2>1. /\ Fresh(i) /\ ImportPlaces(i) /\ FileOf[NewRow[i]] \in Files /\ NewRow[i] \in Txns
        /\ Mint(i) \subseteq Clusters /\ pc'[i] = pc[i] /\ work'[i] = work[i]
        /\ pc[i] \in {"idle", "ok", "failed"}
    BY <1>2, NewIds, FilesOf, MintsApart DEF Placed, Ended
  <2>2. Unplanned(i) => Unplanned(i)'
    BY <1>1, <2>1 DEF Unplanned, Present
  <2>3. Unminted(i) => Unminted(i)'
    BY <1>1, <1>2, <2>1 DEF Unminted
  <2> QED
    BY <1>1, <2>1, <2>2, <2>3 DEF Fresh, ImportPlaces
<1>4. ASSUME NEW p \in Patches PROVE PatchPlaces(p)'
  BY <1>2 DEF PatchPlaces, Ended
<1>5. ASSUME NEW q \in Requests PROVE WholeRows(q)'
  BY <1>1, NoAggs DEF Placed, WholeRows, Others
<1>6. ASSUME NEW f \in Exports PROVE WholeSnapshot(f)'
  <2>1. WholeSnapshot(f) /\ pc'[f] = pc[f]
    BY <1>2 DEF Placed
  <2>2. ~ Reading(f)' /\ (quiet'[f] => quiet[f])
    BY <1>1, <2>1 DEF Reading
  <2> QED
    BY <1>1, <2>1, <2>2 DEF WholeSnapshot, AcceptedSnapshot
<1> QED
  BY <1>1, <1>3, <1>4, <1>5, <1>6 DEF Placed

LEMMA PlacedCopy ==
  ASSUME Typed, Apart, Restoring, Placed, NEW r \in Requests, RestoreCopy(r)
  PROVE  Placed'
<1> DEFINE e == work[r].from
           s == snapshot[e]
<1>1. /\ Typed' /\ Others(r) /\ r \in Restores /\ e \in Exports
      /\ pc[r] = "copy" /\ pc'[r] = "metrics" /\ work'[r] = NoWork
      /\ \A t \in Ids(s.txns) : \E x \in s.txns :
              /\ x.id = t /\ txn'[t].cluster = x.cluster
              /\ txn'[t].category = x.category /\ txn'[t].currency = NoCurrency
      /\ Present(txn') = Present(txn) \cup Ids(s.txns)
      /\ \A c \in Clusters : c \notin Ids(s.clusters) => agg'[c] = agg[c]
      /\ \A c \in Ids(s.clusters) : /\ agg'[c] # Absent
                                    /\ \E x \in s.clusters : x.id = c /\ agg'[c] = x.row
      /\ \A f \in Files : f \notin Ids(s.files) => file'[f] = file[f]
      /\ \A f \in Ids(s.files) : file'[f] # Absent
      /\ snapshot' = snapshot /\ quiet' = quiet
  BY RestoreCopyEffect DEF history
<1>2. AcceptedSnapshot(s) /\ Present(txn) = {} /\ WholeSnapshot(e)
  <2>1. Copying(r) /\ Emptied(r) /\ NeverMet({{"patch", "restore"}})
    BY <1>1 DEF Restoring, Apart, NoPatchBeside, NeverMet
  <2> QED
    BY <1>1, <2>1 DEF Copying, Emptied, Placed
<1>3. /\ \A q \in Tags \cup Patches \cup Imports \cup Exports : pc'[q] = pc[q] /\ work'[q] = work[q]
      /\ \A i \in Imports : pc[i] \in {"idle", "ok"}
      /\ \A p \in Patches : pc[p] \in Ended
  <2>1. pc[r] \notin Ended
    BY <1>1 DEF Ended
  <2> QED
    BY <1>1, <2>1, AloneWithRestore, KindsApart DEF Others, Apart, NoPatchBeside, NeverMet
<1>4. \A t \in Present(txn') : /\ t \in Ids(s.txns) /\ FileOf[t] \in Ids(s.files)
                               /\ txn'[t].cluster \in Ids(s.clusters)
  BY <1>1, <1>2 DEF AcceptedSnapshot, Accepted
<1>5. ASSUME NEW i \in Imports PROVE Fresh(i)' /\ ImportPlaces(i)'
  <2>1. Fresh(i) /\ ImportPlaces(i) /\ pc'[i] = pc[i] /\ work'[i] = work[i] /\ pc[i] \in {"idle", "ok"}
    BY <1>3 DEF Placed
  <2>2. ASSUME pc[i] = "idle" PROVE Unplanned(i)' /\ Unminted(i)' /\ file'[FileOf[NewRow[i]]] = Absent
    <3>0. Unplanned(i) /\ Unminted(i) /\ file[FileOf[NewRow[i]]] = Absent
      BY <2>1, <2>2 DEF Fresh
    <3>1. /\ NewRow[i] \notin Ids(s.txns)
          /\ FileOf[NewRow[i]] \notin Ids(s.files)
          /\ Ids(s.clusters) \cap Mint(i) = {}
      BY <1>1, <3>0 DEF Unplanned
    <3>2. \A c \in Mint(i) : agg'[c] = Absent
      <4>1. Mint(i) \subseteq Clusters
        BY MintsApart
      <4> QED
        BY <1>1, <3>0, <3>1, <4>1 DEF Unminted
    <3>3. Unminted(i)'
      BY <1>3, <3>0, <3>2 DEF Unminted
    <3>4. txn'[NewRow[i]] = Absent
      BY <1>4, <3>1, NewIds DEF Present
    <3>5. \A t \in Present(txn') : txn'[t].cluster \notin Mint(i)
      BY <1>4, <3>1
    <3>6. file'[FileOf[NewRow[i]]] = Absent
      BY <1>1, <3>0, <3>1, NewIds, FilesOf
    <3>7. Unplanned(i)'
      BY <1>1, <3>0, <3>4, <3>5 DEF Unplanned
    <3> QED
      BY <3>3, <3>6, <3>7
  <2> QED
    BY <2>1, <2>2 DEF Fresh, ImportPlaces
<1>6. ASSUME NEW p \in Patches PROVE PatchPlaces(p)'
  BY <1>3 DEF PatchPlaces, Ended
<1>7. ASSUME NEW q \in Requests PROVE WholeRows(q)'
  BY <1>1, NoAggs DEF Placed, WholeRows, Others
<1>8. ASSUME NEW t \in Present(txn') PROVE Kept(t)'
  <2>1. t \in Txns /\ FileOf[t] \in Files /\ txn'[t].cluster \in Clusters
    BY <1>1, <1>4, SnapshotFields, FilesOf DEF Ids
  <2>2. file'[FileOf[t]] # Absent
    BY <1>1, <1>4, <2>1
  <2>3. agg'[txn'[t].cluster] # Absent
    BY <1>1, <1>4
  <2>4. agg'[txn'[t].cluster].whole
    <3>1. \A x \in s.clusters : x.row.whole
      BY <1>2 DEF WholeSnapshot
    <3>2. PICK x \in s.clusters : agg'[txn'[t].cluster] = x.row
      BY <1>1, <1>4
    <3> QED
      BY <3>1, <3>2
  <2> QED
    BY <2>1, <2>2, <2>3, <2>4 DEF Kept, ClustersNow
<1>9. ASSUME NEW f \in Exports PROVE WholeSnapshot(f)'
  <2>1. WholeSnapshot(f) /\ pc'[f] = pc[f]
    BY <1>3 DEF Placed
  <2>2. r \in Running(Imports \cup Patches \cup Restores)
    BY <1>1 DEF Running, Ended
  <2>3. ~ Reading(f) /\ ~ Reading(f)'
    BY <1>1, <2>1, <2>2 DEF Reading, WholeSnapshot
  <2> QED
    BY <1>1, <2>1, <2>3 DEF WholeSnapshot, AcceptedSnapshot
<1> QED
  BY <1>5, <1>6, <1>7, <1>8, <1>9 DEF Placed

LEMMA OldRow ==
  ASSUME Init
  PROVE  \A c \in OldClusters : /\ c \in Clusters /\ agg[c].whole = TRUE
                                /\ agg[c].size = Cardinality({t \in Stored : FirstCluster[t] = c})
                                /\ agg[c].pending = TRUE /\ agg[c] \in ClusterRow
<1> SUFFICES ASSUME NEW c \in OldClusters
             PROVE  /\ c \in Clusters /\ agg[c].whole = TRUE
                    /\ agg[c].size = Cardinality({t \in Stored : FirstCluster[t] = c})
                    /\ agg[c].pending = TRUE /\ agg[c] \in ClusterRow
  OBVIOUS
<1> DEFINE n == Cardinality({t \in Stored : FirstCluster[t] = c})
<1>1. c \in Clusters
  BY DEF Clusters
<1>2. agg[c] = [whole |-> TRUE, assigned |-> Pending, pending |-> TRUE, size |-> n]
  BY <1>1 DEF Init
<1>3. n \in 0..Cardinality(Txns)
  BY SizesTyped DEF Txns
<1> HIDE DEF n
<1>4. agg[c] \in ClusterRow /\ agg[c].whole = TRUE /\ agg[c].size = n /\ agg[c].pending = TRUE
  BY <1>2, <1>3 DEF ClusterRow
<1> QED
  BY <1>1, <1>4 DEF n

LEMMA InitialTxns ==
  ASSUME Init
  PROVE  /\ Present(txn) = Stored
         /\ \A t \in Txns : t \in Stored =>
              txn[t].cluster = FirstCluster[t] /\ txn[t].category = Pending
<1>1. \A t \in Stored : [cluster |-> FirstCluster[t], category |-> Pending,
                         currency |-> FirstCurrency] \in Row
  BY LedgerWritersAssumption DEF Row, Clusters
<1>2. \A t \in Txns : /\ txn[t] # Absent <=> t \in Stored
                      /\ t \in Stored => txn[t].cluster = FirstCluster[t] /\ txn[t].category = Pending
  BY <1>1, AbsentIsNoRow DEF Init
<1> QED
  BY <1>2 DEF Present, Txns

LEMMA PlacedInit ==
  ASSUME Init
  PROVE  Placed
<1>1. /\ \A r \in Requests : pc[r] = "idle" /\ work[r] = NoWork
      /\ \A e \in Exports : snapshot[e] = NoSnapshot /\ ~ quiet[e]
  BY DEF Init
<1>2. /\ \A t \in Txns : t \in Stored => txn[t].cluster = FirstCluster[t]
      /\ Present(txn) = Stored
  BY InitialTxns
<1>3. Present(txn) = Stored /\ \A t \in Txns : txn[t] # Absent <=> t \in Stored
  BY <1>2 DEF Present
<1>4. /\ \A c \in Clusters : agg[c] = Absent <=> c \notin OldClusters
      /\ OldClusters \subseteq ClustersNow
  <2>1. \A c \in OldClusters : /\ c \in Clusters /\ agg[c].whole = TRUE
                              /\ agg[c].size = Cardinality({t \in Stored : FirstCluster[t] = c})
                              /\ agg[c].pending = TRUE /\ agg[c] \in ClusterRow
    BY OldRow
  <2>2. \A c \in Clusters : c \notin OldClusters => agg[c] = Absent
    BY DEF Init
  <2> QED
    BY <2>1, <2>2, AbsentIsNoRow DEF ClustersNow
<1>5. \A f \in Files : file[f] # Absent <=> f \in {FileOf[t] : t \in Stored}
  BY AbsentIsNoRow DEF Init
<1>6. \A t \in Stored : FirstCluster[t] \in OldClusters
  BY LedgerWritersAssumption
<1>7. ASSUME NEW i \in Imports PROVE Fresh(i) /\ ImportPlaces(i)
  <2>1. Unminted(i)
    BY <1>1, <1>4, MintsApart, KindsApart DEF Unminted
  <2>2. txn[NewRow[i]] = Absent /\ file[FileOf[NewRow[i]]] = Absent
    <3>1. NewRow[i] \in Txns /\ NewRow[i] \notin Stored /\ FileOf[NewRow[i]] \in Files
      BY NewIds, FilesOf
    <3>2. \A t \in Stored : t \in Txns /\ FileOf[t] # FileOf[NewRow[i]]
      BY NewIds DEF Txns
    <3> QED
      BY <1>3, <1>5, <3>1, <3>2
  <2>3. Unplanned(i)
    BY <1>1, <1>2, <1>3, <1>6, <2>2, MintsApart DEF Unplanned, Ids, NoSnapshot, Txns
  <2>4. pc[i] = "idle" /\ work[i].retire = {}
    BY <1>1, KindsApart DEF NoWork
  <2> QED
    BY <2>1, <2>2, <2>3, <2>4 DEF Fresh, ImportPlaces
<1>8. \A p \in Patches : PatchPlaces(p)
  BY <1>1, KindsApart DEF PatchPlaces
<1>9. \A r \in Requests : WholeRows(r)
  BY <1>1, NoAggs DEF WholeRows
<1>10. ASSUME NEW t \in Present(txn) PROVE Kept(t)
  <2>1. t \in Stored /\ t \in Txns
    BY <1>3 DEF Txns
  <2> QED
    BY <1>2, <1>4, <1>5, <1>6, <2>1, FilesOf DEF Kept
<1>11. \A e \in Exports : WholeSnapshot(e)
  BY <1>1 DEF WholeSnapshot, NoSnapshot, OneEach, Reading
<1> QED
  BY <1>7, <1>8, <1>9, <1>10, <1>11 DEF Placed

LEMMA PlacedNext ==
  ASSUME Typed, Apart, Restoring, Placed, [Next]_vars, NoPatchBeside'
  PROVE  Placed'
<1>1. CASE UNCHANGED vars
  <2>1. /\ txn' = txn /\ agg' = agg /\ file' = file /\ pc' = pc /\ work' = work
        /\ snapshot' = snapshot /\ quiet' = quiet
    BY <1>1 DEF vars, ledger, history
  <2>2. \A i \in Imports : Fresh(i) /\ ImportPlaces(i) => Fresh(i)' /\ ImportPlaces(i)'
    BY <2>1 DEF Fresh, Unplanned, Unminted, ImportPlaces
  <2>3. \A p \in Patches : PatchPlaces(p) => PatchPlaces(p)'
    BY <2>1 DEF PatchPlaces
  <2>4. \A r \in Requests : WholeRows(r) => WholeRows(r)'
    BY <2>1 DEF WholeRows
  <2>5. \A t \in Present(txn) : Kept(t) => Kept(t)'
    BY <2>1 DEF Kept, Moved, ClustersNow
  <2>6. \A e \in Exports : WholeSnapshot(e) => WholeSnapshot(e)'
    BY <2>1 DEF WholeSnapshot, Reading, Running
  <2> QED
    BY <2>1, <2>2, <2>3, <2>4, <2>5, <2>6 DEF Placed
<1> SUFFICES ASSUME NEW r \in Requests, Step(r)
             PROVE  Placed'
  BY <1>1, NextIsStep
<1>2. CASE RebuildPut(r)
  BY <1>2, RebuildPutEffect, PlacedRebuildPutOfPatch, PlacedRebuildPutOfImport
<1>3. CASE TagList(r) \/ TagCluster(r) \/ TagClusterAnew(r) \/ \E t \in Txns : TagRow(r, t)
  BY <1>3, PlacedTag, PlacedTagCluster
<1>4. CASE PatchFile(r) \/ PatchQuery(r) \/ PatchRowsDone(r) \/ \E t \in Txns : PatchRow(r, t)
  BY <1>4, PlacedPatch
<1>5. CASE MetricsList(r) \/ MetricsPut(r) \/ Fail(r)
  BY <1>5, PlacedMetricsOrFail
<1>6. CASE ImportPlan(r) \/ ImportInsert(r) \/ ImportRecord(r)
           \/ (\E t \in Txns : ImportPatch(r, t)) \/ \E c \in Clusters : ImportRetire(r, c)
  BY <1>6, PlacedImportPlan, PlacedImportInsert, PlacedImportRecord, PlacedImportPatch,
     PlacedImportRetire
<1>7. CASE ExportClusters(r) \/ ExportFiles(r) \/ ExportTxns(r)
  BY <1>7, PlacedExportClusters, PlacedExportFiles, PlacedExportTxns
<1>8. CASE \E c \in Clusters : RebuildRead(r, c)
  BY <1>8, PlacedRebuildRead
<1>9. CASE RestoreCopy(r) \/ \E e \in Exports : RestoreWipe(r, e)
  BY <1>9, PlacedWipe, PlacedCopy
<1> QED
  BY <1>2, <1>3, <1>4, <1>5, <1>6, <1>7, <1>8, <1>9 DEF Step

\* What the layers rest on.
Base == Typed /\ Accounted /\ Restoring /\ (NoPatchBeside => Placed)

LEMMA BaseInit == Init => Base
BY TypedInit, AccountedInit, PlacedInit DEF Base, Restoring, Copying, Emptied, Init, Requests

LEMMA BaseNext ==
  ASSUME Base, [Next]_vars
  PROVE  Base'
<1>1. (Typed /\ Accounted /\ Restoring)'
  BY TypedNext, AccountedNext, RestoringNext DEF Base
<1>2. ASSUME NoPatchBeside' PROVE Placed'
  <2>1. NoPatchBeside
    BY <1>2, NotBefore
  <2> QED
    BY <1>2, <2>1, PlacedNext DEF Base, Apart
<1> QED
  BY <1>1, <1>2 DEF Base

(* Whatever tags and patches run, fail or have run before: a backup that   *)
(* no import, patch or restore ran beside is one that a restore accepts,   *)
(* if no currency patch has run beside an import or a restore.             *)
THEOREM BackupsAccepted == Spec => []ExportsAccepted
<1>1. Base => ExportsAccepted
  BY DEF Base, Placed, WholeSnapshot, ExportsAccepted
<1> QED
  BY <1>1, BaseInit, BaseNext, PTL DEF Spec

(* When nothing runs, every transaction has its CLUSTER and its FILE row,  *)
(* so that a restore would accept a backup taken now, also after tags and  *)
(* patches that failed half-way, and tags beside a restore; no currency    *)
(* patch has run beside an import or a restore.                            *)
THEOREM RestRestorable == Spec => []RestorableAtRest
<1>1. Base => RestorableAtRest
  <2> SUFFICES ASSUME Placed, AtRest PROVE Accepted(ClustersNow, FilesNow, TxnsNow)
    BY DEF RestorableAtRest, Base
  <2>1. Running(Imports \cup Patches) = {}
    BY KindsApart DEF AtRest, Running
  <2>2. \A t \in Present(txn) : txn[t].cluster \in ClustersNow /\ FileOf[t] \in FilesNow
    BY <2>1, KeptAlone
  <2> QED
    BY <2>2 DEF Accepted, TxnsNow
<1> QED
  BY <1>1, BaseInit, BaseNext, PTL DEF Spec

----------------------------------------------------------------------------
(* Currencies, while no patch has run beside a restore or beside a patch  *)
(* of the same file                                                        *)

\* The FILE row of an import comes last: until then nothing knows the file. And
\* a patch puts rows of its own file.
Unfiled == {"idle", "patch", "rebuild", "retire"}
OwnFile(i) ==
    pc[i] \in Unfiled =>
        /\ file[FileOf[NewRow[i]]] = Absent
        /\ \A p \in Patches : pc[p] \in {"query", "put rows", "rebuild"} =>
                                  work[p].file # FileOf[NewRow[i]]
        /\ pc[i] = "idle" => \A e \in Exports : FileOf[NewRow[i]] \notin Ids(snapshot[e].files)
OfOneFile(p) == pc[p] = "put rows" => \A t \in work[p].todo : FileOf[t] = work[p].file
Filed == /\ \A i \in Imports : OwnFile(i)
         /\ \A p \in Patches : OfOneFile(p)

LEMMA FiledFrame ==
  ASSUME Typed, Filed, NEW r \in Requests, Others(r),
         \A f \in Files : file[f] = Absent => file'[f] = Absent,
         \A e \in Exports : snapshot'[e].files = snapshot[e].files,
         r \in Imports => (pc'[r] \in Unfiled => pc[r] \in Unfiled /\ pc'[r] # "idle"),
         r \in Patches => /\ pc'[r] \in {"query", "put rows", "rebuild"} =>
                               /\ pc[r] \in {"query", "put rows", "rebuild"}
                               /\ work'[r].file = work[r].file
                          /\ OfOneFile(r)'
  PROVE  Filed'
<1>1. ASSUME NEW i \in Imports, pc'[i] \in Unfiled PROVE OwnFile(i)'
  <2>1. OwnFile(i) /\ pc[i] \in Unfiled /\ (pc'[i] = "idle" => pc[i] = "idle")
    BY <1>1, KindsApart DEF Filed, Others
  <2>2. FileOf[NewRow[i]] \in Files
    BY NewIds, FilesOf
  <2>3. ASSUME NEW p \in Patches, pc'[p] \in {"query", "put rows", "rebuild"}
        PROVE  pc[p] \in {"query", "put rows", "rebuild"} /\ work'[p].file = work[p].file
    BY <2>3, KindsApart DEF Others
  <2> QED
    BY <1>1, <2>1, <2>2, <2>3 DEF OwnFile
<1>2. ASSUME NEW p \in Patches PROVE OfOneFile(p)'
  <2>1. p # r => pc'[p] = pc[p] /\ work'[p] = work[p] /\ OfOneFile(p)
    BY KindsApart DEF Filed, Others
  <2> QED
    BY <2>1 DEF OfOneFile
<1> QED
  BY <1>1, <1>2 DEF Filed, OwnFile

LEMMA FiledPatchFile ==
  ASSUME Typed, Filed, NEW r \in Requests, PatchFile(r)
  PROVE  Filed'
<1>1. /\ r \in Patches /\ Others(r) /\ pc'[r] = "query" /\ work'[r].file \in Files
      /\ file[work'[r].file] # Absent /\ snapshot' = snapshot
      /\ \A f \in Files \ {work'[r].file} : file'[f] = file[f]
  BY PatchFileEffect
<1>2. ASSUME NEW i \in Imports PROVE OwnFile(i)'
  <2>1. /\ OwnFile(i) /\ pc'[i] = pc[i] /\ FileOf[NewRow[i]] \in Files
    BY <1>1, NewIds, FilesOf, KindsApart DEF Filed, Others
  <2>2. \A p \in Patches \ {r} : pc'[p] = pc[p] /\ work'[p] = work[p]
    BY <1>1, KindsApart DEF Others
  <2> QED
    BY <1>1, <2>1, <2>2 DEF OwnFile
<1>3. ASSUME NEW p \in Patches PROVE OfOneFile(p)'
  <2>1. p # r => pc'[p] = pc[p] /\ work'[p] = work[p] /\ OfOneFile(p)
    BY <1>1, KindsApart DEF Filed, Others
  <2> QED
    BY <1>1, <2>1 DEF OfOneFile
<1> QED
  BY <1>2, <1>3 DEF Filed

LEMMA FiledImportRecord ==
  ASSUME Typed, Filed, NEW r \in Requests, ImportRecord(r)
  PROVE  Filed'
<1>1. /\ r \in Imports /\ Others(r) /\ pc'[r] = "metrics" /\ work' = work /\ snapshot' = snapshot
      /\ \A f \in Files \ {FileOf[NewRow[r]]} : file'[f] = file[f]
  BY ImportRecordEffect DEF history
<1>2. \A p \in Patches : pc'[p] = pc[p]
  BY <1>1, KindsApart DEF Others
<1>3. ASSUME NEW i \in Imports PROVE OwnFile(i)'
  <2>1. CASE i = r
    BY <1>1, <2>1 DEF OwnFile, Unfiled
  <2>2. CASE i # r
    <3>1. /\ OwnFile(i) /\ pc'[i] = pc[i] /\ FileOf[NewRow[i]] \in Files
          /\ FileOf[NewRow[i]] # FileOf[NewRow[r]]
      BY <1>1, <2>2, NewIds, FilesOf, KindsApart DEF Filed, Others
    <3> QED
      BY <1>1, <1>2, <3>1 DEF OwnFile
  <2> QED
    BY <2>1, <2>2
<1>4. ASSUME NEW p \in Patches PROVE OfOneFile(p)'
  BY <1>1, <1>2 DEF Filed, OfOneFile
<1> QED
  BY <1>3, <1>4 DEF Filed

LEMMA FiledExportFiles ==
  ASSUME Typed, Filed, NEW r \in Requests, ExportFiles(r)
  PROVE  Filed'
<1>1. /\ r \in Exports /\ Others(r) /\ work' = work /\ file' = file
      /\ Ids(snapshot'[r].files) \subseteq FilesNow
      /\ \A e \in Exports \ {r} : snapshot'[e] = snapshot[e]
  BY ExportFilesEffect DEF ledger, Ids
<1>2. \A q \in Imports \cup Patches : pc'[q] = pc[q]
  BY <1>1, KindsApart DEF Others
<1>3. ASSUME NEW i \in Imports PROVE OwnFile(i)'
  BY <1>1, <1>2 DEF Filed, OwnFile, FilesNow, Unfiled
<1>4. ASSUME NEW p \in Patches PROVE OfOneFile(p)'
  BY <1>1, <1>2 DEF Filed, OfOneFile
<1> QED
  BY <1>3, <1>4 DEF Filed

LEMMA FiledCopy ==
  ASSUME Typed, Accounted, Filed, NEW r \in Requests, RestoreCopy(r)
  PROVE  Filed'
<1>1. /\ r \in Restores /\ Others(r) /\ snapshot' = snapshot /\ work[r].from \in Exports
      /\ pc[r] = "copy"
      /\ \A f \in Files : f \notin Ids(snapshot[work[r].from].files) => file'[f] = file[f]
  BY RestoreCopyEffect DEF history
<1>2. \A q \in Imports \cup Patches : pc'[q] = pc[q] /\ work'[q] = work[q]
  BY <1>1, KindsApart DEF Others
<1>3. ASSUME NEW i \in Imports PROVE OwnFile(i)'
  <2>1. pc[i] \in {"idle", "ok"}
    BY <1>1, AloneWithRestore DEF Ended
  <2>2. OwnFile(i) /\ FileOf[NewRow[i]] \in Files
    BY NewIds, FilesOf DEF Filed
  <2> QED
    BY <1>1, <1>2, <2>1, <2>2 DEF OwnFile, Unfiled
<1>4. ASSUME NEW p \in Patches PROVE OfOneFile(p)'
  BY <1>2 DEF Filed, OfOneFile
<1> QED
  BY <1>3, <1>4 DEF Filed

LEMMA FiledInit ==
  ASSUME Init
  PROVE  Filed
<1>1. \A r \in Requests : pc[r] = "idle"
  BY DEF Init
<1>2. \A e \in Exports : snapshot[e].files = {}
  BY DEF Init, NoSnapshot
<1>3. \A i \in Imports : file[FileOf[NewRow[i]]] = Absent
  <2> SUFFICES ASSUME NEW i \in Imports PROVE file[FileOf[NewRow[i]]] = Absent
    OBVIOUS
  <2>1. /\ FileOf[NewRow[i]] \in Files
        /\ \A t \in Stored : t \in Txns /\ FileOf[t] # FileOf[NewRow[i]]
    BY NewIds, FilesOf DEF Txns
  <2> QED
    BY <2>1 DEF Init
<1> QED
  BY <1>1, <1>2, <1>3, KindsApart DEF Filed, OwnFile, OfOneFile, Ids

LEMMA FiledNext ==
  ASSUME Typed, Accounted, Filed, [Next]_vars
  PROVE  Filed'
<1>1. CASE UNCHANGED vars
  <2>1. file' = file /\ pc' = pc /\ work' = work /\ snapshot' = snapshot
    BY <1>1 DEF vars, ledger
  <2> QED
    BY <2>1 DEF Filed, OwnFile, OfOneFile
<1> SUFFICES ASSUME NEW r \in Requests, Step(r)
             PROVE  Filed'
  BY <1>1, NextIsStep
<1>2. CASE \/ TagList(r) \/ TagCluster(r) \/ TagClusterAnew(r) \/ MetricsList(r) \/ MetricsPut(r)
           \/ ExportClusters(r) \/ ExportTxns(r) \/ \E t \in Txns : TagRow(r, t)
  <2>1. /\ Others(r) /\ file' = file /\ \A e \in Exports : snapshot'[e].files = snapshot[e].files
        /\ r \in Tags \cup Imports \cup Restores \cup Exports
    <3>1. CASE TagList(r) \/ TagCluster(r) \/ TagClusterAnew(r) \/ \E t \in Txns : TagRow(r, t)
      BY <3>1, TagListEffect, TagClusterEffect, TagClusterAnewEffect, TagRowEffect DEF history
    <3>2. CASE MetricsList(r) \/ MetricsPut(r)
      BY <3>2, MetricsListEffect, MetricsPutEffect DEF ledger
    <3>3. CASE ExportClusters(r) \/ ExportTxns(r)
      BY <3>3, ExportClustersEffect, ExportTxnsEffect DEF ledger
    <3> QED
      BY <1>2, <3>1, <3>2, <3>3
  <2>2. r \in Imports => pc'[r] \notin Unfiled
    <3>1. CASE TagList(r) \/ TagCluster(r) \/ TagClusterAnew(r) \/ \E t \in Txns : TagRow(r, t)
      BY <3>1, KindsApart, TagListEffect, TagClusterEffect, TagClusterAnewEffect, TagRowEffect
    <3>2. CASE MetricsList(r) \/ MetricsPut(r)
      BY <3>2, MetricsListEffect, MetricsPutEffect DEF Unfiled
    <3>3. CASE ExportClusters(r) \/ ExportTxns(r)
      BY <3>3, KindsApart, ExportClustersEffect, ExportTxnsEffect
    <3> QED
      BY <1>2, <3>1, <3>2, <3>3
  <2> QED
    BY <2>1, <2>2, KindsApart, FiledFrame
<1>3. CASE PatchQuery(r) \/ PatchRowsDone(r) \/ (\E t \in Txns : PatchRow(r, t)) \/ Fail(r)
  <2>1. /\ Others(r) /\ file' = file /\ snapshot' = snapshot /\ r \notin Imports
        /\ r \in Patches => /\ pc[r] \in {"query", "put rows", "rebuild"}
                            /\ work'[r].file = work[r].file
    <3>1. CASE PatchQuery(r)
      BY <3>1, KindsApart, PatchQueryEffect DEF ledger
    <3>2. CASE PatchRowsDone(r)
      BY <3>2, KindsApart, PatchRowsDoneEffect DEF ledger
    <3>3. CASE \E t \in Txns : PatchRow(r, t)
      BY <3>3, KindsApart, PatchRowEffect DEF history
    <3>4. CASE Fail(r)
      BY <3>4, KindsApart, FailEffect, Kinds DEF ledger, Ended
    <3> QED
      BY <1>3, <3>1, <3>2, <3>3, <3>4
  <2>2. r \in Patches => OfOneFile(r)'
    <3>1. CASE PatchQuery(r)
      <4>1. /\ work'[r].todo = {t \in Present(txn) : FileOf[t] = work[r].file}
            /\ work'[r].file = work[r].file
        BY <3>1, PatchQueryEffect
      <4> QED
        BY <4>1 DEF OfOneFile
    <3>2. CASE PatchRowsDone(r) \/ Fail(r)
      BY <3>2, PatchRowsDoneEffect, FailEffect DEF OfOneFile
    <3>3. CASE \E t \in Txns : PatchRow(r, t)
      BY <2>1, <3>3, PatchRowEffect DEF OfOneFile, Filed
    <3> QED
      BY <1>3, <3>1, <3>2, <3>3
  <2> QED
    BY <2>1, <2>2, FiledFrame
<1>4. CASE \/ ImportPlan(r) \/ ImportInsert(r) \/ RebuildPut(r)
           \/ (\E t \in Txns : ImportPatch(r, t)) \/ \E c \in Clusters : RebuildRead(r, c) \/ ImportRetire(r, c)
  <2>1. /\ Others(r) /\ file' = file /\ snapshot' = snapshot /\ r \in Imports \cup Patches
        /\ pc[r] \in Unfiled /\ pc'[r] # "idle" /\ pc'[r] \notin {"query", "put rows"}
        /\ r \in Patches => pc[r] = "rebuild" /\ work'[r].file = work[r].file
    <3>1. CASE RebuildPut(r) \/ \E c \in Clusters : RebuildRead(r, c)
      BY <3>1, RebuildPutEffect, RebuildReadEffect, KindsApart DEF ledger, history, Unfiled
    <3>2. CASE \/ ImportPlan(r) \/ ImportInsert(r) \/ (\E t \in Txns : ImportPatch(r, t))
               \/ \E c \in Clusters : ImportRetire(r, c)
      BY <3>2, ImportPlanEffect, ImportInsertEffect, ImportPatchEffect, ImportRetireEffect, KindsApart
         DEF ledger, history, Unfiled
    <3> QED
      BY <1>4, <3>1, <3>2
  <2> QED
    BY <2>1, KindsApart, FiledFrame DEF OfOneFile
<1>5. CASE \E e \in Exports : RestoreWipe(r, e)
  <2>1. /\ Others(r) /\ snapshot' = snapshot /\ r \in Restores /\ \A f \in Files : file'[f] = Absent
    BY <1>5, RestoreWipeEffect
  <2> QED
    BY <2>1, KindsApart, FiledFrame
<1> QED
  BY <1>2, <1>3, <1>4, <1>5, FiledPatchFile, FiledImportRecord, FiledExportFiles, FiledCopy
     DEF Step

PatchCurrency(p) ==
    /\ pc[p] \in {"query", "put rows", "rebuild"} => file[work[p].file] = work[p].currency
    /\ pc[p] = "put rows" => \A t \in work[p].todo : work[p].rows[t].currency = work[p].currency
    /\ pc[p] \in {"put rows", "rebuild"} =>
         \A t \in Present(txn) : FileOf[t] = work[p].file =>
             txn[t].currency = work[p].currency \/ (pc[p] = "put rows" /\ t \in work[p].todo)
ImportCurrency(i) ==
    /\ pc[i] = "patch" => work[i].rows[NewRow[i]].currency = FirstCurrency
    /\ pc[i] \in {"rebuild", "retire"} => txn[NewRow[i]].currency = FirstCurrency

\* The file of t is in the hands of a patch that has not ended well.
Disputed(t) == \E p \in Patches : /\ pc[p] \in {"query", "put rows", "rebuild", "failed"}
                                  /\ work[p].file = FileOf[t]

Priced ==
    /\ \A t \in Present(txn) : \/ txn[t].currency \in {NoCurrency, file[FileOf[t]]}
                                \/ Disputed(t) \/ file[FileOf[t]] = Absent
    /\ \A p \in Patches : PatchCurrency(p)
    /\ \A i \in Imports : ImportCurrency(i)

\* What the property about currencies excepts has not happened.
OneByOne == NeverMet({{"patch", "restore"}}) /\ "patches of one file" \notin past

\* A step that changes no currency.
LEMMA PricedFrame ==
  ASSUME Typed, Priced, NEW r \in Requests, Others(r), file' = file,
         Present(txn') = Present(txn),
         \A t \in Present(txn) : txn'[t].currency = txn[t].currency,
         r \in Patches => /\ PatchCurrency(r)'
                          /\ \A t \in Present(txn) :
                               pc[r] \in {"query", "put rows", "rebuild", "failed"}
                                   /\ work[r].file = FileOf[t] =>
                                 pc'[r] \in {"query", "put rows", "rebuild", "failed"}
                                   /\ work'[r].file = FileOf[t],
         r \in Imports => ImportCurrency(r)'
  PROVE  Priced'
<1>1. ASSUME NEW p \in Patches PROVE PatchCurrency(p)'
  <2>1. CASE p = r
    BY <2>1
  <2>2. CASE p # r
    <3>1. PatchCurrency(p) /\ pc'[p] = pc[p] /\ work'[p] = work[p]
      BY <2>2, KindsApart DEF Others, Priced
    <3> QED
      BY <3>1 DEF PatchCurrency
  <2> QED
    BY <2>1, <2>2
<1>2. ASSUME NEW i \in Imports PROVE ImportCurrency(i)'
  <2>1. CASE i = r
    BY <2>1
  <2>2. CASE i # r
    <3>1. ImportCurrency(i) /\ pc'[i] = pc[i] /\ work'[i] = work[i]
      BY <2>2, KindsApart DEF Others, Priced
    <3>2. pc[i] \in {"rebuild", "retire"} => NewRow[i] \in Present(txn) \/ txn'[NewRow[i]] = txn[NewRow[i]]
      <4>1. NewRow[i] \notin Present(txn) => txn[NewRow[i]] = Absent /\ txn'[NewRow[i]] = Absent
        BY NewIds DEF Present
      <4> QED
        BY <4>1
    <3> QED
      BY <3>1, <3>2 DEF ImportCurrency
  <2> QED
    BY <2>1, <2>2
<1>3. ASSUME NEW t \in Present(txn'), Disputed(t) PROVE Disputed(t)'
  <2>1. PICK p \in Patches : /\ pc[p] \in {"query", "put rows", "rebuild", "failed"}
                             /\ work[p].file = FileOf[t]
    BY <1>3 DEF Disputed
  <2>2. p # r => pc'[p] = pc[p] /\ work'[p] = work[p]
    BY KindsApart DEF Others
  <2> QED
    BY <1>3, <2>1, <2>2 DEF Disputed
<1> QED
  BY <1>1, <1>2, <1>3 DEF Priced

LEMMA PricedPatchFile ==
  ASSUME Typed, Filed, Priced, NEW r \in Requests, PatchFile(r), OneByOne'
  PROVE  Priced'
<1> DEFINE f == work'[r].file
<1>1. /\ r \in Patches /\ Others(r) /\ pc[r] = "idle" /\ pc'[r] = "query" /\ f \in Files
      /\ file'[f] = work'[r].currency
      /\ \A g \in Files \ {f} : file'[g] = file[g]
  BY PatchFileEffect
<1>2. \A p \in Patches \ {r} : pc'[p] = pc[p] /\ work'[p] = work[p]
  BY KindsApart, <1>1 DEF Others
<1>3. txn' = txn
  BY PatchFileEffect
<1>0. \A p \in Running(Patches) : work[p].file # f
  <2>1. past' = past \cup {"patches of one file" : p \in {q \in Running(Patches) : work[q].file = f}}
    BY PatchFileEffect
  <2> QED
    BY <2>1 DEF OneByOne
<1>4. ASSUME NEW p \in Patches PROVE PatchCurrency(p)'
  <2>1. CASE p = r
    BY <1>1, <2>1 DEF PatchCurrency
  <2>2. CASE p # r
    <3>1. pc'[p] = pc[p] /\ work'[p] = work[p] /\ PatchCurrency(p) /\ PatchTyped(p)
      BY <1>2, <2>2 DEF Priced, Typed
    <3>2. pc[p] \in {"query", "put rows", "rebuild"} => file'[work[p].file] = file[work[p].file]
      <4>1. pc[p] \in {"query", "put rows", "rebuild"} => p \in Running(Patches)
        BY DEF Running, Ended
      <4> QED
        BY <1>0, <1>1, <3>1, <4>1 DEF PatchTyped
    <3> QED
      BY <1>3, <3>1, <3>2 DEF PatchCurrency
  <2> QED
    BY <2>1, <2>2
<1>5. ASSUME NEW i \in Imports PROVE ImportCurrency(i)'
  BY <1>1, <1>3, KindsApart DEF Others, Priced, ImportCurrency
<1>6. ASSUME NEW t \in Present(txn')
      PROVE  txn'[t].currency \in {NoCurrency, file'[FileOf[t]]} \/ Disputed(t)'
                \/ file'[FileOf[t]] = Absent
  <2>1. CASE FileOf[t] = f
    BY <1>1, <2>1 DEF Disputed
  <2>2. CASE FileOf[t] # f
    <3>1. file'[FileOf[t]] = file[FileOf[t]] /\ t \in Present(txn)
      BY <1>1, <1>3, <2>2, FilesOf DEF Present
    <3>2. Disputed(t) => Disputed(t)'
      BY <1>1, <1>2 DEF Disputed
    <3> QED
      BY <1>3, <3>1, <3>2 DEF Priced
  <2> QED
    BY <2>1, <2>2
<1> QED
  BY <1>4, <1>5, <1>6 DEF Priced

LEMMA PricedPatchRow ==
  ASSUME Typed, Accounted, Filed, Priced, NEW r \in Requests, NEW t \in Txns, PatchRow(r, t), OneByOne
  PROVE  Priced'
<1>1. /\ r \in Patches /\ Others(r) /\ pc[r] = "put rows" /\ pc'[r] = "put rows"
      /\ t \in work[r].todo
      /\ txn'[t] = work[r].rows[t] /\ txn'[t] # Absent
      /\ \A u \in Txns \ {t} : txn'[u] = txn[u]
      /\ work'[r].todo = work[r].todo \ {t} /\ work'[r].rows = work[r].rows
      /\ work'[r].file = work[r].file /\ work'[r].currency = work[r].currency
      /\ file' = file
  BY PatchRowEffect
<1>0. OfOneFile(r) /\ PatchCurrency(r)
  BY <1>1 DEF Filed, Priced
<1>2. FileOf[t] = work[r].file /\ txn'[t].currency = work[r].currency
  BY <1>0, <1>1 DEF OfOneFile, PatchCurrency
<1>3. \A u \in Present(txn') : u = t \/ (u \in Present(txn) /\ txn'[u] = txn[u])
  BY <1>1 DEF Present
<1>4. ASSUME NEW p \in Patches PROVE PatchCurrency(p)'
  <2>1. CASE p = r
    BY <1>0, <1>1, <1>2, <1>3, <2>1 DEF PatchCurrency
  <2>2. CASE p # r
    <3>1. pc'[p] = pc[p] /\ work'[p] = work[p] /\ PatchCurrency(p)
      BY <1>1, <2>2, KindsApart DEF Priced, Others
    <3>2. pc[p] \in {"put rows", "rebuild"} => work[p].file # work[r].file
      BY <1>1, <2>2 DEF Accounted, Doubled, OneByOne, Running, Ended
    <3> QED
      BY <1>1, <1>2, <1>3, <3>1, <3>2 DEF PatchCurrency
  <2> QED
    BY <2>1, <2>2
<1>5. ASSUME NEW i \in Imports PROVE ImportCurrency(i)'
  <2>1. ImportCurrency(i) /\ pc'[i] = pc[i] /\ work'[i] = work[i] /\ OwnFile(i) /\ NewRow[i] \in Txns
    BY <1>1, NewIds, KindsApart DEF Others, Priced, Filed
  <2>2. pc[i] \in Unfiled => txn'[NewRow[i]] = txn[NewRow[i]]
    BY <1>1, <1>2, <2>1 DEF OwnFile
  <2> QED
    BY <2>1, <2>2 DEF ImportCurrency, Unfiled
<1>6. ASSUME NEW u \in Present(txn')
      PROVE  txn'[u].currency \in {NoCurrency, file'[FileOf[u]]} \/ Disputed(u)'
                \/ file'[FileOf[u]] = Absent
  <2>1. CASE u = t
    BY <1>1, <1>2, <2>1 DEF Disputed
  <2>2. CASE u # t
    <3>1. txn'[u] = txn[u] /\ u \in Present(txn)
      BY <1>3, <2>2
    <3>2. ASSUME Disputed(u) PROVE Disputed(u)'
      <4>1. PICK p \in Patches : /\ pc[p] \in {"query", "put rows", "rebuild", "failed"}
                                 /\ work[p].file = FileOf[u]
        BY <3>2 DEF Disputed
      <4>2. pc'[p] = pc[p] /\ work'[p].file = work[p].file
        BY <1>1, KindsApart DEF Others
      <4> QED
        BY <4>1, <4>2 DEF Disputed
    <3> QED
      BY <1>1, <3>1, <3>2 DEF Priced
  <2> QED
    BY <2>1, <2>2
<1> QED
  BY <1>4, <1>5, <1>6 DEF Priced

LEMMA PricedRebuildPut ==
  ASSUME Typed, Priced, NEW r \in Requests, RebuildPut(r)
  PROVE  Priced'
<1>1. /\ Others(r) /\ r \in Patches \cup Imports /\ pc[r] = "rebuild"
      /\ r \in Imports => pc'[r] = "retire" /\ work'[r] = work[r]
      /\ r \notin Imports => pc'[r] = "ok" /\ work'[r].file = work[r].file
      /\ txn' = txn /\ file' = file
  BY RebuildPutEffect
<1>2. CASE r \in Imports
  <2>1. ImportCurrency(r)'
    BY <1>1, <1>2 DEF Priced, ImportCurrency
  <2> QED
    BY <1>1, <1>2, <2>1, KindsApart, PricedFrame
<1>3. CASE r \in Patches
  <2>1. pc'[r] = "ok" /\ r \notin Imports
    BY <1>1, <1>3, KindsApart
  <2>2. ASSUME NEW p \in Patches PROVE PatchCurrency(p)'
    <3>1. p # r => pc'[p] = pc[p] /\ work'[p] = work[p]
      BY <1>1, KindsApart DEF Others
    <3>2. PatchCurrency(p)
      BY DEF Priced
    <3> QED
      BY <1>1, <2>1, <3>1, <3>2 DEF PatchCurrency
  <2>3. ASSUME NEW i \in Imports PROVE ImportCurrency(i)'
    BY <1>1, <2>1, KindsApart DEF Others, Priced, ImportCurrency
  <2>4. ASSUME NEW t \in Present(txn')
        PROVE  txn'[t].currency \in {NoCurrency, file'[FileOf[t]]} \/ Disputed(t)'
                  \/ file'[FileOf[t]] = Absent
    <3>1. CASE FileOf[t] = work[r].file
      BY <1>1, <1>3, <3>1 DEF Priced, PatchCurrency
    <3>2. CASE FileOf[t] # work[r].file
      <4>1. \A p \in Patches \ {r} : pc'[p] = pc[p] /\ work'[p] = work[p]
        BY <1>1, KindsApart DEF Others
      <4>2. Disputed(t) => Disputed(t)'
        BY <3>2, <4>1 DEF Disputed
      <4> QED
        BY <1>1, <4>2 DEF Priced
    <3> QED
      BY <3>1, <3>2
  <2> QED
    BY <2>2, <2>3, <2>4 DEF Priced
<1> QED
  BY <1>1, <1>2, <1>3

LEMMA PricedImportInsert ==
  ASSUME Typed, Filed, Priced, NEW i \in Requests, ImportInsert(i)
  PROVE  Priced'
<1> DEFINE t == NewRow[i]
<1>1. /\ i \in Imports /\ Others(i) /\ pc[i] = "patch" /\ pc'[i] = "rebuild" /\ work' = work
      /\ \A u \in Txns \ {t} : txn'[u] = txn[u]
      /\ txn'[t] = work[i].rows[t] /\ txn'[t] # Absent /\ file' = file
  BY ImportInsertEffect
<1>2. /\ \A j \in Imports \ {i} : pc[j] \in {"idle", "ok"}
      /\ OwnFile(i) /\ pc[i] \in Unfiled
  BY <1>1, LockHeld DEF Ended, Filed, Unfiled
<1>3. \A q \in Patches \cup (Imports \ {i}) : pc'[q] = pc[q]
  BY <1>1, KindsApart DEF Others
<1>4. \A u \in Present(txn') : u = t \/ (u \in Present(txn) /\ txn'[u] = txn[u])
  BY <1>1 DEF Present
<1>5. ASSUME NEW p \in Patches PROVE PatchCurrency(p)'
  <2>1. PatchCurrency(p) /\ (pc[p] \in {"query", "put rows", "rebuild"} => work[p].file # FileOf[t])
    BY <1>2 DEF Priced, OwnFile
  <2> QED
    BY <1>1, <1>3, <1>4, <2>1 DEF PatchCurrency
<1>6. ASSUME NEW j \in Imports PROVE ImportCurrency(j)'
  BY <1>1, <1>2, <1>3 DEF ImportCurrency, Priced
<1>7. ASSUME NEW u \in Present(txn')
      PROVE  txn'[u].currency \in {NoCurrency, file'[FileOf[u]]} \/ Disputed(u)'
                \/ file'[FileOf[u]] = Absent
  <2>1. CASE u = t
    BY <1>1, <1>2, <2>1 DEF OwnFile
  <2>2. CASE u # t
    <3>1. u \in Present(txn) /\ txn'[u] = txn[u]
      BY <1>4, <2>2
    <3>2. Disputed(u) => Disputed(u)'
      BY <1>1, <1>3 DEF Disputed
    <3> QED
      BY <1>1, <3>1, <3>2 DEF Priced
  <2> QED
    BY <2>1, <2>2
<1> QED
  BY <1>5, <1>6, <1>7 DEF Priced

LEMMA PricedImportRecord ==
  ASSUME Typed, Filed, Priced, NEW i \in Requests, ImportRecord(i)
  PROVE  Priced'
<1> DEFINE f == FileOf[NewRow[i]]
<1>1. /\ i \in Imports /\ Others(i) /\ pc[i] = "retire" /\ pc'[i] = "metrics" /\ work' = work
      /\ file'[f] = FirstCurrency /\ \A g \in Files \ {f} : file'[g] = file[g]
      /\ txn' = txn
  BY ImportRecordEffect
<1>2. /\ \A j \in Imports \ {i} : pc[j] \in {"idle", "ok"}
      /\ OwnFile(i) /\ pc[i] \in Unfiled
  BY <1>1, LockHeld DEF Ended, Filed, Unfiled
<1>3. \A q \in Patches \cup (Imports \ {i}) : pc'[q] = pc[q]
  BY <1>1, KindsApart DEF Others
<1>4. ASSUME NEW p \in Patches PROVE PatchCurrency(p)'
  <2>1. /\ PatchCurrency(p) /\ PatchTyped(p)
        /\ pc[p] \in {"query", "put rows", "rebuild"} => work[p].file # f
    BY <1>2 DEF Priced, OwnFile, Typed
  <2>2. pc[p] \in {"query", "put rows", "rebuild"} => file'[work[p].file] = file[work[p].file]
    BY <1>1, <2>1 DEF PatchTyped
  <2> QED
    BY <1>1, <1>3, <2>1, <2>2 DEF PatchCurrency
<1>5. \A j \in Imports : ImportCurrency(j)'
  BY <1>1, <1>2, <1>3 DEF ImportCurrency
<1>6. ASSUME NEW u \in Present(txn')
      PROVE  txn'[u].currency \in {NoCurrency, file'[FileOf[u]]} \/ Disputed(u)'
                \/ file'[FileOf[u]] = Absent
  <2>1. CASE u = NewRow[i]
    BY <1>1, <2>1 DEF Priced, ImportCurrency
  <2>2. CASE u # NewRow[i]
    <3>1. u \in Txns /\ FileOf[u] \in Files /\ FileOf[u] # f
      BY <1>1, <2>2, NewIds, FilesOf DEF Present
    <3> QED
      BY <1>1, <1>3, <3>1 DEF Priced, Disputed
  <2> QED
    BY <2>1, <2>2
<1> QED
  BY <1>4, <1>5, <1>6 DEF Priced

LEMMA PricedRestore ==
  ASSUME Typed, Accounted, Restoring, Priced, NEW r \in Requests, OneByOne',
         (\E e \in Exports : RestoreWipe(r, e)) \/ RestoreCopy(r), OneByOne
  PROVE  Priced'
<1>1. /\ Others(r) /\ r \in Restores
      /\ \A i \in Imports : pc[i] \in Ended
      /\ \A p \in Patches : pc[p] \in Ended
      /\ \A t \in Present(txn') : txn'[t].currency = NoCurrency
  <2>1. CASE \E e \in Exports : RestoreWipe(r, e)
    <3>1. Others(r) /\ r \in Restores /\ LockFree /\ Meets(r) /\ Present(txn') = {}
      BY <2>1, RestoreWipeEffect DEF Present
    <3>2. \A p \in Patches : pc[p] \in Ended
      BY <3>1, StartsAlone DEF OneByOne
    <3> QED
      BY <3>1, <3>2 DEF LockFree, Running
  <2>2. CASE RestoreCopy(r)
    <3> DEFINE s == snapshot[work[r].from]
    <3>1. /\ Others(r) /\ r \in Restores /\ pc[r] = "copy"
          /\ Present(txn') = Present(txn) \cup Ids(s.txns)
          /\ \A t \in Ids(s.txns) : txn'[t].currency = NoCurrency
      BY <2>2, RestoreCopyEffect
    <3>2. Present(txn) = {}
      BY <3>1 DEF Restoring, Emptied, OneByOne
    <3> QED
      BY <3>1, <3>2, AloneWithRestore DEF OneByOne, Ended
  <2> QED
    BY <2>1, <2>2
<1>2. \A q \in Patches \cup Imports : pc'[q] \in Ended
  BY <1>1, KindsApart DEF Others
<1> QED
  BY <1>1, <1>2 DEF Priced, PatchCurrency, ImportCurrency, Ended

LEMMA PricedInit ==
  ASSUME Init
  PROVE  Priced
<1>1. \A r \in Requests : pc[r] = "idle"
  BY DEF Init
<1>2. ASSUME NEW t \in Present(txn) PROVE txn[t].currency = file[FileOf[t]]
  <2>1. t \in Stored /\ FileOf[t] \in Files
    BY FilesOf DEF Init, Present
  <2> QED
    BY <2>1 DEF Init, Txns
<1> QED
  BY <1>1, <1>2, KindsApart DEF Priced, PatchCurrency, ImportCurrency

LEMMA PricedOfPatch ==
  ASSUME Typed, Priced, NEW r \in Requests, PatchQuery(r) \/ PatchRowsDone(r)
  PROVE  Priced'
<1>1. /\ Others(r) /\ r \in Patches /\ txn' = txn /\ file' = file /\ PatchCurrency(r)
      /\ work'[r].file = work[r].file /\ work'[r].currency = work[r].currency
      /\ pc[r] \in {"query", "put rows"} /\ pc'[r] \in {"put rows", "rebuild"}
  BY PatchQueryEffect, PatchRowsDoneEffect DEF ledger, Priced
<1>2. CASE PatchQuery(r)
  <2>1. /\ pc[r] = "query" /\ work'[r].todo = {t \in Present(txn) : FileOf[t] = work[r].file}
        /\ \A t \in work'[r].todo : work'[r].rows[t].currency = work[r].currency
        /\ pc'[r] = "put rows"
    BY <1>2, PatchQueryEffect
  <2>2. PatchCurrency(r)'
    BY <1>1, <2>1 DEF PatchCurrency
  <2> QED
    BY <1>1, <2>2, KindsApart, PricedFrame
<1>3. CASE PatchRowsDone(r)
  <2>1. /\ pc[r] = "put rows" /\ pc'[r] = "rebuild" /\ work[r].todo = {} /\ work' = work
    BY <1>3, PatchRowsDoneEffect
  <2>2. PatchCurrency(r)'
    BY <1>1, <2>1 DEF PatchCurrency
  <2> QED
    BY <1>1, <2>2, KindsApart, PricedFrame
<1> QED
  BY <1>2, <1>3

LEMMA PricedOfTag ==
  ASSUME Typed, Priced, NEW r \in Requests,
         TagList(r) \/ TagCluster(r) \/ TagClusterAnew(r) \/ \E t \in Txns : TagRow(r, t)
  PROVE  Priced'
<1>1. /\ Others(r) /\ r \in Tags /\ file' = file
  BY TagListEffect, TagClusterEffect, TagClusterAnewEffect, TagRowEffect
<1>2. Present(txn') = Present(txn) /\ \A t \in Present(txn) : txn'[t].currency = txn[t].currency
  <2>1. CASE TagList(r) \/ TagCluster(r) \/ TagClusterAnew(r)
    BY <2>1, TagListEffect, TagClusterEffect, TagClusterAnewEffect
  <2>2. CASE \E t \in Txns : TagRow(r, t)
    BY <2>2, TagRowEffect DEF Present
  <2> QED
    BY <2>1, <2>2
<1> QED
  BY <1>1, <1>2, KindsApart, PricedFrame

LEMMA PricedOfImport ==
  ASSUME Typed, Priced, NEW i \in Requests,
         ImportPlan(i) \/ (\E t \in Txns : ImportPatch(i, t)) \/ \E c \in Clusters : ImportRetire(i, c)
  PROVE  Priced'
<1>1. /\ Others(i) /\ i \in Imports /\ file' = file /\ ImportCurrency(i)
  BY ImportPlanEffect, ImportPatchEffect, ImportRetireEffect DEF ledger, Priced
<1>2. /\ Present(txn') = Present(txn)
      /\ \A t \in Present(txn) : txn'[t].currency = txn[t].currency
      /\ ImportCurrency(i)'
  <2>1. CASE ImportPlan(i)
    BY <2>1, ImportPlanEffect DEF ledger, ImportCurrency
  <2>2. CASE \E t \in Txns : ImportPatch(i, t)
    <3> PICK t \in Txns : ImportPatch(i, t)
      BY <2>2
    <3>1. /\ pc[i] = "patch" /\ pc'[i] = "patch" /\ t \in Present(txn)
          /\ \A u \in Txns \ {t} : txn'[u] = txn[u]
          /\ txn'[t] # Absent /\ txn'[t].currency = txn[t].currency
          /\ work'[i].rows = work[i].rows
      BY ImportPatchEffect
    <3> QED
      BY <1>1, <3>1 DEF Present, ImportCurrency
  <2>3. CASE \E c \in Clusters : ImportRetire(i, c)
    BY <1>1, <2>3, ImportRetireEffect DEF ImportCurrency
  <2> QED
    BY <2>1, <2>2, <2>3
<1> QED
  BY <1>1, <1>2, KindsApart, PricedFrame

LEMMA PricedOfOthers ==
  ASSUME Typed, Priced, NEW r \in Requests,
         \/ MetricsList(r) \/ MetricsPut(r) \/ Fail(r)
         \/ ExportClusters(r) \/ ExportFiles(r) \/ ExportTxns(r)
         \/ \E c \in Clusters : RebuildRead(r, c)
  PROVE  Priced'
<1>1. Others(r) /\ txn' = txn /\ file' = file
  BY MetricsListEffect, MetricsPutEffect, FailEffect, ExportClustersEffect, ExportFilesEffect,
     ExportTxnsEffect, RebuildReadEffect DEF ledger
<1>2. CASE MetricsList(r) \/ MetricsPut(r) \/ ExportClusters(r) \/ ExportFiles(r) \/ ExportTxns(r)
  <2>1. r \in Tags \cup Imports \cup Exports \cup Restores /\ pc'[r] \in {"metrics put", "ok", "files", "txns"}
    BY <1>2, MetricsListEffect, MetricsPutEffect, ExportClustersEffect, ExportFilesEffect,
       ExportTxnsEffect
  <2> QED
    BY <1>1, <2>1, KindsApart, PricedFrame DEF ImportCurrency
<1>3. CASE Fail(r)
  <2>1. pc'[r] = "failed" /\ work'[r].file = work[r].file /\ r \in Tags \cup Patches
    BY <1>3, FailEffect
  <2> QED
    BY <1>1, <2>1, KindsApart, PricedFrame DEF PatchCurrency
<1>4. CASE \E c \in Clusters : RebuildRead(r, c)
  <2>1. /\ pc[r] = "rebuild" /\ pc'[r] = "rebuild" /\ r \in Patches \cup Imports
        /\ work'[r].file = work[r].file /\ work'[r].currency = work[r].currency
    BY <1>4, RebuildReadEffect
  <2>2. (r \in Patches => PatchCurrency(r)') /\ (r \in Imports => ImportCurrency(r)')
    BY <1>1, <2>1 DEF Priced, PatchCurrency, ImportCurrency
  <2> QED
    BY <1>1, <2>1, <2>2, PricedFrame
<1> QED
  BY <1>2, <1>3, <1>4

LEMMA PricedNext ==
  ASSUME Typed, Accounted, Restoring, Filed, OneByOne => Priced, [Next]_vars, OneByOne'
  PROVE  Priced'
<1>0. Priced /\ OneByOne
  BY NotBefore DEF OneByOne
<1>1. CASE UNCHANGED vars
  <2>1. /\ txn' = txn /\ file' = file /\ pc' = pc /\ work' = work
    BY <1>1 DEF vars, ledger
  <2> QED
    BY <1>0, <2>1 DEF Priced, Disputed, PatchCurrency, ImportCurrency
<1> SUFFICES ASSUME NEW r \in Requests, Step(r)
             PROVE  Priced'
  BY <1>1, NextIsStep
<1> QED
  BY <1>0, PricedPatchFile, PricedPatchRow, PricedRebuildPut, PricedImportInsert,
     PricedImportRecord, PricedRestore, PricedOfPatch, PricedOfTag, PricedOfImport, PricedOfOthers
     DEF Step

(* A transaction whose currency differs from that of its FILE row belongs  *)
(* to a file whose patch runs or has failed, or was put by a restore, or   *)
(* its file has no row, also when tags, imports and patches of other files *)
(* run beside it; no patch has run beside a restore or beside a patch of   *)
(* the same file.                                                          *)
THEOREM CurrencyKept == Spec => []CurrencyUniform
<1> DEFINE I == Base /\ Filed /\ (OneByOne => Priced)
<1>1. Init => I
  BY BaseInit, FiledInit, PricedInit
<1>2. I /\ [Next]_vars => I'
  BY BaseNext, FiledNext, PricedNext DEF Base
<1>3. I => CurrencyUniform
  BY DEF OneByOne, Priced, Disputed, CurrencyUniform
<1> QED
  BY <1>1, <1>2, <1>3, PTL DEF Spec

----------------------------------------------------------------------------
(* Counts                                                                  *)

Right(row, members) == row # Absent => row.size = Cardinality(members)
Saved(e, c) == {t \in Txns : \E x \in snapshot[e].txns : x.id = t /\ x.cluster = c}

\* The rows that are there and that no import is about to delete.
RowsRight ==
    \A c \in Clusters : (\A i \in Imports : c \notin work[i].retire) => Right(agg[c], Members(txn, c))
\* The items that a rebuild will put.
ItemsRight(r) ==
    pc[r] = "rebuild" => \A c \in Clusters : Right(work[r].aggs[c], Members(txn, c))
SnapshotRight(e) ==
    \A x \in snapshot[e].clusters :
        /\ Reading(e) => Right(x.row, Members(txn, x.id))
        /\ quiet[e] /\ pc[e] = "ok" => Right(x.row, Saved(e, x.id))

CountsRight ==
    /\ RowsRight
    /\ \A r \in Patches \cup Imports : ItemsRight(r)
    /\ \A e \in Exports : SnapshotRight(e)

\* What the property about counts excepts has not happened.
Countable == NoPatchBeside /\ past \cap {"torn backup", "stale count"} = {}

\* A step that moves no transaction, of a request that is no export.
LEMMA CountsFrame ==
  ASSUME Typed, CountsRight, NEW r \in Requests, Others(r), r \notin Exports,
         SamePlaces, snapshot' = snapshot, \A e \in Exports : quiet'[e] => quiet[e],
         RowsRight', r \in Patches \cup Imports => ItemsRight(r)'
  PROVE  CountsRight'
<1>1. \A c : Members(txn', c) = Members(txn, c)
  BY SameMembers
<1>2. ASSUME NEW q \in Patches \cup Imports PROVE ItemsRight(q)'
  <2>1. CASE q = r
    BY <2>1
  <2>2. CASE q # r
    <3>1. pc'[q] = pc[q] /\ work'[q] = work[q] /\ ItemsRight(q)
      BY <2>2, KindsApart DEF Others, CountsRight
    <3> QED
      BY <1>1, <3>1 DEF ItemsRight
  <2> QED
    BY <2>1, <2>2
<1>3. ASSUME NEW e \in Exports PROVE SnapshotRight(e)'
  <2>1. pc'[e] = pc[e] /\ SnapshotRight(e)
    BY KindsApart DEF Others, CountsRight
  <2>2. (Reading(e)' => Reading(e)) /\ (quiet'[e] => quiet[e])
    BY <2>1 DEF Reading
  <2>3. \A c : Saved(e, c)' = Saved(e, c)
    BY DEF Saved
  <2> QED
    BY <1>1, <2>1, <2>2, <2>3 DEF SnapshotRight
<1> QED
  BY <1>2, <1>3 DEF CountsRight

\* The CLUSTER rows and what the imports will delete are as they were.
LEMMA SameRowsRight ==
  ASSUME CountsRight, SamePlaces, agg' = agg,
         \A i \in Imports : work[i].retire \subseteq work'[i].retire
  PROVE  RowsRight'
BY SameMembers DEF CountsRight, RowsRight

LEMMA SameRetire ==
  ASSUME NEW r \in Requests, Others(r), r \in Imports => work'[r].retire = work[r].retire
  PROVE  \A i \in Imports : work'[i].retire = work[i].retire
BY KindsApart DEF Others

LEMMA NoRetire ==
  ASSUME Placed, NEW i \in Imports, pc[i] \notin {"patch", "rebuild", "retire"}
  PROVE  work[i].retire = {}
BY DEF Placed, ImportPlaces

\* A tag finds the row of its cluster gone only when the cluster has no member.
LEMMA GoneIsEmpty ==
  ASSUME Typed, Placed, NEW g \in Tags, pc[g] = "tag", agg[work[g].cluster] = Absent
  PROVE  Members(txn, work[g].cluster) = {}
<1> SUFFICES ASSUME NEW t \in Members(txn, work[g].cluster) PROVE FALSE
  OBVIOUS
<1>1. t \in Present(txn) /\ txn[t].cluster = work[g].cluster
  BY DEF Members
<1>2. Kept(t) /\ txn[t].cluster \notin ClustersNow
  BY <1>1 DEF Placed, ClustersNow
<1> PICK i \in Imports : Moved(i, t)
  BY <1>2 DEF Kept
<1>3. Fresh(i) /\ ImportPlaces(i) /\ txn[t].cluster \in Clusters
  BY <1>1, RowFields DEF Placed
<1>4. txn[t].cluster \in Mint(i)
  BY <1>1, <1>3 DEF Moved, ImportPlaces
<1>5. txn[t].cluster \notin Mint(i)
  BY <1>1, <1>3 DEF Moved, Fresh, Unminted
<1> QED
  BY <1>4, <1>5

LEMMA CountsOfTag ==
  ASSUME Typed, Placed, CountsRight, NEW r \in Requests, Countable',
         TagList(r) \/ TagCluster(r) \/ TagClusterAnew(r) \/ \E t \in Txns : TagRow(r, t)
  PROVE  CountsRight'
<1>1. /\ Others(r) /\ r \in Tags /\ snapshot' = snapshot /\ quiet' = quiet
  BY TagListEffect, TagClusterEffect, TagClusterAnewEffect, TagRowEffect DEF history
<1>2. \A i \in Imports : work'[i].retire = work[i].retire
  BY <1>1, SameRetire, KindsApart
<1>3. CASE TagList(r) \/ \E t \in Txns : TagRow(r, t)
  <2>1. SamePlaces /\ agg' = agg
    <3>1. CASE TagList(r)
      BY <3>1, TagListEffect DEF SamePlaces
    <3>2. CASE \E t \in Txns : TagRow(r, t)
      <4> PICK t \in Txns : TagRow(r, t)
        BY <3>2
      <4> QED
        BY TagRowEffect DEF SamePlaces, Present
    <3> QED
      BY <1>3, <3>1, <3>2
  <2>2. RowsRight'
    BY <1>2, <2>1, SameRowsRight
  <2> QED
    BY <1>1, <2>1, <2>2, CountsFrame, KindsApart
<1>4. CASE TagCluster(r) \/ TagClusterAnew(r)
  <2> DEFINE d == work[r].cluster
  <2>1. /\ pc[r] = "tag" /\ d \in Clusters /\ \A c \in Clusters \ {d} : agg'[c] = agg[c]
        /\ txn' = txn
    BY <1>4, TagClusterEffect, TagClusterAnewEffect
  <2>2. SamePlaces
    BY <2>1 DEF SamePlaces
  <2>3. \/ Right(agg'[d], Members(txn, d))
        \/ agg[d] # Absent /\ agg'[d].size = agg[d].size
    <3>1. agg[d] = Absent => Members(txn, d) = {}
      BY <1>1, <2>1, GoneIsEmpty
    <3>2. CASE TagCluster(r)
      <4>1. IF agg[d] = Absent THEN agg'[d].size = 0 ELSE agg'[d].size = agg[d].size
        BY <3>2, TagClusterEffect
      <4> QED
        BY <3>1, <4>1, FS_EmptySet DEF Right
    <3>3. CASE TagClusterAnew(r)
      <4>1. "stale count" \in past' \/ agg'[d].size = Cardinality(Members(txn, d))
        BY <3>3, TagClusterAnewEffect
      <4> QED
        BY <4>1 DEF Right, Countable
    <3> QED
      BY <1>4, <3>2, <3>3
  <2>4. RowsRight'
    <3> SUFFICES ASSUME NEW c \in Clusters, \A i \in Imports : c \notin work[i].retire
                 PROVE  Right(agg'[c], Members(txn, c))
      BY <1>2, <2>1 DEF RowsRight
    <3>1. Right(agg[c], Members(txn, c))
      BY DEF CountsRight, RowsRight
    <3> HIDE DEF d
    <3> QED
      BY <2>1, <2>3, <3>1 DEF Right
  <2> QED
    BY <1>1, <2>2, <2>4, CountsFrame, KindsApart
<1> QED
  BY <1>3, <1>4

LEMMA CountsOfPatch ==
  ASSUME Typed, Placed, CountsRight, NEW r \in Requests,
         PatchFile(r) \/ PatchQuery(r) \/ PatchRowsDone(r) \/ \E t \in Txns : PatchRow(r, t)
  PROVE  CountsRight'
<1>1. /\ Others(r) /\ r \in Patches /\ agg' = agg /\ snapshot' = snapshot
      /\ \A e \in Exports : quiet'[e] => quiet[e]
  BY PatchFileEffect, PatchQueryEffect, PatchRowsDoneEffect, PatchRowEffect DEF ledger, history
<1>2. SamePlaces
  <2>1. CASE PatchFile(r) \/ PatchQuery(r) \/ PatchRowsDone(r)
    BY <2>1, PatchFileEffect, PatchQueryEffect, PatchRowsDoneEffect DEF ledger, SamePlaces
  <2>2. CASE \E t \in Txns : PatchRow(r, t)
    <3> PICK t \in Txns : PatchRow(r, t)
      BY <2>2
    <3>1. /\ pc[r] = "put rows" /\ t \in work[r].todo
          /\ txn'[t] = work[r].rows[t] /\ txn'[t] # Absent
          /\ \A u \in Txns \ {t} : txn'[u] = txn[u]
      BY PatchRowEffect
    <3>2. t \in Present(txn) /\ work[r].rows[t].cluster = txn[t].cluster
      BY <1>1, <3>1 DEF Placed, PatchPlaces
    <3> QED
      BY <3>1, <3>2 DEF SamePlaces, Present
  <2> QED
    BY <2>1, <2>2
<1>3. ItemsRight(r)'
  <2>1. CASE PatchRowsDone(r)
    <3>1. work'[r].aggs = NoWork.aggs
      BY <2>1, PatchRowsDoneEffect
    <3> QED
      BY <3>1, NoAggs DEF ItemsRight, Right
  <2>2. CASE PatchFile(r) \/ PatchQuery(r) \/ \E t \in Txns : PatchRow(r, t)
    <3>1. pc'[r] # "rebuild"
      BY <2>2, PatchFileEffect, PatchQueryEffect, PatchRowEffect
    <3> QED
      BY <3>1 DEF ItemsRight
  <2> QED
    BY <2>1, <2>2
<1>4. RowsRight'
  BY <1>1, <1>2, SameRetire, SameRowsRight, KindsApart
<1> QED
  BY <1>1, <1>2, <1>3, <1>4, CountsFrame, KindsApart

LEMMA CountsOfRebuild ==
  ASSUME Typed, Placed, CountsRight, NEW r \in Requests,
         RebuildPut(r) \/ \E c \in Clusters : RebuildRead(r, c)
  PROVE  CountsRight'
<1>1. /\ Others(r) /\ r \in Patches \cup Imports /\ txn' = txn /\ snapshot' = snapshot
      /\ quiet' = quiet /\ pc[r] = "rebuild"
  BY RebuildPutEffect, RebuildReadEffect DEF ledger, history
<1>2. SamePlaces
  BY <1>1 DEF SamePlaces
<1>3. r \in Imports => work'[r].retire = work[r].retire
  BY RebuildPutEffect, RebuildReadEffect
<1>4. \A i \in Imports : work'[i].retire = work[i].retire
  BY <1>1, <1>3, SameRetire
<1>5. \A c \in Clusters : Right(work[r].aggs[c], Members(txn, c))
  BY <1>1 DEF CountsRight, ItemsRight
<1>6. CASE RebuildPut(r)
  <2>1. /\ \A c \in Clusters : agg'[c] = IF work[r].aggs[c] # Absent THEN work[r].aggs[c] ELSE agg[c]
        /\ pc'[r] # "rebuild"
    BY <1>6, RebuildPutEffect
  <2>2. RowsRight'
    BY <1>1, <1>4, <1>5, <2>1 DEF CountsRight, RowsRight
  <2>3. ItemsRight(r)'
    BY <2>1 DEF ItemsRight
  <2> QED
    BY <1>1, <1>2, <2>2, <2>3, CountsFrame, KindsApart
<1>7. CASE \E c \in Clusters : RebuildRead(r, c)
  <2> PICK c \in Clusters : RebuildRead(r, c)
    BY <1>7
  <2>1. /\ work'[r].aggs[c] = Aggregate(txn, c) /\ agg' = agg
        /\ \A d \in Clusters \ {c} : work'[r].aggs[d] = work[r].aggs[d]
    BY RebuildReadEffect DEF ledger
  <2>2. ItemsRight(r)'
    <3>1. Right(work'[r].aggs[c], Members(txn, c))
      BY <2>1, AggregateTyped DEF Right
    <3> QED
      BY <1>1, <1>5, <2>1, <3>1 DEF ItemsRight
  <2>3. RowsRight'
    BY <1>2, <1>4, <2>1, SameRowsRight
  <2> QED
    BY <1>1, <1>2, <2>2, <2>3, CountsFrame, KindsApart
<1> QED
  BY <1>6, <1>7

LEMMA CountsOfMetricsOrFail ==
  ASSUME Typed, Placed, CountsRight, NEW r \in Requests, MetricsList(r) \/ MetricsPut(r) \/ Fail(r)
  PROVE  CountsRight'
<1>1. /\ Others(r) /\ r \notin Exports /\ txn' = txn /\ agg' = agg
      /\ snapshot' = snapshot /\ quiet' = quiet /\ pc'[r] \in {"metrics put", "ok", "failed"}
  BY MetricsListEffect, MetricsPutEffect, FailEffect, KindsApart DEF ledger, history
<1>2. SamePlaces
  BY <1>1 DEF SamePlaces
<1>3. ASSUME r \in Imports PROVE work[r].retire \subseteq work'[r].retire
  <2>1. pc[r] \in {"metrics", "metrics put"}
    BY <1>3, KindsApart, MetricsListEffect, MetricsPutEffect, FailEffect
  <2> QED
    BY <1>3, <2>1, NoRetire
<1>4. RowsRight'
  <2>1. \A i \in Imports : work[i].retire \subseteq work'[i].retire
    BY <1>1, <1>3, KindsApart DEF Others
  <2> QED
    BY <1>1, <1>2, <2>1, SameRowsRight
<1> QED
  BY <1>1, <1>2, <1>4, CountsFrame, KindsApart DEF ItemsRight

\* An import that plans, deletes an old row, or records its file.
LEMMA CountsOfImport ==
  ASSUME Typed, Placed, CountsRight, NEW i \in Requests,
         ImportPlan(i) \/ ImportRecord(i) \/ \E c \in Clusters : ImportRetire(i, c)
  PROVE  CountsRight'
<1>1. /\ Others(i) /\ i \in Imports /\ txn' = txn /\ snapshot' = snapshot
      /\ \A e \in Exports : quiet'[e] => quiet[e]
      /\ pc'[i] \in {"patch", "metrics", "retire"}
  BY ImportPlanEffect, ImportRecordEffect, ImportRetireEffect DEF ledger, history
<1>2. SamePlaces
  BY <1>1 DEF SamePlaces
<1>3. RowsRight'
  <2>1. CASE ImportPlan(i) \/ ImportRecord(i)
    <3>1. agg' = agg
      BY <2>1, ImportPlanEffect, ImportRecordEffect DEF ledger
    <3>2. work[i].retire \subseteq work'[i].retire
      <4>1. CASE ImportPlan(i)
        BY <1>1, <4>1, ImportPlanEffect, NoRetire
      <4>2. CASE ImportRecord(i)
        BY <4>2, ImportRecordEffect
      <4> QED
        BY <2>1, <4>1, <4>2
    <3>3. \A j \in Imports : work[j].retire \subseteq work'[j].retire
      BY <1>1, <3>2, KindsApart DEF Others
    <3> QED
      BY <1>2, <3>1, <3>3, SameRowsRight
  <2>2. CASE \E c \in Clusters : ImportRetire(i, c)
    <3> PICK c \in Clusters : ImportRetire(i, c)
      BY <2>2
    <3>1. /\ agg'[c] = Absent /\ \A d \in Clusters \ {c} : agg'[d] = agg[d]
          /\ work'[i].retire = work[i].retire \ {c}
      BY ImportRetireEffect
    <3>2. \A j \in Imports \ {i} : work'[j].retire = work[j].retire
      BY <1>1, KindsApart DEF Others
    <3> QED
      BY <1>1, <3>1, <3>2 DEF CountsRight, RowsRight, Right
  <2> QED
    BY <2>1, <2>2
<1> QED
  BY <1>1, <1>2, <1>3, CountsFrame, KindsApart DEF ItemsRight

\* An import moves a transaction out of a cluster that it will delete, into one
\* that has no row yet.
LEMMA CountsOfMove ==
  ASSUME Typed, Apart, Placed, CountsRight, NEW i \in Imports, Others(i), pc[i] = "patch",
         NEW t \in Txns, \A u \in Txns \ {t} : txn'[u] = txn[u],
         txn'[t] # Absent, txn'[t].cluster \in Mint(i),
         t \in Present(txn) => txn[t].cluster \in work[i].retire \cup Mint(i),
         agg' = agg, snapshot' = snapshot, quiet' = quiet,
         work'[i].retire = work[i].retire, ItemsRight(i)'
  PROVE  CountsRight'
<1>1. /\ \A j \in Imports \ {i} : pc[j] \in {"idle", "ok"}
      /\ \A p \in Patches : pc[p] \in Ended
  BY Alone DEF Ended
<1>2. \A q \in Requests \ {i} : pc'[q] = pc[q] /\ work'[q] = work[q]
  BY DEF Others
<1>3. \A q \in Patches \cup Imports : ItemsRight(q)'
  BY <1>1, <1>2, KindsApart DEF ItemsRight, Ended
<1>4. RowsRight'
  <2> SUFFICES ASSUME NEW c \in Clusters, \A j \in Imports : c \notin work'[j].retire
               PROVE  Right(agg'[c], Members(txn', c))
    BY DEF RowsRight
  <2>1. \A j \in Imports : c \notin work[j].retire
    BY <1>2, KindsApart
  <2>2. Right(agg[c], Members(txn, c))
    BY <2>1 DEF CountsRight, RowsRight
  <2>3. CASE c \in Mint(i)
    <3>1. agg[c] = Absent
      BY <2>3 DEF Placed, Fresh, Unminted
    <3> QED
      BY <3>1 DEF Right
  <2>4. CASE c \notin Mint(i)
    <3>1. Members(txn', c) = Members(txn, c)
      BY <2>1, <2>4 DEF Members, Present
    <3> QED
      BY <2>2, <3>1
  <2> QED
    BY <2>3, <2>4
<1>5. ASSUME NEW e \in Exports PROVE SnapshotRight(e)'
  <2>1. pc'[e] = pc[e] /\ SnapshotRight(e) /\ WholeSnapshot(e)
    BY <1>2, KindsApart DEF CountsRight, Placed
  <2>2. ~ Reading(e)
    <3>1. i \in Running(Imports \cup Patches \cup Restores)
      BY DEF Running, Ended
    <3> QED
      BY <2>1, <3>1 DEF WholeSnapshot
  <2>3. ~ Reading(e)' /\ \A c : Saved(e, c)' = Saved(e, c)
    BY <2>1, <2>2 DEF Reading, Saved
  <2> QED
    BY <2>1, <2>3 DEF SnapshotRight
<1> QED
  BY <1>3, <1>4, <1>5 DEF CountsRight

LEMMA CountsOfImportPatch ==
  ASSUME Typed, Apart, Placed, CountsRight, NEW i \in Requests, NEW t \in Txns, ImportPatch(i, t)
  PROVE  CountsRight'
<1>1. /\ i \in Imports /\ Others(i) /\ pc[i] = "patch" /\ pc'[i] = "patch"
      /\ t \in Present(txn) /\ t \in work[i].todo
      /\ \A u \in Txns \ {t} : txn'[u] = txn[u]
      /\ txn'[t] # Absent /\ txn'[t].cluster = work[i].rows[t].cluster
      /\ work'[i].retire = work[i].retire
      /\ agg' = agg /\ snapshot' = snapshot /\ quiet' = quiet
  BY ImportPatchEffect DEF history
<1>2. txn'[t].cluster \in Mint(i) /\ txn[t].cluster \in work[i].retire
  BY <1>1 DEF Placed, ImportPlaces
<1>3. ItemsRight(i)'
  BY <1>1 DEF ItemsRight
<1> QED
  BY <1>1, <1>2, <1>3, CountsOfMove

LEMMA CountsOfImportInsert ==
  ASSUME Typed, Apart, Placed, CountsRight, NEW i \in Requests, ImportInsert(i)
  PROVE  CountsRight'
<1> DEFINE t == NewRow[i]
<1>1. /\ i \in Imports /\ Others(i) /\ pc[i] = "patch" /\ work[i].todo = {}
      /\ \A u \in Txns \ {t} : txn'[u] = txn[u]
      /\ txn'[t] = work[i].rows[t] /\ txn'[t] # Absent
      /\ work' = work /\ work[i].aggs = NoWork.aggs
      /\ agg' = agg /\ snapshot' = snapshot /\ quiet' = quiet
  BY ImportInsertEffect DEF history
<1>2. t \in Txns
  BY <1>1, NewIds
<1>3. /\ txn'[t].cluster \in Mint(i)
      /\ t \in Present(txn) => txn[t].cluster \in work[i].retire \cup Mint(i)
  BY <1>1 DEF Placed, ImportPlaces
<1>4. ItemsRight(i)'
  BY <1>1, NoAggs DEF ItemsRight, Right
<1> HIDE DEF t
<1> QED
  BY <1>1, <1>2, <1>3, <1>4, CountsOfMove

\* The step of an export.
LEMMA CountsOfExport ==
  ASSUME Typed, Placed, CountsRight, NEW e \in Requests,
         ExportClusters(e) \/ ExportFiles(e) \/ ExportTxns(e)
  PROVE  CountsRight'
<1>1. /\ e \in Exports /\ Others(e) /\ work' = work /\ txn' = txn /\ agg' = agg
      /\ \A f \in Exports \ {e} : snapshot'[f] = snapshot[f] /\ quiet'[f] = quiet[f]
  BY ExportClustersEffect, ExportFilesEffect, ExportTxnsEffect DEF ledger, history
<1>2. RowsRight'
  BY <1>1 DEF CountsRight, RowsRight
<1>3. ASSUME NEW q \in Patches \cup Imports PROVE ItemsRight(q)'
  BY <1>1, KindsApart DEF CountsRight, ItemsRight, Others
<1>4. ASSUME NEW f \in Exports PROVE SnapshotRight(f)'
  <2>1. CASE f # e
    <3>1. /\ pc'[f] = pc[f] /\ snapshot'[f] = snapshot[f] /\ quiet'[f] = quiet[f]
          /\ SnapshotRight(f)
      BY <1>1, <2>1, KindsApart DEF Others, CountsRight
    <3> QED
      BY <1>1, <3>1 DEF SnapshotRight, Reading, Saved
  <2>2. CASE f = e /\ ExportClusters(e)
    <3>1. /\ pc'[e] = "files" /\ \A x \in snapshot'[e].clusters : x.id \in ClustersNow /\ x.row = agg[x.id]
          /\ quiet'[e] <=> Running(Imports \cup Patches \cup Restores) = {}
      BY <2>2, ExportClustersEffect
    <3>2. ASSUME quiet'[e], NEW c \in ClustersNow PROVE Right(agg[c], Members(txn, c))
      <4>1. \A i \in Imports : pc[i] \in Ended
        BY <3>1, <3>2 DEF Running
      <4>2. \A i \in Imports : work[i].retire = {}
        BY <4>1, NoRetire DEF Ended
      <4> QED
        BY <3>2, <4>2 DEF CountsRight, RowsRight, ClustersNow
    <3> QED
      BY <1>1, <2>2, <3>1, <3>2 DEF SnapshotRight, Reading
  <2>3. CASE f = e /\ ExportFiles(e)
    <3>1. /\ pc[e] = "files" /\ pc'[e] = "txns" /\ quiet' = quiet
          /\ snapshot'[e].clusters = snapshot[e].clusters
      BY <2>3, ExportFilesEffect DEF history
    <3> QED
      BY <1>1, <2>3, <3>1 DEF CountsRight, SnapshotRight, Reading
  <2>4. CASE f = e /\ ExportTxns(e)
    <3>1. /\ pc[e] = "txns" /\ pc'[e] = "ok" /\ quiet' = quiet
          /\ snapshot'[e].clusters = snapshot[e].clusters
          /\ \A x \in snapshot'[e].txns : x.id \in Present(txn) /\ x.cluster = txn[x.id].cluster
          /\ \A t \in Present(txn) : \E x \in snapshot'[e].txns : x.id = t
      BY <2>4, ExportTxnsEffect DEF history
    <3>2. ASSUME NEW c PROVE Saved(e, c)' = Members(txn, c)
      <4>1. Present(txn) \subseteq Txns
        BY DEF Present
      <4>2. \A t \in Present(txn) : \E x \in snapshot'[e].txns : x.id = t /\ x.cluster = txn[t].cluster
        BY <3>1
      <4> QED
        BY <3>1, <4>1, <4>2 DEF Saved, Members
    <3> QED
      BY <1>1, <2>4, <3>1, <3>2 DEF CountsRight, SnapshotRight, Reading
  <2> QED
    BY <2>1, <2>2, <2>3, <2>4
<1> QED
  BY <1>2, <1>3, <1>4 DEF CountsRight

LEMMA CountsOfWipe ==
  ASSUME Typed, Apart, Placed, CountsRight, NEW r \in Requests, NEW e \in Exports, RestoreWipe(r, e),
         Countable'
  PROVE  CountsRight'
<1>1. /\ Others(r) /\ r \in Restores /\ snapshot' = snapshot /\ LockFree /\ Meets(r)
      /\ \A c \in Clusters : agg'[c] = Absent
      /\ \A x \in Exports : quiet'[x] <=> quiet[x] /\ pc[x] = "ok"
  BY RestoreWipeEffect
<1>2. \A q \in Patches \cup Imports \cup Exports : pc'[q] = pc[q]
  BY <1>1, KindsApart DEF Others
<1>3. \A q \in Patches \cup Imports : pc[q] \in Ended
  BY <1>1, StartsAlone DEF Countable, NoPatchBeside, NeverMet, LockFree, Running
<1>4. RowsRight'
  BY <1>1 DEF RowsRight, Right
<1>5. \A q \in Patches \cup Imports : ItemsRight(q)'
  BY <1>2, <1>3 DEF ItemsRight, Ended
<1>6. ASSUME NEW f \in Exports PROVE SnapshotRight(f)'
  <2>1. SnapshotRight(f) /\ pc'[f] = pc[f] /\ ~ Reading(f)' /\ (quiet'[f] => quiet[f])
    BY <1>1, <1>2 DEF CountsRight, Reading
  <2>2. \A c : Saved(f, c)' = Saved(f, c)
    BY <1>1 DEF Saved
  <2> QED
    BY <1>1, <2>1, <2>2 DEF SnapshotRight
<1> QED
  BY <1>4, <1>5, <1>6 DEF CountsRight

\* Before the copy no transaction is there, and after it those of the backup.
LEMMA CountsOfCopy ==
  ASSUME Typed, Apart, Restoring, Placed, CountsRight, NEW r \in Requests, RestoreCopy(r),
         Countable
  PROVE  CountsRight'
<1> DEFINE e == work[r].from
           s == snapshot[e]
<1>1. /\ Others(r) /\ r \in Restores /\ e \in Exports /\ pc[r] = "copy"
      /\ Present(txn') = Present(txn) \cup Ids(s.txns)
      /\ \A c \in Clusters : c \notin Ids(s.clusters) => agg'[c] = agg[c]
      /\ \A c \in Ids(s.clusters) : \E x \in s.clusters : x.id = c /\ agg'[c] = x.row
      /\ snapshot' = snapshot /\ quiet' = quiet
  BY RestoreCopyEffect DEF history
<1>2. \A t \in Ids(s.txns) : \E x \in s.txns : x.id = t /\ txn'[t].cluster = x.cluster
  <2>1. \A t \in Ids(s.txns) : \E x \in s.txns :
              /\ x.id = t /\ txn'[t].cluster = x.cluster
              /\ txn'[t].category = x.category /\ txn'[t].currency = NoCurrency
    BY RestoreCopyEffect
  <2> QED
    BY <2>1
<1>3. AcceptedSnapshot(s) /\ Present(txn) = {} /\ pc[e] = "ok" /\ quiet[e]
  <2>1. Copying(r) /\ Emptied(r) /\ NeverMet({{"patch", "restore"}})
    BY <1>1 DEF Restoring, Apart, NoPatchBeside, NeverMet
  <2> QED
    BY <1>1, <2>1 DEF Copying, Emptied, Countable
<1>4. SnapshotRight(e) /\ OneEach(s.txns)
  BY <1>1 DEF CountsRight, Placed, WholeSnapshot
<1>5. ASSUME NEW c PROVE Members(txn', c) = Saved(e, c)
  <2>1. Present(txn') = Ids(s.txns) /\ Present(txn') \subseteq Txns
    BY <1>1, <1>3 DEF Present
  <2>2. Members(txn', c) \subseteq Saved(e, c)
    BY <1>2, <2>1 DEF Members, Saved
  <2>3. ASSUME NEW t \in Saved(e, c) PROVE t \in Members(txn', c)
    <3>1. PICK x \in s.txns : x.id = t /\ x.cluster = c
      BY DEF Saved
    <3>2. t \in Present(txn') /\ t \in Ids(s.txns)
      BY <2>1, <3>1 DEF Ids
    <3>3. PICK y \in s.txns : y.id = t /\ txn'[t].cluster = y.cluster
      BY <1>2, <3>2
    <3>4. x = y
      BY <1>4, <3>1, <3>3 DEF OneEach
    <3> QED
      BY <3>1, <3>2, <3>3, <3>4 DEF Members
  <2> QED
    BY <2>2, <2>3
<1>6. RowsRight'
  <2> SUFFICES ASSUME NEW c \in Clusters, agg'[c] # Absent
               PROVE  agg'[c].size = Cardinality(Members(txn', c))
    BY DEF RowsRight, Right
  <2>1. CASE c \in Ids(s.clusters)
    <3>1. PICK x \in s.clusters : x.id = c /\ agg'[c] = x.row
      BY <1>1, <2>1
    <3>2. Right(x.row, Saved(e, x.id))
      BY <1>1, <1>3, <1>4 DEF SnapshotRight
    <3> QED
      BY <1>5, <3>1, <3>2 DEF Right
  <2>2. CASE c \notin Ids(s.clusters)
    <3>1. \A i \in Imports : work[i].retire = {}
      BY <1>1, AloneWithRestore, NoRetire DEF Ended, Apart
    <3>2. Right(agg[c], Members(txn, c)) /\ agg'[c] = agg[c]
      BY <1>1, <2>2, <3>1 DEF CountsRight, RowsRight
    <3>3. Members(txn, c) = {}
      BY <1>3 DEF Members
    <3>4. Saved(e, c) = {}
      BY <1>3, <2>2 DEF Saved, AcceptedSnapshot, Accepted
    <3> QED
      BY <1>5, <3>2, <3>3, <3>4 DEF Right
  <2> QED
    BY <2>1, <2>2
<1>7. \A q \in Patches \cup Imports \cup Exports : pc'[q] = pc[q]
  BY <1>1, KindsApart DEF Others
<1>8. \A q \in Patches \cup Imports : ItemsRight(q)'
  <2>1. \A q \in Patches \cup Imports : pc[q] # "rebuild"
    BY <1>1, AloneWithRestore DEF Ended, Apart, NoPatchBeside, NeverMet
  <2> QED
    BY <1>7, <2>1 DEF ItemsRight
<1>9. ASSUME NEW f \in Exports PROVE SnapshotRight(f)'
  <2>1. SnapshotRight(f) /\ WholeSnapshot(f) /\ pc'[f] = pc[f]
    BY <1>7 DEF CountsRight, Placed
  <2>2. r \in Running(Imports \cup Patches \cup Restores)
    BY <1>1 DEF Running, Ended
  <2>3. ~ Reading(f)'
    BY <1>1, <2>1, <2>2 DEF Reading, WholeSnapshot
  <2>4. \A c : Saved(f, c)' = Saved(f, c)
    BY <1>1 DEF Saved
  <2> QED
    BY <1>1, <2>1, <2>3, <2>4 DEF SnapshotRight
<1> QED
  BY <1>6, <1>8, <1>9 DEF CountsRight

LEMMA CountedInit ==
  ASSUME Init
  PROVE  CountsRight
<1>1. \A r \in Requests : pc[r] = "idle"
  BY DEF Init
<1>2. RowsRight
  <2> SUFFICES ASSUME NEW c \in Clusters, agg[c] # Absent
               PROVE  agg[c].size = Cardinality(Members(txn, c))
    BY DEF RowsRight, Right
  <2>1. c \in OldClusters
    BY DEF Init
  <2>2. Members(txn, c) = {t \in Stored : FirstCluster[t] = c}
    BY InitialTxns DEF Members, Txns
  <2> QED
    BY <2>1, <2>2, OldRow
<1>3. \A r \in Patches \cup Imports : ItemsRight(r)
  BY <1>1, KindsApart DEF ItemsRight
<1>4. \A e \in Exports : SnapshotRight(e)
  BY <1>1, KindsApart DEF SnapshotRight, Reading
<1> QED
  BY <1>2, <1>3, <1>4 DEF CountsRight

LEMMA CountedNext ==
  ASSUME Base, Countable => CountsRight, [Next]_vars, Countable'
  PROVE  CountsRight'
<1>1. Countable /\ CountsRight /\ Typed /\ Apart /\ Restoring /\ Placed
  BY NotBefore DEF Countable, Base, Apart
<1>2. CASE UNCHANGED vars
  <2>1. txn' = txn /\ agg' = agg /\ pc' = pc /\ work' = work /\ snapshot' = snapshot /\ quiet' = quiet
    BY <1>2 DEF vars, ledger, history
  <2> QED
    BY <1>1, <2>1 DEF CountsRight, RowsRight, ItemsRight, SnapshotRight, Reading, Saved
<1> SUFFICES ASSUME NEW r \in Requests, Step(r)
             PROVE  CountsRight'
  BY <1>2, NextIsStep
<1> QED
  BY <1>1, CountsOfTag, CountsOfPatch, CountsOfRebuild, CountsOfMetricsOrFail, CountsOfImport,
     CountsOfImportPatch, CountsOfImportInsert, CountsOfExport, CountsOfWipe, CountsOfCopy DEF Step

(* Beside no import and no patch, every CLUSTER row counts the             *)
(* transactions that refer to it, after imports, tags, patches and         *)
(* restores in any interleaving, failed ones too, until a currency patch   *)
(* runs beside an import or a restore, a backup is restored that was not   *)
(* taken in peace, or a tag puts a CLUSTER row anew with a count of before.*)
THEOREM CountsKept == Spec => []CountsAtRest
<1> DEFINE I == Base /\ (Countable => CountsRight)
<1>1. Init => I
  BY BaseInit, CountedInit
<1>2. I /\ [Next]_vars => I'
  BY BaseNext, CountedNext
<1>3. I => CountsAtRest
  <2> SUFFICES ASSUME Placed, CountsRight, Running(Imports \cup Patches) = {},
                      NEW c \in Clusters, agg[c] # Absent
               PROVE  agg[c].size = Cardinality(Members(txn, c))
    BY DEF Countable, Base, CountsAtRest
  <2>1. \A i \in Imports : work[i].retire = {}
    BY NoRetire DEF Running, Ended
  <2> QED
    BY <2>1 DEF CountsRight, RowsRight, Right
<1> QED
  BY <1>1, <1>2, <1>3, PTL DEF Spec

----------------------------------------------------------------------------
(* The review queue                                                        *)

Waiting == {t \in Present(txn) : txn[t].category = Pending}

\* A currency patch puts its rows back with the categories that they have.
PatchKept(p) ==
    pc[p] = "put rows" => \A t \in work[p].todo : work[p].rows[t].category = txn[t].category

\* The cluster of t is in the queue, or an import will put it there.
InQueue(t) ==
    LET c == txn[t].cluster
    IN  \/ agg[c] # Absent /\ agg[c].pending
        \/ \E i \in Imports : pc[i] = "patch" /\ t \notin work[i].todo
        \/ \E i \in Imports : /\ pc[i] = "rebuild"
                              /\ \/ c \in work[i].clusters
                                 \/ work[i].aggs[c] # Absent /\ work[i].aggs[c].pending

\* What the tags have still to write, the patches will put, and the backups hold.
TagQueue(g) ==
    pc[g] = "tag" => \A t \in Waiting : txn[t].cluster = work[g].cluster => t \in work[g].todo
PatchQueue(p) ==
    pc[p] = "rebuild" => \A t \in Waiting :
        work[p].aggs[txn[t].cluster] # Absent => work[p].aggs[txn[t].cluster].pending
SnapshotQueue(e) ==
    /\ Reading(e) => \A t \in Waiting :
         \E x \in snapshot[e].clusters : x.id = txn[t].cluster /\ x.row.pending
    /\ quiet[e] /\ pc[e] = "ok" => \A y \in snapshot[e].txns : y.category = Pending =>
         \E x \in snapshot[e].clusters : x.id = y.cluster /\ x.row.pending

QueueRight ==
    /\ \A t \in Waiting : InQueue(t)
    /\ \A g \in Tags : TagQueue(g)
    /\ \A p \in Patches : PatchQueue(p)
    /\ \A e \in Exports : SnapshotQueue(e)

PatchKeeps == \A p \in Patches : PatchKept(p)

\* What the properties about the queue and about METRICS except has not happened.
PatchedAlone == NoPatchBeside /\ NeverMet({{"tag", "patch"}})
Queueable == met = {} /\ "torn backup" \notin past

Queued == /\ PatchedAlone => PatchKeeps
          /\ Queueable => QueueRight

\* While no tag has run beside a patch or a restore, none runs beside one now.
LEMMA AloneWithTag ==
  ASSUME Recorded, NEW g \in Tags, pc[g] \notin Ended
  PROVE  /\ NeverMet({{"tag", "patch"}}) => \A p \in Patches : pc[p] \in Ended
         /\ NeverMet({{"tag", "restore"}}) => \A r \in Restores : pc[r] \in Ended
<1>1. ASSUME NEW q \in Patches \cup Restores
      PROVE  g \in Requests /\ q \in Requests /\ g \notin Exports /\ q \notin Exports
  BY KindsApart
<1>2. ASSUME NEW p \in Patches, pc[p] \notin Ended PROVE {"tag", "patch"} \in met
  <2>1. Kind(g) = "tag" /\ Kind(p) = "patch"
    BY KindOf
  <2> QED
    BY <1>1, <1>2, <2>1, OnRecord DEF Overlaps
<1>3. ASSUME NEW r \in Restores, pc[r] \notin Ended PROVE {"tag", "restore"} \in met
  <2>1. Kind(g) = "tag" /\ Kind(r) = "restore"
    BY KindOf
  <2> QED
    BY <1>1, <1>3, <2>1, OnRecord DEF Overlaps
<1> QED
  BY <1>2, <1>3 DEF NeverMet

LEMMA KeepsFrame ==
  ASSUME PatchKeeps, NEW r \in Requests, Others(r), txn' = txn, r \in Patches => PatchKept(r)'
  PROVE  PatchKeeps'
<1> SUFFICES ASSUME NEW p \in Patches, p # r PROVE PatchKept(p)'
  BY DEF PatchKeeps
<1>1. pc'[p] = pc[p] /\ work'[p] = work[p] /\ PatchKept(p)
  BY KindsApart DEF Others, PatchKeeps
<1> QED
  BY <1>1 DEF PatchKept

\* No patch is under way beside the request r.
LEMMA NoPatchKeeps ==
  ASSUME NEW r \in Requests, Others(r), r \notin Patches, \A p \in Patches : pc[p] \in Ended
  PROVE  PatchKeeps'
BY KindsApart DEF Others, PatchKeeps, PatchKept, Ended

LEMMA KeepsNext ==
  ASSUME Base, PatchedAlone => PatchKeeps, [Next]_vars, PatchedAlone'
  PROVE  PatchKeeps'
<1>0. Typed /\ Apart /\ Placed /\ PatchKeeps /\ PatchedAlone
  BY NotBefore DEF PatchedAlone, Base, Apart
<1>1. CASE UNCHANGED vars
  <2>1. txn' = txn /\ pc' = pc /\ work' = work
    BY <1>1 DEF vars, ledger
  <2> QED
    BY <1>0, <2>1 DEF PatchKeeps, PatchKept
<1> SUFFICES ASSUME NEW r \in Requests, Step(r)
             PROVE  PatchKeeps'
  BY <1>1, NextIsStep
<1>2. CASE TagList(r) \/ TagCluster(r) \/ TagClusterAnew(r) \/ PatchFile(r) \/ PatchRowsDone(r)
  <2>1. /\ Others(r) /\ txn' = txn /\ pc'[r] # "put rows"
    BY <1>0, <1>2, TagListEffect, TagClusterEffect, TagClusterAnewEffect, PatchFileEffect,
       PatchRowsDoneEffect DEF ledger
  <2> QED
    BY <1>0, <2>1, KeepsFrame DEF PatchKept
<1>3. CASE RebuildPut(r) \/ MetricsList(r) \/ MetricsPut(r) \/ \E c \in Clusters : RebuildRead(r, c)
  <2>1. /\ Others(r) /\ txn' = txn /\ pc'[r] # "put rows"
    BY <1>0, <1>3, RebuildPutEffect, MetricsListEffect, MetricsPutEffect, RebuildReadEffect DEF ledger
  <2> QED
    BY <1>0, <2>1, KeepsFrame DEF PatchKept
<1>4. CASE ImportPlan(r) \/ ImportRecord(r) \/ Fail(r) \/ \E c \in Clusters : ImportRetire(r, c)
  <2>1. /\ Others(r) /\ txn' = txn /\ pc'[r] # "put rows"
    BY <1>0, <1>4, ImportPlanEffect, ImportRecordEffect, FailEffect, ImportRetireEffect DEF ledger
  <2> QED
    BY <1>0, <2>1, KeepsFrame DEF PatchKept
<1>5. CASE ExportClusters(r) \/ ExportFiles(r) \/ ExportTxns(r)
  <2>1. /\ Others(r) /\ txn' = txn /\ pc'[r] # "put rows"
    BY <1>0, <1>5, ExportClustersEffect, ExportFilesEffect, ExportTxnsEffect DEF ledger
  <2> QED
    BY <1>0, <2>1, KeepsFrame DEF PatchKept
<1>6. CASE PatchQuery(r)
  <2>1. /\ Others(r) /\ txn' = txn
        /\ \A t \in work'[r].todo : work'[r].rows[t].category = txn[t].category
    BY <1>0, <1>6, PatchQueryEffect DEF ledger
  <2> QED
    BY <1>0, <2>1, KeepsFrame DEF PatchKept
<1>7. CASE \E t \in Txns : PatchRow(r, t)
  <2> PICK t \in Txns : PatchRow(r, t)
    BY <1>7
  <2>1. /\ Others(r) /\ r \in Patches /\ pc[r] = "put rows" /\ t \in work[r].todo
        /\ txn'[t] = work[r].rows[t] /\ \A u \in Txns \ {t} : txn'[u] = txn[u]
        /\ work'[r].todo = work[r].todo \ {t} /\ work'[r].rows = work[r].rows
    BY <1>0, PatchRowEffect
  <2>2. txn'[t].category = txn[t].category
    BY <1>0, <2>1 DEF PatchKeeps, PatchKept
  <2>3. \A p \in Patches : pc[p] = "put rows" => work[p].todo \subseteq Txns
    BY <1>0 DEF Placed, PatchPlaces, Present
  <2>4. \A p \in Patches : /\ pc'[p] = "put rows" => pc[p] = "put rows"
                           /\ work'[p].todo \subseteq work[p].todo /\ work'[p].rows = work[p].rows
    BY <2>1, KindsApart DEF Others
  <2>5. \A u \in Txns : txn'[u].category = txn[u].category
    BY <2>1, <2>2
  <2> SUFFICES ASSUME NEW p \in Patches, pc'[p] = "put rows", NEW u \in work'[p].todo
               PROVE  work'[p].rows[u].category = txn'[u].category
    BY DEF PatchKeeps, PatchKept
  <2>6. pc[p] = "put rows" /\ u \in work[p].todo /\ u \in Txns /\ work'[p].rows = work[p].rows
    BY <2>3, <2>4
  <2> QED
    BY <1>0, <2>5, <2>6 DEF PatchKeeps, PatchKept
<1>8. CASE \E t \in Txns : TagRow(r, t)
  <2>1. Others(r) /\ r \in Tags /\ pc[r] = "tag"
    BY <1>0, <1>8, TagRowEffect
  <2>3. \A p \in Patches : pc[p] \in Ended
    BY <1>0, <2>1, AloneWithTag DEF Apart, Accounted, PatchedAlone, Ended
  <2> QED
    BY <2>1, <2>3, NoPatchKeeps, KindsApart
<1>9. CASE ImportInsert(r) \/ \E t \in Txns : ImportPatch(r, t)
  <2>1. Others(r) /\ r \in Imports /\ pc[r] = "patch"
    BY <1>0, <1>9, ImportInsertEffect, ImportPatchEffect
  <2>2. \A p \in Patches : pc[p] \in Ended
    BY <1>0, <2>1, Alone DEF Ended
  <2> QED
    BY <2>1, <2>2, NoPatchKeeps, KindsApart
<1>10. CASE RestoreCopy(r) \/ \E e \in Exports : RestoreWipe(r, e)
  <2>1. Others(r) /\ r \in Restores /\ \A p \in Patches : pc[p] \in Ended
    <3>1. CASE RestoreCopy(r)
      BY <1>0, <3>1, RestoreCopyFrame, AloneWithRestore DEF Apart, NoPatchBeside, NeverMet, Ended
    <3>2. CASE \E e \in Exports : RestoreWipe(r, e)
      <4>1. Others(r) /\ r \in Restores /\ Meets(r)
        BY <1>0, <3>2, RestoreWipeEffect
      <4>2. NeverMet({{"patch", "restore"}})'
        BY DEF PatchedAlone, NoPatchBeside, NeverMet
      <4> QED
        BY <1>0, <4>1, <4>2, StartsAlone
    <3> QED
      BY <1>10, <3>1, <3>2
  <2> QED
    BY <2>1, NoPatchKeeps, KindsApart
<1> QED
  BY <1>2, <1>3, <1>4, <1>5, <1>6, <1>7, <1>8, <1>9, <1>10 DEF Step

\* A step of a request that is no export, and after which no more transactions
\* wait, each in the cluster that it was in.
LEMMA QueueFrame ==
  ASSUME QueueRight, NEW r \in Requests, Others(r), r \notin Exports,
         snapshot' = snapshot, \A e \in Exports : quiet'[e] => quiet[e],
         \A t \in Waiting' : t \in Waiting /\ txn'[t].cluster = txn[t].cluster,
         \A t \in Waiting' : InQueue(t)',
         r \in Tags => TagQueue(r)', r \in Patches => PatchQueue(r)'
  PROVE  QueueRight'
<1>1. \A q \in Requests \ {r} : pc'[q] = pc[q] /\ work'[q] = work[q]
  BY DEF Others
<1>2. ASSUME NEW g \in Tags PROVE TagQueue(g)'
  <2>1. CASE g = r
    BY <2>1
  <2>2. CASE g # r
    <3>1. pc'[g] = pc[g] /\ work'[g] = work[g] /\ TagQueue(g)
      BY <1>1, <2>2, KindsApart DEF QueueRight
    <3> QED
      BY <3>1 DEF TagQueue
  <2> QED
    BY <2>1, <2>2
<1>3. ASSUME NEW p \in Patches PROVE PatchQueue(p)'
  <2>1. CASE p = r
    BY <2>1
  <2>2. CASE p # r
    <3>1. pc'[p] = pc[p] /\ work'[p] = work[p] /\ PatchQueue(p)
      BY <1>1, <2>2, KindsApart DEF QueueRight
    <3> QED
      BY <3>1 DEF PatchQueue
  <2> QED
    BY <2>1, <2>2
<1>4. ASSUME NEW e \in Exports PROVE SnapshotQueue(e)'
  <2>1. pc'[e] = pc[e] /\ SnapshotQueue(e)
    BY <1>1, KindsApart DEF QueueRight
  <2>2. (Reading(e)' => Reading(e)) /\ (quiet'[e] => quiet[e])
    BY <2>1 DEF Reading
  <2> QED
    BY <2>1, <2>2 DEF SnapshotQueue
<1> QED
  BY <1>2, <1>3, <1>4 DEF QueueRight

\* The CLUSTER rows are as they were, and no import moves on.
LEMMA SameQueue ==
  ASSUME QueueRight, NEW r \in Requests, Others(r), agg' = agg,
         r \in Imports => pc[r] \notin {"patch", "rebuild"},
         \A t \in Waiting' : t \in Waiting /\ txn'[t].cluster = txn[t].cluster
  PROVE  \A t \in Waiting' : InQueue(t)'
<1> SUFFICES ASSUME NEW t \in Waiting' PROVE InQueue(t)'
  OBVIOUS
<1>1. InQueue(t) /\ txn'[t].cluster = txn[t].cluster
  BY DEF QueueRight
<1>2. \A i \in Imports : pc[i] \in {"patch", "rebuild"} => pc'[i] = pc[i] /\ work'[i] = work[i]
  BY KindsApart DEF Others
<1> QED
  BY <1>1, <1>2 DEF InQueue

LEMMA QueueOfTag ==
  ASSUME Typed, QueueRight, NEW r \in Requests,
         TagList(r) \/ TagCluster(r) \/ TagClusterAnew(r) \/ \E t \in Txns : TagRow(r, t)
  PROVE  QueueRight'
<1>1. /\ Others(r) /\ r \in Tags /\ snapshot' = snapshot /\ quiet' = quiet
  BY TagListEffect, TagClusterEffect, TagClusterAnewEffect, TagRowEffect DEF history
<1>2. TagQueue(r)
  BY <1>1 DEF QueueRight
<1>3. CASE TagList(r)
  <2>1. agg' = agg /\ txn' = txn /\ work'[r].todo = Members(txn, work'[r].cluster)
    BY <1>3, TagListEffect
  <2>2. \A t \in Waiting' : t \in Waiting /\ txn'[t].cluster = txn[t].cluster
    BY <2>1 DEF Waiting
  <2>3. TagQueue(r)'
    BY <2>1 DEF TagQueue, Waiting, Members
  <2> QED
    BY <1>1, <2>1, <2>2, <2>3, SameQueue, QueueFrame, KindsApart
<1>4. CASE \E t \in Txns : TagRow(r, t)
  <2> PICK t \in Txns : TagRow(r, t)
    BY <1>4
  <2>1. /\ pc[r] = "tag" /\ agg' = agg /\ \A u \in Txns \ {t} : txn'[u] = txn[u]
        /\ Present(txn') = Present(txn) /\ (t \in Present(txn) => txn'[t].category \in Categories)
        /\ work'[r].todo = work[r].todo \ {t} /\ work'[r].cluster = work[r].cluster
    BY TagRowEffect
  <2>2. \A u \in Waiting' : u # t /\ u \in Waiting /\ txn'[u].cluster = txn[u].cluster
    BY <2>1, AbsentIsNoRow DEF Waiting, Present
  <2>3. TagQueue(r)'
    BY <1>2, <2>1, <2>2 DEF TagQueue
  <2> QED
    BY <1>1, <2>1, <2>2, <2>3, SameQueue, QueueFrame, KindsApart
<1>5. CASE TagCluster(r) \/ TagClusterAnew(r)
  <2> DEFINE d == work[r].cluster
  <2>1. /\ pc[r] = "tag" /\ pc'[r] = "metrics" /\ work[r].todo = {} /\ txn' = txn
        /\ work' = work /\ \A c \in Clusters \ {d} : agg'[c] = agg[c]
    BY <1>5, TagClusterEffect, TagClusterAnewEffect
  <2>2. \A t \in Waiting' : t \in Waiting /\ txn'[t].cluster = txn[t].cluster
    BY <2>1 DEF Waiting
  <2>3. ASSUME NEW t \in Waiting' PROVE InQueue(t)'
    <3>1. InQueue(t) /\ txn'[t].cluster = txn[t].cluster /\ txn[t].cluster \in Clusters
      BY <2>2, RowFields DEF QueueRight, Waiting
    <3>2. txn[t].cluster # d
      BY <1>2, <2>1, <2>2 DEF TagQueue
    <3>3. \A i \in Imports : pc'[i] = pc[i]
      BY <1>1, KindsApart DEF Others
    <3> QED
      BY <2>1, <3>1, <3>2, <3>3 DEF InQueue
  <2>4. TagQueue(r)'
    BY <2>1 DEF TagQueue
  <2> QED
    BY <1>1, <2>2, <2>3, <2>4, QueueFrame, KindsApart
<1> QED
  BY <1>3, <1>4, <1>5

LEMMA QueueOfPatch ==
  ASSUME Typed, Placed, PatchKeeps, QueueRight, NEW r \in Requests,
         PatchFile(r) \/ PatchQuery(r) \/ PatchRowsDone(r) \/ \E t \in Txns : PatchRow(r, t)
  PROVE  QueueRight'
<1>1. /\ Others(r) /\ r \in Patches /\ agg' = agg /\ snapshot' = snapshot
      /\ \A e \in Exports : quiet'[e] => quiet[e]
  BY PatchFileEffect, PatchQueryEffect, PatchRowsDoneEffect, PatchRowEffect DEF ledger, history
<1>2. \A t \in Waiting' : t \in Waiting /\ txn'[t].cluster = txn[t].cluster
  <2>1. CASE PatchFile(r) \/ PatchQuery(r) \/ PatchRowsDone(r)
    <3>1. txn' = txn
      BY <2>1, PatchFileEffect, PatchQueryEffect, PatchRowsDoneEffect DEF ledger
    <3> QED
      BY <3>1 DEF Waiting
  <2>2. CASE \E t \in Txns : PatchRow(r, t)
    <3> PICK t \in Txns : PatchRow(r, t)
      BY <2>2
    <3>1. /\ pc[r] = "put rows" /\ t \in work[r].todo
          /\ txn'[t] = work[r].rows[t] /\ \A u \in Txns \ {t} : txn'[u] = txn[u]
      BY PatchRowEffect
    <3>2. t \in Present(txn) /\ txn'[t].category = txn[t].category /\ txn'[t].cluster = txn[t].cluster
      BY <1>1, <3>1 DEF PatchKeeps, PatchKept, Placed, PatchPlaces
    <3> QED
      BY <3>1, <3>2 DEF Waiting, Present
  <2> QED
    BY <2>1, <2>2
<1>3. PatchQueue(r)'
  <2>1. CASE PatchRowsDone(r)
    <3>1. work'[r].aggs = NoWork.aggs /\ txn' = txn
      BY <2>1, PatchRowsDoneEffect DEF ledger
    <3>2. \A t \in Waiting' : txn'[t].cluster \in Clusters
      BY <3>1, RowFields DEF Waiting
    <3> QED
      BY <3>1, <3>2, NoAggs DEF PatchQueue
  <2>2. CASE PatchFile(r) \/ PatchQuery(r) \/ \E t \in Txns : PatchRow(r, t)
    <3>1. pc'[r] # "rebuild"
      BY <2>2, PatchFileEffect, PatchQueryEffect, PatchRowEffect
    <3> QED
      BY <3>1 DEF PatchQueue
  <2> QED
    BY <2>1, <2>2
<1> QED
  BY <1>1, <1>2, <1>3, SameQueue, QueueFrame, KindsApart

LEMMA QueueOfRebuildRead ==
  ASSUME Typed, QueueRight, NEW r \in Requests, NEW c \in Clusters, RebuildRead(r, c)
  PROVE  QueueRight'
<1>1. /\ Others(r) /\ r \in Patches \cup Imports /\ pc[r] = "rebuild" /\ pc'[r] = "rebuild"
      /\ work'[r].clusters = work[r].clusters \ {c}
      /\ work'[r].aggs[c] = Aggregate(txn, c)
      /\ \A d \in Clusters \ {c} : work'[r].aggs[d] = work[r].aggs[d]
      /\ txn' = txn /\ agg' = agg /\ snapshot' = snapshot /\ quiet' = quiet
  BY RebuildReadEffect DEF ledger, history
<1>2. \A t \in Waiting' : /\ t \in Waiting /\ txn'[t].cluster = txn[t].cluster
                          /\ txn[t].cluster \in Clusters
  BY <1>1, RowFields DEF Waiting
<1>3. \A t \in Waiting : txn[t].cluster = c =>
        work'[r].aggs[c] # Absent /\ work'[r].aggs[c].pending
  <2>1. Aggregate(txn, c) # Absent
    BY AggregateTyped, AbsentIsNoRow
  <2>2. \A t \in Waiting : txn[t].cluster = c => Aggregate(txn, c).pending
    BY AggregateTyped DEF Waiting, Members
  <2> QED
    BY <1>1, <2>1, <2>2
<1>4. CASE r \in Patches
  <2>1. PatchQueue(r)'
    BY <1>1, <1>2, <1>3, <1>4 DEF QueueRight, PatchQueue
  <2> QED
    BY <1>1, <1>2, <1>4, <2>1, SameQueue, QueueFrame, KindsApart
<1>5. CASE r \in Imports
  <2>1. ASSUME NEW t \in Waiting' PROVE InQueue(t)'
    <3>1. /\ t \in Waiting /\ InQueue(t) /\ txn'[t].cluster = txn[t].cluster
          /\ txn[t].cluster \in Clusters
      BY <1>2 DEF QueueRight
    <3>2. \A i \in Imports \ {r} : pc'[i] = pc[i] /\ work'[i] = work[i]
      BY <1>1, KindsApart DEF Others
    <3>3. CASE txn[t].cluster = c
      BY <1>1, <1>3, <1>5, <3>1, <3>3 DEF InQueue
    <3>4. CASE txn[t].cluster # c
      BY <1>1, <1>5, <3>1, <3>2, <3>4 DEF InQueue
    <3> QED
      BY <3>3, <3>4
  <2> QED
    BY <1>1, <1>2, <1>5, <2>1, QueueFrame, KindsApart
<1> QED
  BY <1>1, <1>4, <1>5

LEMMA QueueOfRebuildPut ==
  ASSUME Typed, Apart, Placed, QueueRight, NEW r \in Requests, RebuildPut(r)
  PROVE  QueueRight'
<1>1. /\ Others(r) /\ r \in Patches \cup Imports /\ pc[r] = "rebuild" /\ pc'[r] # "rebuild"
      /\ work[r].clusters = {}
      /\ \A c \in Clusters : agg'[c] = IF work[r].aggs[c] # Absent THEN work[r].aggs[c] ELSE agg[c]
      /\ txn' = txn /\ snapshot' = snapshot /\ quiet' = quiet
  BY RebuildPutEffect DEF history
<1>2. \A t \in Waiting' : /\ t \in Waiting /\ txn'[t].cluster = txn[t].cluster
                          /\ txn[t].cluster \in Clusters /\ InQueue(t)
  BY <1>1, RowFields DEF Waiting, QueueRight
<1>3. r \in Patches => PatchQueue(r)'
  BY <1>1 DEF PatchQueue
<1>4. CASE r \in Patches
  <2>1. ASSUME NEW t \in Waiting' PROVE InQueue(t)'
    <3>1. \A i \in Imports : pc[i] \in {"idle", "ok"}
      BY <1>1, <1>4, AloneWithPatch DEF Ended
    <3>2. agg[txn[t].cluster] # Absent /\ agg[txn[t].cluster].pending
      BY <1>2, <3>1 DEF InQueue
    <3>3. work[r].aggs[txn[t].cluster] # Absent => work[r].aggs[txn[t].cluster].pending
      BY <1>1, <1>2, <1>4 DEF QueueRight, PatchQueue
    <3> QED
      BY <1>1, <1>2, <3>2, <3>3 DEF InQueue
  <2> QED
    BY <1>1, <1>2, <1>3, <1>4, <2>1, QueueFrame, KindsApart
<1>5. CASE r \in Imports
  <2>1. ASSUME NEW t \in Waiting' PROVE InQueue(t)'
    <3>1. \A i \in Imports : i # r => pc[i] \in {"idle", "ok"}
      BY <1>1, <1>5, Alone DEF Ended
    <3>2. work[r].aggs[txn[t].cluster] # Absent /\ txn[t].cluster \in Mint(r)
      BY <1>1, <1>2, <1>5 DEF Placed, ImportPlaces, Waiting
    <3>3. agg[txn[t].cluster] = Absent
      BY <1>1, <1>5, <3>2 DEF Placed, Fresh, Unminted
    <3>4. work[r].aggs[txn[t].cluster].pending
      BY <1>1, <1>2, <3>1, <3>3 DEF InQueue
    <3> QED
      BY <1>1, <1>2, <3>2, <3>4 DEF InQueue
  <2> QED
    BY <1>1, <1>2, <1>5, <2>1, QueueFrame, KindsApart
<1> QED
  BY <1>1, <1>4, <1>5

LEMMA QueueOfMetricsOrFail ==
  ASSUME Typed, QueueRight, NEW r \in Requests, MetricsList(r) \/ MetricsPut(r) \/ Fail(r)
  PROVE  QueueRight'
<1>1. /\ Others(r) /\ r \notin Exports /\ txn' = txn /\ agg' = agg
      /\ snapshot' = snapshot /\ quiet' = quiet /\ pc'[r] \in {"metrics put", "ok", "failed"}
  BY MetricsListEffect, MetricsPutEffect, FailEffect, KindsApart DEF ledger, history
<1>2. r \in Imports => pc[r] \notin {"patch", "rebuild"}
  BY MetricsListEffect, MetricsPutEffect, FailEffect, KindsApart
<1>3. \A t \in Waiting' : t \in Waiting /\ txn'[t].cluster = txn[t].cluster
  BY <1>1 DEF Waiting
<1> QED
  BY <1>1, <1>2, <1>3, SameQueue, QueueFrame, KindsApart DEF TagQueue, PatchQueue

\* An import that plans, deletes an old row, or records its file.
LEMMA QueueOfImport ==
  ASSUME Typed, Placed, QueueRight, NEW i \in Requests,
         ImportPlan(i) \/ ImportRecord(i) \/ \E c \in Clusters : ImportRetire(i, c)
  PROVE  QueueRight'
<1>1. /\ Others(i) /\ i \in Imports /\ txn' = txn /\ snapshot' = snapshot
      /\ \A e \in Exports : quiet'[e] => quiet[e]
      /\ pc[i] \in {"idle", "retire"}
  BY ImportPlanEffect, ImportRecordEffect, ImportRetireEffect DEF ledger, history
<1>2. \A t \in Waiting' : t \in Waiting /\ txn'[t].cluster = txn[t].cluster
  BY <1>1 DEF Waiting
<1>3. CASE ImportPlan(i) \/ ImportRecord(i)
  <2>1. agg' = agg
    BY <1>3, ImportPlanEffect, ImportRecordEffect DEF ledger
  <2> QED
    BY <1>1, <1>2, <2>1, SameQueue, QueueFrame, KindsApart
<1>4. CASE \E c \in Clusters : ImportRetire(i, c)
  <2> PICK c \in Clusters : ImportRetire(i, c)
    BY <1>4
  <2>1. pc[i] = "retire" /\ c \in work[i].retire /\ \A d \in Clusters \ {c} : agg'[d] = agg[d]
    BY ImportRetireEffect
  <2>2. ASSUME NEW t \in Waiting' PROVE InQueue(t)'
    <3>1. /\ InQueue(t) /\ txn'[t].cluster = txn[t].cluster /\ txn[t].cluster \in Clusters
          /\ t \in Present(txn)
      BY <1>2, RowFields DEF QueueRight, Waiting
    <3>2. txn[t].cluster # c
      BY <1>1, <2>1, <3>1, MintsApart DEF Placed, ImportPlaces
    <3>3. \A j \in Imports : j # i => pc'[j] = pc[j] /\ work'[j] = work[j]
      BY <1>1, KindsApart DEF Others
    <3> QED
      BY <2>1, <3>1, <3>2, <3>3 DEF InQueue
  <2> QED
    BY <1>1, <1>2, <2>2, QueueFrame, KindsApart
<1> QED
  BY <1>3, <1>4

\* An import may put the category of its plan over one that a tag has decided,
\* in a cluster of its own.
LEMMA QueueOfMove ==
  ASSUME Typed, Apart, Placed, QueueRight, NEW i \in Imports, Others(i), pc[i] = "patch",
         NEW t \in Txns, \A u \in Txns \ {t} : txn'[u] = txn[u], txn'[t].cluster \in Mint(i),
         snapshot' = snapshot, quiet' = quiet, \A u \in Waiting' : InQueue(u)'
  PROVE  QueueRight'
<1>1. \A q \in Requests \ {i} : pc'[q] = pc[q] /\ work'[q] = work[q]
  BY DEF Others
<1>2. ASSUME NEW g \in Tags PROVE TagQueue(g)'
  <2> SUFFICES ASSUME pc'[g] = "tag", NEW u \in Waiting', txn'[u].cluster = work'[g].cluster
               PROVE  u \in work'[g].todo
    BY DEF TagQueue
  <2>1. pc[g] = "tag" /\ work'[g] = work[g] /\ TagQueue(g)
    BY <1>1, KindsApart DEF QueueRight
  <2>2. work[g].cluster \notin Mint(i)
    BY <2>1 DEF Placed, Fresh, Unminted
  <2>3. u # t /\ u \in Waiting /\ txn'[u] = txn[u]
    BY <2>1, <2>2 DEF Waiting, Present
  <2> QED
    BY <2>1, <2>3 DEF TagQueue
<1>3. ASSUME NEW p \in Patches PROVE PatchQueue(p)'
  <2>1. pc[p] \in Ended /\ pc'[p] = pc[p]
    BY <1>1, Alone, KindsApart DEF Ended
  <2> QED
    BY <2>1 DEF PatchQueue, Ended
<1>4. ASSUME NEW e \in Exports PROVE SnapshotQueue(e)'
  <2>1. pc'[e] = pc[e] /\ SnapshotQueue(e) /\ WholeSnapshot(e)
    BY <1>1, KindsApart DEF QueueRight, Placed
  <2>2. i \in Running(Imports \cup Patches \cup Restores)
    BY DEF Running, Ended
  <2>3. ~ Reading(e)'
    BY <2>1, <2>2 DEF WholeSnapshot, Reading
  <2> QED
    BY <2>1, <2>3 DEF SnapshotQueue
<1> QED
  BY <1>2, <1>3, <1>4 DEF QueueRight

LEMMA QueueOfImportPatch ==
  ASSUME Typed, Apart, Placed, QueueRight, NEW i \in Requests, NEW t \in Txns, ImportPatch(i, t)
  PROVE  QueueRight'
<1>1. /\ i \in Imports /\ Others(i) /\ pc[i] = "patch" /\ pc'[i] = "patch"
      /\ t \in Present(txn) /\ t \in work[i].todo
      /\ \A u \in Txns \ {t} : txn'[u] = txn[u]
      /\ txn'[t].cluster = work[i].rows[t].cluster
      /\ work'[i].todo = work[i].todo \ {t}
      /\ agg' = agg /\ snapshot' = snapshot /\ quiet' = quiet
  BY ImportPatchEffect DEF history
<1>2. txn'[t].cluster \in Mint(i)
  BY <1>1 DEF Placed, ImportPlaces
<1>3. ASSUME NEW u \in Waiting' PROVE InQueue(u)'
  <2>1. CASE u = t
    BY <1>1, <2>1 DEF InQueue
  <2>2. CASE u # t
    <3>1. u \in Waiting /\ txn'[u] = txn[u]
      BY <1>1, <2>2 DEF Waiting, Present
    <3>2. InQueue(u) /\ \A j \in Imports \ {i} : pc[j] \in {"idle", "ok"}
      BY <1>1, <3>1, Alone DEF QueueRight, Ended
    <3> QED
      BY <1>1, <3>1, <3>2 DEF InQueue
  <2> QED
    BY <2>1, <2>2
<1> QED
  BY <1>1, <1>2, <1>3, QueueOfMove

LEMMA QueueOfImportInsert ==
  ASSUME Typed, Apart, Placed, QueueRight, NEW i \in Requests, ImportInsert(i)
  PROVE  QueueRight'
<1> DEFINE t == NewRow[i]
<1>1. /\ i \in Imports /\ Others(i) /\ pc[i] = "patch" /\ pc'[i] = "rebuild"
      /\ work[i].todo = {} /\ work' = work
      /\ \A u \in Txns \ {t} : txn'[u] = txn[u]
      /\ txn'[t] = work[i].rows[t]
      /\ snapshot' = snapshot /\ quiet' = quiet
  BY ImportInsertEffect DEF history
<1>2. t \in Txns
  BY <1>1, NewIds
<1>3. /\ work[i].clusters \subseteq Mint(i) /\ work[i].rows[t].cluster \in work[i].clusters
      /\ \A u \in Present(txn) : txn[u].cluster \in work[i].clusters
  BY <1>1 DEF Placed, ImportPlaces
<1> HIDE DEF t
<1>4. ASSUME NEW u \in Waiting' PROVE InQueue(u)'
  <2>1. txn'[u].cluster \in work'[i].clusters
    BY <1>1, <1>3 DEF Waiting, Present
  <2> QED
    BY <1>1, <2>1 DEF InQueue
<1> QED
  BY <1>1, <1>2, <1>3, <1>4, QueueOfMove

\* The step of an export.
LEMMA QueueOfExport ==
  ASSUME Typed, Placed, QueueRight, NEW e \in Requests,
         ExportClusters(e) \/ ExportFiles(e) \/ ExportTxns(e)
  PROVE  QueueRight'
<1>1. /\ e \in Exports /\ Others(e) /\ work' = work /\ txn' = txn /\ agg' = agg
      /\ \A f \in Exports \ {e} : snapshot'[f] = snapshot[f] /\ quiet'[f] = quiet[f]
  BY ExportClustersEffect, ExportFilesEffect, ExportTxnsEffect DEF ledger, history
<1>2. \A q \in Tags \cup Patches \cup Imports : pc'[q] = pc[q]
  <2> SUFFICES ASSUME NEW q \in Tags \cup Patches \cup Imports PROVE pc'[q] = pc[q]
    OBVIOUS
  <2>1. q \in Requests /\ q # e
    BY <1>1, KindsApart
  <2> QED
    BY <1>1, <2>1 DEF Others
<1>3. \A t \in Waiting' : t \in Waiting /\ InQueue(t)'
  BY <1>1, <1>2 DEF QueueRight, InQueue, Waiting
<1>4. (\A g \in Tags : TagQueue(g)') /\ (\A p \in Patches : PatchQueue(p)')
  BY <1>1, <1>2 DEF QueueRight, TagQueue, PatchQueue, Waiting
<1>5. ASSUME NEW f \in Exports PROVE SnapshotQueue(f)'
  <2>1. CASE f # e
    <3>1. /\ pc'[f] = pc[f] /\ snapshot'[f] = snapshot[f] /\ quiet'[f] = quiet[f]
          /\ SnapshotQueue(f)
      BY <1>1, <2>1, KindsApart DEF Others, QueueRight
    <3> QED
      BY <1>1, <3>1 DEF SnapshotQueue, Reading, Waiting
  <2>2. CASE f = e /\ ExportClusters(e)
    <3>1. /\ pc'[e] = "files" /\ quiet'[e] => Running(Imports \cup Patches \cup Restores) = {}
          /\ \A x \in snapshot'[e].clusters : x.row = agg[x.id]
          /\ \A c \in ClustersNow : \E x \in snapshot'[e].clusters : x.id = c
          /\ pc'[e] = "files"
      BY <2>2, ExportClustersEffect
    <3>2. ASSUME quiet'[e], NEW t \in Waiting
          PROVE  \E x \in snapshot'[e].clusters : x.id = txn[t].cluster /\ x.row.pending
      <4>1. Running(Imports \cup Patches) = {} /\ \A i \in Imports : pc[i] \in Ended
        BY <3>1, <3>2 DEF Running
      <4>2. txn[t].cluster \in ClustersNow
        BY <4>1, KeptAlone DEF Waiting
      <4>3. agg[txn[t].cluster].pending
        BY <4>1 DEF QueueRight, InQueue, Ended
      <4> QED
        BY <3>1, <4>2, <4>3
    <3> QED
      BY <1>1, <2>2, <3>1, <3>2 DEF SnapshotQueue, Reading, Waiting
  <2>3. CASE f = e /\ ExportFiles(e)
    <3>1. /\ pc[e] = "files" /\ pc'[e] = "txns" /\ quiet' = quiet
          /\ snapshot'[e].clusters = snapshot[e].clusters
      BY <2>3, ExportFilesEffect DEF history
    <3> QED
      BY <1>1, <2>3, <3>1 DEF QueueRight, SnapshotQueue, Reading, Waiting
  <2>4. CASE f = e /\ ExportTxns(e)
    <3>1. /\ pc[e] = "txns" /\ pc'[e] = "ok" /\ quiet' = quiet
          /\ snapshot'[e].clusters = snapshot[e].clusters
          /\ \A x \in snapshot'[e].txns : /\ x.id \in Present(txn)
                                          /\ x.cluster = txn[x.id].cluster
                                          /\ x.category = txn[x.id].category
      BY <2>4, ExportTxnsEffect DEF history
    <3>2. \A y \in snapshot'[e].txns : y.category = Pending =>
            y.id \in Waiting /\ txn[y.id].cluster = y.cluster
      BY <3>1 DEF Waiting
    <3>3. Reading(e) <=> quiet[e]
      BY <3>1 DEF Reading
    <3> QED
      BY <1>1, <2>4, <3>1, <3>2, <3>3 DEF QueueRight, SnapshotQueue, Reading
  <2> QED
    BY <2>1, <2>2, <2>3, <2>4
<1> QED
  BY <1>3, <1>4, <1>5 DEF QueueRight

LEMMA QueueOfWipe ==
  ASSUME Typed, QueueRight, NEW r \in Requests, NEW e \in Exports, RestoreWipe(r, e)
  PROVE  QueueRight'
<1>1. /\ Others(r) /\ r \in Restores /\ snapshot' = snapshot
      /\ \A t \in Txns : txn'[t] = Absent
      /\ \A x \in Exports : quiet'[x] <=> quiet[x] /\ pc[x] = "ok"
  BY RestoreWipeEffect
<1>2. Waiting' = {}
  BY <1>1 DEF Waiting, Present
<1>3. ASSUME NEW f \in Exports PROVE SnapshotQueue(f)'
  <2>1. SnapshotQueue(f) /\ pc'[f] = pc[f]
    BY <1>1, KindsApart DEF QueueRight, Others
  <2> QED
    BY <1>1, <2>1 DEF SnapshotQueue, Reading
<1> QED
  BY <1>2, <1>3 DEF QueueRight, TagQueue, PatchQueue

\* Before the copy no transaction is there, and no tag runs beside it.
LEMMA QueueOfCopy ==
  ASSUME Typed, Apart, Restoring, Placed, QueueRight, NEW r \in Requests, RestoreCopy(r), Queueable
  PROVE  QueueRight'
<1> DEFINE e == work[r].from
           s == snapshot[e]
<1>1. /\ Others(r) /\ r \in Restores /\ e \in Exports /\ pc[r] = "copy"
      /\ Present(txn') = Present(txn) \cup Ids(s.txns)
      /\ \A t \in Ids(s.txns) : \E x \in s.txns :
           /\ x.id = t /\ txn'[t].cluster = x.cluster
           /\ txn'[t].category = x.category /\ txn'[t].currency = NoCurrency
      /\ \A c \in Ids(s.clusters) : /\ agg'[c] # Absent
                                    /\ \E x \in s.clusters : x.id = c /\ agg'[c] = x.row
      /\ snapshot' = snapshot /\ quiet' = quiet
  BY RestoreCopyEffect DEF history
<1>2. Present(txn) = {} /\ pc[e] = "ok" /\ quiet[e]
  <2>1. Copying(r) /\ Emptied(r) /\ NeverMet({{"patch", "restore"}})
    BY <1>1 DEF Restoring, Apart, NoPatchBeside, NeverMet
  <2> QED
    BY <1>1, <2>1 DEF Copying, Emptied, Queueable
<1>3. SnapshotQueue(e) /\ OneEach(s.clusters)
  BY <1>1 DEF QueueRight, Placed, WholeSnapshot
<1>4. ASSUME NEW t \in Waiting' PROVE InQueue(t)'
  <2>1. PICK y \in s.txns : txn'[t].cluster = y.cluster /\ txn'[t].category = y.category
    <3>1. t \in Ids(s.txns)
      BY <1>1, <1>2 DEF Waiting
    <3> QED
      BY <1>1, <3>1
  <2>2. PICK x \in s.clusters : x.id = txn'[t].cluster /\ x.row.pending
    <3>1. y.category = Pending
      BY <2>1 DEF Waiting
    <3>2. \E x \in s.clusters : x.id = y.cluster /\ x.row.pending
      BY <1>2, <1>3, <3>1 DEF SnapshotQueue
    <3> QED
      BY <2>1, <3>2
  <2>3. x.id \in Ids(s.clusters)
    BY DEF Ids
  <2>4. PICK z \in s.clusters : z.id = x.id /\ agg'[x.id] = z.row
    BY <1>1, <2>3
  <2>5. z = x /\ agg'[x.id] # Absent
    BY <1>1, <1>3, <2>3, <2>4 DEF OneEach
  <2> QED
    BY <2>2, <2>4, <2>5 DEF InQueue
<1>5. \A q \in Tags \cup Patches \cup Exports : pc'[q] = pc[q]
  BY <1>1, KindsApart DEF Others
<1>6. /\ \A g \in Tags : TagQueue(g)'
      /\ \A p \in Patches : PatchQueue(p)'
  <2>1. \A p \in Patches : pc[p] # "rebuild"
    BY <1>1, AloneWithRestore DEF Ended, Apart, NoPatchBeside, NeverMet
  <2>2. ASSUME NEW g \in Tags PROVE pc[g] # "tag"
    BY <1>1, AloneWithTag DEF Ended, Apart, Accounted, Queueable, NeverMet
  <2> QED
    BY <1>5, <2>1, <2>2 DEF TagQueue, PatchQueue
<1>7. ASSUME NEW f \in Exports PROVE SnapshotQueue(f)'
  <2>1. SnapshotQueue(f) /\ WholeSnapshot(f) /\ pc'[f] = pc[f]
    BY <1>5 DEF QueueRight, Placed
  <2>2. r \in Running(Imports \cup Patches \cup Restores)
    BY <1>1 DEF Running, Ended
  <2>3. ~ Reading(f)'
    BY <1>1, <2>1, <2>2 DEF Reading, WholeSnapshot
  <2> QED
    BY <1>1, <2>1, <2>3 DEF SnapshotQueue
<1> QED
  BY <1>4, <1>6, <1>7 DEF QueueRight

LEMMA QueuedInit ==
  ASSUME Init
  PROVE  Queued
<1>1. \A r \in Requests : pc[r] = "idle"
  BY DEF Init
<1>2. ASSUME NEW t \in Waiting PROVE InQueue(t)
  <2>1. t \in Stored /\ t \in Txns /\ txn[t].cluster \in OldClusters
    BY InitialTxns, LedgerWritersAssumption DEF Waiting, Txns
  <2>2. agg[txn[t].cluster].pending = TRUE /\ agg[txn[t].cluster] \in ClusterRow
    BY <2>1, OldRow
  <2> QED
    BY <2>2, AbsentIsNoRow DEF InQueue
<1>3. PatchKeeps
  BY <1>1, KindsApart DEF PatchKeeps, PatchKept
<1>4. /\ \A g \in Tags : TagQueue(g)
      /\ \A p \in Patches : PatchQueue(p)
      /\ \A e \in Exports : SnapshotQueue(e)
  BY <1>1, KindsApart DEF TagQueue, PatchQueue, SnapshotQueue, Reading
<1> QED
  BY <1>2, <1>3, <1>4 DEF Queued, QueueRight

LEMMA QueuedNext ==
  ASSUME Base, Queued, [Next]_vars
  PROVE  Queued'
<1>1. PatchedAlone' => PatchKeeps'
  BY KeepsNext DEF Queued
<1>2. ASSUME Queueable' PROVE QueueRight'
  <2>1. Queueable
    BY <1>2, HistoryGrows DEF Queueable
  <2>2. PatchedAlone
    BY <2>1 DEF Queueable, PatchedAlone, NoPatchBeside, NeverMet
  <2>3. Typed /\ Apart /\ Restoring /\ Placed /\ PatchKeeps /\ QueueRight
    BY <2>1, <2>2 DEF Queued, Base, Apart, PatchedAlone
  <2>4. CASE UNCHANGED vars
    <3>1. txn' = txn /\ agg' = agg /\ pc' = pc /\ work' = work /\ snapshot' = snapshot /\ quiet' = quiet
      BY <2>4 DEF vars, ledger, history
    <3> QED
      BY <2>3, <3>1 DEF QueueRight, InQueue, TagQueue, PatchQueue, SnapshotQueue, Reading, Waiting
  <2> SUFFICES ASSUME NEW r \in Requests, Step(r)
               PROVE  QueueRight'
    BY <2>4, NextIsStep
  <2> QED
    BY <2>1, <2>3, QueueOfTag, QueueOfPatch, QueueOfRebuildRead, QueueOfRebuildPut,
       QueueOfMetricsOrFail, QueueOfImport, QueueOfImportPatch, QueueOfImportInsert,
       QueueOfExport, QueueOfWipe, QueueOfCopy DEF Step
<1> QED
  BY <1>1, <1>2 DEF Queued

(* At rest every transaction that waits for review is in a cluster of the  *)
(* review queue: an import that puts back what a tag has decided queues    *)
(* the cluster that it mints. No tag has run beside a currency patch or a  *)
(* restore, no patch beside an import or a restore, and no torn backup was *)
(* restored.                                                               *)
THEOREM QueueKept == Spec => []WaitingIsQueued
<1> DEFINE I == Base /\ Queued
<1>1. Init => I
  BY BaseInit, QueuedInit
<1>2. I /\ [Next]_vars => I'
  BY BaseNext, QueuedNext
<1>3. I => WaitingIsQueued
  <2> SUFFICES ASSUME AtRest, QueueRight, NEW t \in Present(txn), txn[t].category = Pending
               PROVE  agg[txn[t].cluster] # Absent /\ agg[txn[t].cluster].pending
    BY DEF Queued, Queueable, WaitingIsQueued
  <2>1. \A i \in Imports : pc[i] \in Ended
    BY KindsApart DEF AtRest, Running
  <2>2. InQueue(t)
    BY DEF QueueRight, Waiting
  <2> QED
    BY <2>1, <2>2 DEF InQueue, Ended
<1> QED
  BY <1>1, <1>2, <1>3, PTL DEF Spec

----------------------------------------------------------------------------
(* METRICS                                                                 *)

\* Requests that refresh METRICS; those that have still to list the
\* transactions, and to put what they have listed.
Refreshers == Tags \cup Imports \cup Restores
ToList == {"tag", "patch", "rebuild", "retire", "copy", "metrics"}
Unlisted == {r \in Refreshers : pc[r] \in ToList}
Putting == {r \in Refreshers : pc[r] = "metrics put"}

Undisturbed ==
    /\ PatchedAlone /\ "metrics overtaken" \notin past
    /\ \A g \in Tags : pc[g] # "failed"

FiguresRight ==
    /\ \A r, q \in Putting : r = q
    /\ Unlisted = {} => IF Putting = {} THEN metrics = Listed(txn)
                        ELSE \A r \in Putting : work[r].list = Listed(txn)

Figured == Undisturbed => FiguresRight

\* A step of a request that will list the transactions after it.
LEMMA FiguresToCome ==
  ASSUME FiguresRight, NEW r \in Requests, Others(r), r \in Refreshers, pc'[r] \in ToList
  PROVE  FiguresRight'
<1>1. r \in Unlisted'
  BY DEF Unlisted
<1>2. Putting' \subseteq Putting
  BY KindsApart DEF Putting, Others, ToList, Refreshers
<1> QED
  BY <1>1, <1>2 DEF FiguresRight

\* A step of a request that refreshes no metrics.
LEMMA FiguresKept ==
  ASSUME FiguresRight, NEW r \in Requests, Others(r), r \notin Refreshers,
         metrics' = metrics, Listed(txn') = Listed(txn)
  PROVE  FiguresRight'
<1>1. \A q \in Refreshers : pc'[q] = pc[q] /\ work'[q] = work[q]
  <2> SUFFICES ASSUME NEW q \in Refreshers PROVE pc'[q] = pc[q] /\ work'[q] = work[q]
    OBVIOUS
  <2>1. q \in Requests /\ q # r
    BY KindsApart DEF Refreshers
  <2> QED
    BY <2>1 DEF Others
<1>2. Unlisted' = Unlisted /\ Putting' = Putting
  BY <1>1 DEF Unlisted, Putting
<1>3. \A q \in Putting : work'[q] = work[q]
  BY <1>1 DEF Putting
<1> QED
  BY <1>2, <1>3 DEF FiguresRight

LEMMA UndisturbedBefore ==
  ASSUME Typed, [Next]_vars, NEW r \in Requests, Others(r), pc[r] # "failed", Undisturbed'
  PROVE  Undisturbed
<1>1. PatchedAlone /\ "metrics overtaken" \notin past
  <2>1. PatchedAlone' /\ "metrics overtaken" \notin past'
    BY DEF Undisturbed
  <2> QED
    BY <2>1, NotBefore DEF PatchedAlone
<1>2. ASSUME NEW g \in Tags, pc[g] = "failed" PROVE FALSE
  <2>1. pc'[g] = "failed"
    BY <1>2, KindsApart DEF Others
  <2> QED
    BY <2>1 DEF Undisturbed
<1> QED
  BY <1>1, <1>2 DEF Undisturbed

LEMMA FiguredMetrics ==
  ASSUME Typed, Figured, [Next]_vars, NEW r \in Requests, MetricsList(r) \/ MetricsPut(r)
  PROVE  Figured'
<1> SUFFICES ASSUME Undisturbed' PROVE FiguresRight'
  BY DEF Figured
<1>1. CASE MetricsList(r)
  <2>1. /\ Others(r) /\ r \in Refreshers /\ pc[r] = "metrics" /\ pc'[r] = "metrics put"
        /\ work'[r].list = Listed(txn) /\ txn' = txn /\ past' = past \cup Overtaking(r)
    BY <1>1, MetricsListEffect DEF ledger, Refreshers
  <2>2. Overtaking(r) = {}
    BY <2>1 DEF Overtaking, Undisturbed
  <2>3. \A q \in Refreshers : q # r => pc[q] # "metrics put"
    BY <2>2, KindsApart DEF Overtaking, Running, Ended, Refreshers
  <2>4. \A q \in Refreshers : q # r => pc'[q] = pc[q]
    BY <2>1, KindsApart DEF Others, Refreshers
  <2>5. Putting' = {r}
    BY <2>1, <2>3, <2>4 DEF Putting
  <2> QED
    BY <2>1, <2>5 DEF FiguresRight
<1>2. CASE MetricsPut(r)
  <2>1. /\ Others(r) /\ r \in Refreshers /\ pc[r] = "metrics put" /\ pc'[r] = "ok"
        /\ metrics' = work[r].list /\ txn' = txn
    BY <1>2, MetricsPutEffect DEF Refreshers
  <2>2. FiguresRight
    BY <2>1, UndisturbedBefore DEF Figured
  <2>3. \A q \in Refreshers : q # r => pc'[q] = pc[q]
    BY <2>1, KindsApart DEF Others, Refreshers
  <2>4. Putting = {r}
    BY <2>1, <2>2 DEF FiguresRight, Putting
  <2>5. Putting' = {} /\ Unlisted' = Unlisted
    BY <2>1, <2>3, <2>4 DEF Putting, Unlisted, ToList
  <2> QED
    BY <2>1, <2>2, <2>4, <2>5 DEF FiguresRight
<1> QED
  BY <1>1, <1>2

LEMMA FiguredRefresher ==
  ASSUME Typed, Figured, [Next]_vars, NEW r \in Requests, r \in Refreshers,
         \/ TagList(r) \/ TagCluster(r) \/ TagClusterAnew(r) \/ RebuildPut(r)
         \/ ImportPlan(r) \/ ImportInsert(r) \/ ImportRecord(r)
         \/ \E t \in Txns : TagRow(r, t) \/ ImportPatch(r, t)
         \/ \E c \in Clusters : RebuildRead(r, c) \/ ImportRetire(r, c)
         \/ RestoreCopy(r) \/ \E e \in Exports : RestoreWipe(r, e)
  PROVE  Figured'
<1>1. Others(r) /\ pc[r] # "failed" /\ pc'[r] \in ToList
  <2>1. CASE TagList(r) \/ TagCluster(r) \/ TagClusterAnew(r) \/ \E t \in Txns : TagRow(r, t)
    BY <2>1, TagListEffect, TagClusterEffect, TagClusterAnewEffect, TagRowEffect DEF ToList
  <2>2. CASE RebuildPut(r) \/ \E c \in Clusters : RebuildRead(r, c)
    BY <2>2, RebuildPutEffect, RebuildReadEffect, KindsApart DEF ToList, Refreshers
  <2>3. CASE ImportPlan(r) \/ ImportInsert(r) \/ ImportRecord(r)
             \/ (\E t \in Txns : ImportPatch(r, t)) \/ \E c \in Clusters : ImportRetire(r, c)
    BY <2>3, ImportPlanEffect, ImportInsertEffect, ImportRecordEffect, ImportPatchEffect,
       ImportRetireEffect DEF ToList
  <2>4. CASE RestoreCopy(r) \/ \E e \in Exports : RestoreWipe(r, e)
    BY <2>4, RestoreCopyFrame, RestoreWipeEffect DEF ToList
  <2> QED
    BY <2>1, <2>2, <2>3, <2>4
<1> QED
  BY <1>1, FiguresToCome, UndisturbedBefore DEF Figured

LEMMA FiguredPatch ==
  ASSUME Base, Queued, Figured, [Next]_vars, NEW r \in Requests, r \in Patches,
         \/ PatchFile(r) \/ PatchQuery(r) \/ PatchRowsDone(r) \/ RebuildPut(r)
         \/ \E t \in Txns : PatchRow(r, t)
         \/ \E c \in Clusters : RebuildRead(r, c)
  PROVE  Figured'
<1> SUFFICES ASSUME Undisturbed' PROVE FiguresRight'
  BY DEF Figured
<1>0. Typed
  BY DEF Base
<1>1. Others(r) /\ metrics' = metrics /\ pc[r] # "failed"
  BY <1>0, PatchFileEffect, PatchQueryEffect, PatchRowsDoneEffect, RebuildPutEffect, PatchRowEffect,
     RebuildReadEffect DEF ledger
<1>2. FiguresRight /\ PatchKeeps /\ Placed
  <2>1. Undisturbed
    BY <1>0, <1>1, UndisturbedBefore
  <2> QED
    BY <2>1 DEF Figured, Queued, Undisturbed, PatchedAlone, Base
<1>3. Listed(txn') = Listed(txn)
  <2>1. CASE PatchFile(r) \/ PatchQuery(r) \/ PatchRowsDone(r) \/ RebuildPut(r)
             \/ \E c \in Clusters : RebuildRead(r, c)
    BY <1>0, <2>1, PatchFileEffect, PatchQueryEffect, PatchRowsDoneEffect, RebuildPutEffect,
       RebuildReadEffect DEF ledger
  <2>2. CASE \E t \in Txns : PatchRow(r, t)
    <3> PICK t \in Txns : PatchRow(r, t)
      BY <2>2
    <3>1. /\ pc[r] = "put rows" /\ t \in work[r].todo
          /\ txn'[t] = work[r].rows[t] /\ txn'[t] # Absent
          /\ \A u \in Txns \ {t} : txn'[u] = txn[u]
      BY <1>0, PatchRowEffect
    <3>2. t \in Present(txn) /\ txn'[t].category = txn[t].category
      BY <1>2, <3>1 DEF PatchKeeps, PatchKept, Placed, PatchPlaces
    <3>3. /\ Present(txn') = Present(txn)
          /\ \A u \in Present(txn) : txn'[u].category = txn[u].category
      BY <3>1, <3>2 DEF Present
    <3> QED
      BY <3>3 DEF Listed
  <2> QED
    BY <2>1, <2>2
<1> QED
  BY <1>1, <1>2, <1>3, FiguresKept, KindsApart DEF Refreshers

LEMMA FiguredOthers ==
  ASSUME Typed, Figured, [Next]_vars, NEW r \in Requests,
         Fail(r) \/ ExportClusters(r) \/ ExportFiles(r) \/ ExportTxns(r)
  PROVE  Figured'
<1> SUFFICES ASSUME Undisturbed' PROVE FiguresRight'
  BY DEF Figured
<1>1. /\ Others(r) /\ metrics' = metrics /\ txn' = txn /\ pc[r] # "failed"
      /\ r \in Tags => pc'[r] = "failed"
      /\ r \notin Imports /\ r \notin Restores
  BY FailEffect, ExportClustersEffect, ExportFilesEffect, ExportTxnsEffect, KindsApart
     DEF ledger, Ended
<1>2. r \notin Refreshers
  BY <1>1 DEF Undisturbed, Refreshers
<1>3. FiguresRight
  BY <1>1, UndisturbedBefore DEF Figured
<1> QED
  BY <1>1, <1>2, <1>3, FiguresKept

LEMMA FiguredInit ==
  ASSUME Init
  PROVE  Figured
<1>1. \A r \in Refreshers : pc[r] = "idle"
  BY KindsApart DEF Init, Refreshers
<1>2. metrics = Listed(txn)
  <2>1. Listed(txn) = {<<t, txn[t].category>> : t \in Stored}
    BY InitialTxns DEF Listed
  <2>2. \A t \in Stored : txn[t].category = Pending
    BY InitialTxns DEF Txns
  <2> QED
    BY <2>1, <2>2 DEF Init
<1>3. Putting = {}
  BY <1>1 DEF Putting
<1> QED
  BY <1>2, <1>3 DEF Figured, FiguresRight

LEMMA FiguredNext ==
  ASSUME Base, Queued, Figured, [Next]_vars
  PROVE  Figured'
<1>0. Typed
  BY DEF Base
<1>1. CASE UNCHANGED vars
  <2>1. txn' = txn /\ metrics' = metrics /\ pc' = pc /\ work' = work /\ past' = past /\ met' = met
    BY <1>1 DEF vars, ledger, history
  <2>2. Undisturbed' <=> Undisturbed
    BY <2>1 DEF Undisturbed, PatchedAlone, NoPatchBeside, NeverMet
  <2> QED
    BY <2>1, <2>2 DEF Figured, FiguresRight, Putting, Unlisted
<1> SUFFICES ASSUME NEW r \in Requests, Step(r)
             PROVE  Figured'
  BY <1>1, NextIsStep
<1>2. CASE MetricsList(r) \/ MetricsPut(r)
  BY <1>0, <1>2, FiguredMetrics
<1>3. CASE TagList(r) \/ TagCluster(r) \/ TagClusterAnew(r) \/ \E t \in Txns : TagRow(r, t)
  <2>1. r \in Refreshers
    BY <1>0, <1>3, TagListEffect, TagClusterEffect, TagClusterAnewEffect, TagRowEffect DEF Refreshers
  <2> QED
    BY <1>0, <1>3, <2>1, FiguredRefresher
<1>4. CASE PatchFile(r) \/ PatchQuery(r) \/ PatchRowsDone(r) \/ \E t \in Txns : PatchRow(r, t)
  <2>1. r \in Patches
    BY <1>0, <1>4, PatchFileEffect, PatchQueryEffect, PatchRowsDoneEffect, PatchRowEffect
  <2> QED
    BY <1>4, <2>1, FiguredPatch
<1>5. CASE RebuildPut(r) \/ \E c \in Clusters : RebuildRead(r, c)
  <2>1. r \in Patches \/ r \in Refreshers
    BY <1>0, <1>5, RebuildPutEffect, RebuildReadEffect DEF Refreshers
  <2> QED
    BY <1>0, <1>5, <2>1, FiguredPatch, FiguredRefresher
<1>6. CASE ImportPlan(r) \/ ImportInsert(r) \/ ImportRecord(r)
           \/ (\E t \in Txns : ImportPatch(r, t)) \/ \E c \in Clusters : ImportRetire(r, c)
  <2>1. r \in Refreshers
    BY <1>0, <1>6, ImportPlanEffect, ImportInsertEffect, ImportRecordEffect, ImportPatchEffect,
       ImportRetireEffect DEF Refreshers
  <2> QED
    BY <1>0, <1>6, <2>1, FiguredRefresher
<1>7. CASE RestoreCopy(r) \/ \E e \in Exports : RestoreWipe(r, e)
  <2>1. r \in Refreshers
    BY <1>0, <1>7, RestoreCopyFrame, RestoreWipeEffect DEF Refreshers
  <2> QED
    BY <1>0, <1>7, <2>1, FiguredRefresher
<1>8. CASE Fail(r) \/ ExportClusters(r) \/ ExportFiles(r) \/ ExportTxns(r)
  BY <1>0, <1>8, FiguredOthers
<1> QED
  BY <1>2, <1>3, <1>4, <1>5, <1>6, <1>7, <1>8 DEF Step

(* At rest METRICS counts the transactions as they are, whatever ran       *)
(* together and whatever was restored, unless a tag has failed half-way or *)
(* run beside a currency patch, a patch beside an import or a restore, or  *)
(* a refresh may have overtaken another.                                   *)
THEOREM MetricsKept == Spec => []MetricsCurrent
<1> DEFINE I == Base /\ Queued /\ Figured
<1>1. Init => I
  BY BaseInit, QueuedInit, FiguredInit
<1>2. I /\ [Next]_vars => I'
  BY BaseNext, QueuedNext, FiguredNext
<1>3. I => MetricsCurrent
  <2> SUFFICES ASSUME AtRest, FiguresRight PROVE metrics = Listed(txn)
    BY DEF Figured, MetricsCurrent, Undisturbed, PatchedAlone
  <2>1. \A r \in Refreshers : pc[r] \in Ended
    BY KindsApart DEF AtRest, Running, Refreshers
  <2>2. Unlisted = {} /\ Putting = {}
    BY <2>1 DEF Unlisted, Putting, Ended, ToList
  <2> QED
    BY <2>2 DEF FiguresRight
<1> QED
  BY <1>1, <1>2, <1>3, PTL DEF Spec
=============================================================================
