---------------------------- MODULE ClusterReview ----------------------------
(***************************************************************************)
(* Categories, merchant clusters and the review queue across imports: what *)
(* runImportPlanning decides about every transaction of the ledger, what   *)
(* the two persist paths make of the TXN and CLUSTER rows, and the two     *)
(* requests that write the same rows without a lock, the tag rule and the  *)
(* currency patch.                                                         *)
(*                                                                         *)
(* An import reads the ledger and plans in one step and persists in        *)
(* another: ImportInPlace, StagedReplace and LedgerWriters have the        *)
(* interleavings within a persist. The lock admits one import at a time.   *)
(* A tag lists the members of its cluster, updates them row by row, and    *)
(* then the CLUSTER row; imports, other tags and currency patches fall in  *)
(* between.                                                                *)
(***************************************************************************)
EXTENDS Integers, FiniteSets, FiniteSetsExt

CONSTANTS
    Batch,          \* Batch[f]: the rows of file f, numbered by date and id
    Links,          \* the pairs of rows that a sweep may find
    Rule,           \* Rule[t]: the category a regex rule gives row t, or None
    Categories,     \* category names, as their ranks in the order of strings
    Uncategorized,  \* the category of a row that waits for review
    StaleIds,       \* cluster ids that clients may still send after a remint
    Tags,           \* tag requests
    Internal,       \* INTERNAL_TRANSFER_CLUSTER_ID
    None,           \* no category
    Absent          \* no such row

Files == DOMAIN Batch
Txns == UNION {Batch[f] : f \in Files}

\* A merchant cluster id is minted by the import of a file for a group, which
\* goes by its first row.
MerchantIds == Files \X Txns
ClusterIds == MerchantIds \cup {Internal}

ASSUME ClusterReviewAssumption ==
    /\ \A f \in Files : Batch[f] # {} /\ Batch[f] \subseteq Nat /\ IsFiniteSet(Batch[f])
    /\ \A f, g \in Files : f # g => Batch[f] \cap Batch[g] = {}
    /\ IsFiniteSet(Files)
    /\ Links \subseteq SUBSET Txns /\ \A p \in Links : Cardinality(p) = 2
    /\ Categories \subseteq Nat /\ IsFiniteSet(Categories)
    /\ Uncategorized \in Categories /\ None \notin Categories
    /\ Rule \in [Txns -> Categories \cup {None}]
    /\ Internal \notin MerchantIds
    /\ StaleIds \subseteq ClusterIds

Statuses == {"CLASSIFIED", "PENDING_REVIEW"}

Verdicts == [cluster : ClusterIds, category : Categories, status : Statuses]
Rows == [cluster : ClusterIds, category : Categories, status : Statuses, paired : BOOLEAN]

\* whole is FALSE for what UpdateItem creates under a key that has no row: an
\* item without entity_type and counts.
Aggregates ==
    [whole : BOOLEAN, size : 0..Cardinality(Txns), assigned : Categories \cup {None},
     previous : Categories \cup {None}, pending : BOOLEAN]

\* clean: the rows of the cluster are what this tag has left of them, so far as
\* it has come.
TagStates ==
    [pc : {"idle", "rows", "done"}, cluster : ClusterIds, category : Categories,
     todo : SUBSET Txns, listed : 0..Cardinality(Txns), clean : BOOLEAN]

NoTag(pc) == [pc |-> pc, cluster |-> Internal, category |-> Uncategorized,
              todo |-> {}, listed |-> 0, clean |-> FALSE]

ASSUME AbsentAssumption == Absent \notin Rows \cup Aggregates

VARIABLES
    txn,            \* txn[t]: the TXN row of t
    agg,            \* agg[c]: the CLUSTER row of c
    plan,           \* the plan of the running import, or None
    tags,           \* tags[g]: what request g has listed and has still to update
    mixed           \* clusters in which a tag may have left several verdicts

vars == <<txn, agg, plan, tags, mixed>>

Existing(rows) == {t \in Txns : rows[t] # Absent}
Members(rows, c) == {t \in Existing(rows) : rows[t].cluster = c}
Imported(f) == Batch[f] \subseteq Existing(txn)

\* The element of a set that has one.
TheOnly(S) == IF Cardinality(S) = 1 THEN CHOOSE x \in S : TRUE ELSE None

-----------------------------------------------------------------------------
(* Stage 8: physical groups and what becomes of each. *)

\* A partition of the clusterable rows as a map from each row to the first of
\* its group (resolvePhysicalGroupLabels). Embeddings and DBSCAN are not
\* modelled: any partition may come out.
Groupings(S) == {first \in [S -> S] : \A t \in S : first[t] <= t /\ first[first[t]] = first[t]}

Classified(G) == {t \in G : txn[t] # Absent /\ txn[t].status = "CLASSIFIED"}

Votes(G, c) == Cardinality({t \in Classified(G) : txn[t].category = c})

\* Mutant: nothing is inherited unless all existing members agree.
InheritedIfUnanimous(G) == TheOnly({txn[t].category : t \in G \cap Existing(txn)})

\* inheritedCategoryForGroup: plurality, ties by name.
Inherited(G) ==
    IF Classified(G) = {} THEN None
    ELSE Min({c \in Categories : \A d \in Categories : Votes(G, c) >= Votes(G, d)})

\* categorizeGroup: the first rule that matches, among the existing rows and
\* then among the new ones. What the model of embeddings suggests otherwise is
\* shown to the user and assigned to nothing.
Suggested(G) ==
    LET ruled == {t \in G : Rule[t] # None}
        old == ruled \cap Existing(txn)
    IN  IF ruled = {} THEN None ELSE Rule[Min(IF old = {} THEN ruled ELSE old)]

\* Mutant: the prior category is that of the youngest member.
PriorOfYoungest(G) ==
    LET old == G \cap Existing(txn) IN IF old = {} THEN None ELSE txn[Max(old)].category

\* unanimousPriorCategoryForGroup.
Prior(G) == TheOnly({txn[t].category : t \in G \cap Existing(txn)})

\* buildSourceAssignments, for the rows of one group.
Assignment(G, c) ==
    LET Verdict(cat, status) == [cluster |-> c, category |-> cat, status |-> status]
    IN  IF Inherited(G) # None THEN Verdict(Inherited(G), "CLASSIFIED")
        ELSE IF Suggested(G) # None THEN Verdict(Suggested(G), "CLASSIFIED")
        ELSE Verdict(Uncategorized, "PENDING_REVIEW")

\* internalTransferAssignment.
InternalAssignment ==
    [cluster |-> Internal, category |-> Uncategorized, status |-> "CLASSIFIED"]

-----------------------------------------------------------------------------
(* Stages 7 to 9: the plan of an import. *)

\* Mutant: only the legs of this run are kept out of the clusters.
PairedThisRun(links) == UNION links

\* pairedTxnIds.
Paired(links) == (UNION links) \cup {t \in Existing(txn) : txn[t].paired}

\* Each link has a new row that asked and a partner that was free.
FeasibleLinks(f) ==
    {ls \in SUBSET Links :
       /\ \A p \in ls : /\ p \cap Batch[f] # {}
                        /\ p \subseteq Batch[f] \cup {t \in Existing(txn) : ~txn[t].paired}
       /\ \A p, q \in ls : p # q => p \cap q = {}}

\* Every group gets a fresh id (resolveClusterIdByPhysicalGroup).
PlanOf(f, links, first) ==
    LET Group(l) == {t \in DOMAIN first : first[t] = l}
    IN  [file |-> f,
         read |-> txn,
         legs |-> UNION links,
         assign |-> [t \in Existing(txn) \cup Batch[f] |->
                       IF t \in DOMAIN first
                       THEN Assignment(Group(first[t]), <<f, first[t]>>)
                       ELSE InternalAssignment],
         hint |-> [c \in ClusterIds |->
                     IF c \in {<<f, first[t]>> : t \in DOMAIN first}
                     THEN Prior(Group(c[2])) ELSE None]]

\* patchesForChangedRows.
Patched(p) ==
    {t \in Existing(p.read) :
       \/ t \in p.legs
       \/ \E key \in {"cluster", "category", "status"} : p.assign[t][key] # p.read[t][key]}

\* liveClusterIdsFromImportPlan.
Live(p) == {p.assign[t].cluster : t \in Patched(p) \cup Batch[p.file]}

\* Mutant: every id from before the import is retired.
RetiredAll(p) == {p.read[t].cluster : t \in Existing(p.read)}

\* computeRetiredClusterIds.
Retired(p) ==
    {p.read[t].cluster : t \in Existing(p.read)} \ {p.assign[t].cluster : t \in DOMAIN p.assign}

-----------------------------------------------------------------------------
(* CLUSTER rows. *)

\* What a rebuild knows of the old row: nothing unless it has an entity_type.
Stored(aggs, c) == IF aggs[c] # Absent /\ aggs[c].whole THEN aggs[c].assigned ELSE None

\* authoritativeAssignedCategory.
AssignedCategory(rows, c, stored) ==
    IF stored # None THEN stored
    ELSE TheOnly({rows[t].category : t \in {u \in Members(rows, c) : rows[u].status = "CLASSIFIED"}})

\* Mutant: only a difference queues a cluster.
NeedsReviewByDiff(rows, c, assigned, previous) == previous # None /\ assigned # previous

\* computeClusterPendingReview.
NeedsReview(rows, c, assigned, previous) ==
    IF previous # None THEN assigned # previous
    ELSE \E t \in Members(rows, c) : rows[t].status = "PENDING_REVIEW"

\* buildClusterAggregateItem.
Aggregate(rows, c, stored, previous) ==
    LET assigned == AssignedCategory(rows, c, stored)
    IN  [whole |-> TRUE, size |-> Cardinality(Members(rows, c)), assigned |-> assigned,
         previous |-> previous, pending |-> NeedsReview(rows, c, assigned, previous)]

\* The rows after the patches and the inserts of plan p. A patch never takes a
\* pairing_id away.
RowsAfter(p) ==
    LET written == Patched(p) \cup Batch[p.file]
        Row(verdict, paired) ==
            [cluster |-> verdict.cluster, category |-> verdict.category,
             status |-> verdict.status, paired |-> paired]
    IN  [t \in Txns |->
           IF t \in written
           THEN Row(p.assign[t], t \in p.legs \/ (t \notin Batch[p.file] /\ txn[t].paired))
           ELSE txn[t]]

\* persistImportPlan: patch, insert, rebuild, and retire last.
InPlace(p) ==
    LET rows == RowsAfter(p)
        live == Live(p)
        retired == Retired(p)
        rebuilt == [c \in live |-> Aggregate(rows, c, Stored(agg, c), p.hint[c])]
    IN  [txn |-> rows,
         agg |-> [c \in ClusterIds |-> IF c \in retired THEN Absent
                                       ELSE IF c \in live THEN rebuilt[c] ELSE agg[c]]]

\* materializeImportPlanToItems: drop what retires first, as far as it is
\* recognised, then patch, insert and rebuild.
Staged(p) ==
    LET rows == RowsAfter(p)
        live == Live(p)
        retired == Retired(p)
        kept == [c \in ClusterIds |->
                   IF c \in retired /\ agg[c] # Absent /\ agg[c].whole THEN Absent ELSE agg[c]]
    IN  [txn |-> rows,
         agg |-> [c \in ClusterIds |->
                    IF c \in live THEN Aggregate(rows, c, Stored(kept, c), p.hint[c])
                    ELSE kept[c]]]

-----------------------------------------------------------------------------
Init ==
    /\ txn = [t \in Txns |-> Absent]
    /\ agg = [c \in ClusterIds |-> Absent]
    /\ plan = None
    /\ tags = [g \in Tags |-> NoTag("idle")]
    /\ mixed = {}

\* runImportPlanning, on the ledger snapshot read under the lock.
Plan(f) ==
    /\ plan = None
    /\ ~Imported(f)
    /\ \E links \in FeasibleLinks(f) :
         \E first \in Groupings((Existing(txn) \cup Batch[f]) \ Paired(links)) :
           plan' = PlanOf(f, links, first)
    /\ UNCHANGED <<txn, agg, tags, mixed>>

\* Stage 10, by either path. Tags under way go on, with the rows that they have
\* listed, which are in new clusters now.
Persist ==
    /\ plan # None
    /\ \E after \in {InPlace(plan), Staged(plan)} : txn' = after.txn /\ agg' = after.agg
    /\ plan' = None
    /\ tags' = [g \in Tags |-> [tags[g] EXCEPT !.clean = FALSE]]
    /\ mixed' = {}

\* The tag rule accepts any id. Clients send those they see, and those they saw
\* before an import that is over; the bucket of transfers has a fixed name.
Known(c) ==
    \/ agg[c] # Absent
    \/ c \in StaleIds /\ (c # Internal => Imported(c[1]))

UnderWay(c) == {g \in Tags : tags[g].pc = "rows" /\ tags[g].cluster = c}

\* Something other than the tags of cluster c has changed or will change a row.
Disturbed(c) == [g \in Tags |-> [tags[g] EXCEPT !.clean = @ /\ tags[g].cluster # c]]

\* applyTagRule: the keys of the members, then an UpdateItem for each.
TagList(g, c, cat) ==
    /\ tags[g].pc = "idle" /\ Known(c)
    /\ tags' = [Disturbed(c) EXCEPT ![g] =
                  [pc |-> "rows", cluster |-> c, category |-> cat, todo |-> Members(txn, c),
                   listed |-> Cardinality(Members(txn, c)), clean |-> UnderWay(c) = {}]]
    /\ UNCHANGED <<txn, agg, plan, mixed>>

\* Mutant: members that have a category keep it.
TagRowPendingOnly(g, t) ==
    /\ tags[g].pc = "rows" /\ t \in tags[g].todo
    /\ txn' = IF txn[t].status = "CLASSIFIED" THEN txn
              ELSE [txn EXCEPT ![t].category = tags[g].category, ![t].status = "CLASSIFIED"]
    /\ tags' = [tags EXCEPT ![g].todo = @ \ {t}]
    /\ UNCHANGED <<agg, plan, mixed>>

\* The row may be in another cluster by now.
TagRow(g, t) ==
    LET c == txn[t].cluster
        stray == c # tags[g].cluster
    IN  /\ tags[g].pc = "rows" /\ t \in tags[g].todo
        /\ txn' = [txn EXCEPT ![t].category = tags[g].category, ![t].status = "CLASSIFIED"]
        /\ tags' = [(IF stray THEN Disturbed(c) ELSE tags) EXCEPT ![g].todo = @ \ {t}]
        /\ mixed' = IF stray THEN mixed \cup {c} ELSE mixed
        /\ UNCHANGED <<agg, plan>>

\* The UpdateItem of the CLUSTER row creates a fragment where there is none; if
\* it fails a whole row is put instead, with the number of rows updated.
TagCluster(g) ==
    LET c == tags[g].cluster
        New(whole, size) == [whole |-> whole, size |-> size, assigned |-> tags[g].category,
                             previous |-> None, pending |-> FALSE]
        updated == IF agg[c] = Absent THEN New(FALSE, 0)
                   ELSE [agg[c] EXCEPT !.assigned = tags[g].category, !.pending = FALSE]
    IN  /\ tags[g].pc = "rows" /\ tags[g].todo = {}
        /\ \E item \in {updated, New(TRUE, tags[g].listed)} : agg' = [agg EXCEPT ![c] = item]
        /\ tags' = [tags EXCEPT ![g] = NoTag("done")]
        /\ mixed' = IF tags[g].clean THEN mixed \ {c} ELSE mixed \cup {c}
        /\ UNCHANGED <<txn, plan>>

\* A call throws, or the process dies, before the CLUSTER row is written.
TagFails(g) ==
    /\ tags[g].pc = "rows"
    /\ tags' = [tags EXCEPT ![g] = NoTag("done")]
    /\ mixed' = mixed \cup {tags[g].cluster}
    /\ UNCHANGED <<txn, agg, plan>>

\* patchTransactionFileCurrency: the clusters of the file's rows are rebuilt
\* without hints.
PatchCurrency(f) ==
    LET touched == {txn[t].cluster : t \in Batch[f]}
    IN  /\ Imported(f)
        /\ agg' = [c \in ClusterIds |->
                     IF c \in touched THEN Aggregate(txn, c, Stored(agg, c), None) ELSE agg[c]]
        /\ UNCHANGED <<txn, plan, tags, mixed>>

Next ==
    \/ \E f \in Files : Plan(f) \/ PatchCurrency(f)
    \/ Persist
    \/ \E g \in Tags :
         \/ \E c \in ClusterIds, cat \in Categories : TagList(g, c, cat)
         \/ \E t \in Txns : TagRow(g, t)
         \/ TagCluster(g) \/ TagFails(g)

Spec == Init /\ [][Next]_vars

-----------------------------------------------------------------------------
\* Rows, CLUSTER rows and plans have their types.
TypeOK ==
    /\ txn \in [Txns -> Rows \cup {Absent}]
    /\ agg \in [ClusterIds -> Aggregates \cup {Absent}]
    /\ tags \in [Tags -> TagStates] /\ mixed \subseteq ClusterIds
    /\ plan # None =>
         /\ plan.file \in Files
         /\ plan.read \in [Txns -> Rows \cup {Absent}]
         /\ plan.assign \in [Existing(plan.read) \cup Batch[plan.file] -> Verdicts]
         /\ plan.legs \subseteq Txns
         /\ plan.hint \in [ClusterIds -> Categories \cup {None}]

\* The transactions of a merchant cluster share one verdict, and the CLUSTER
\* row shows it, whatever imports, regroupings, currency patches and tags came
\* before, also when a tag fell between the reads and the writes of an import.
\* Excepted are a cluster that a tag is writing, and, until the next import or
\* tag of it, one whose tag failed half-way or met a second tag, and one into
\* which an import has moved rows that a tag under way goes on to update
\* (dynamoFinanceRepository.ts:1720: neither request knows of the other).
OneVerdict ==
    \A t \in Existing(txn) :
        LET c == txn[t].cluster IN
        c # Internal /\ c \notin mixed /\ UnderWay(c) = {} =>
            /\ \A u \in Members(txn, c) :
                 txn[u].category = txn[t].category /\ txn[u].status = txn[t].status
            /\ agg[c].assigned = IF txn[t].status = "CLASSIFIED" THEN txn[t].category ELSE None

\* A transaction that waits for review is in a cluster of the review queue:
\* there is no other way for the user to find it.
PendingIsQueued ==
    \A t \in Existing(txn) : txn[t].status = "PENDING_REVIEW" => agg[txn[t].cluster].pending

\* Legs of a transfer stay out of merchant clusters for good, and out of review.
PairedApart ==
    \A t \in Existing(txn) : /\ txn[t].paired <=> txn[t].cluster = Internal
                             /\ txn[t].paired => txn[t].status = "CLASSIFIED"

\* Both persist paths turn a plan into the same rows.
PathsAgree == plan # None => InPlace(plan) = Staged(plan)

\* Rows that an import has persisted together with t, out of those it has read.
OldGroup(t) == {u \in Existing(plan.read) : plan.assign[u].cluster = plan.assign[t].cluster}
Decided(G) == {u \in G : plan.read[u].status = "CLASSIFIED"}

\* An import takes no decision back: where all decided transactions of a group
\* agree, as read by the plan, each keeps its category, unless it turns out to
\* be a leg of a transfer.
DecisionKept ==
    [][\A t \in Txns :
         plan # None /\ plan' = None /\ t \in Decided(Existing(plan.read)) /\ ~txn'[t].paired =>
           /\ txn'[t].status = "CLASSIFIED"
           /\ Cardinality({plan.read[u].category : u \in Decided(OldGroup(t))}) = 1 =>
                txn'[t].category = plan.read[t].category]_vars

\* An import puts no cluster in the review queue that holds a decided transaction.
DecidedNotQueued ==
    [][\A t \in Txns :
         plan # None /\ plan' = None /\ t \in Decided(Existing(plan.read)) =>
           ~agg'[txn'[t].cluster].pending]_vars
=============================================================================
