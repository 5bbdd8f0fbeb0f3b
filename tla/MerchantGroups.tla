--------------------------- MODULE MerchantGroups ---------------------------
(***************************************************************************)
(* How an import puts rows into groups of one merchant: dbscanCosine, then *)
(* splitNoiseLabels, then mergeLabelsByCleanedMerchant, all in             *)
(* backend/src/services/import/clustering, and at last the comparison that *)
(* replayClustering.ts makes between these groups and the stored clusters. *)
(*                                                                         *)
(* Each action is one iteration of a loop. An embedding is a function of   *)
(* the cleaned text, so nearness is a relation between texts: rows of one  *)
(* text have the same neighbours, and are neighbours of each other.        *)
(***************************************************************************)
EXTENDS Integers, FiniteSets

CONSTANTS
    N,              \* number of clusterable rows; a row is its index
    MinSamples,     \* DBSCAN_MIN_SAMPLES
    Inputs,         \* the possible [text, near, mode] of a run
    Close,          \* sets {a, b} of texts within the edit distance allowed
    StoredClusters, \* the possible cluster_id of each row in the table
    NoCluster       \* a row without cluster_id

Rows == 0..(N - 1)

ASSUME MerchantGroupsAssumption ==
    /\ N \in Nat /\ MinSamples \in Nat \ {0, 1}
    /\ \A in \in Inputs : in.mode \in {"off", "exact", "levenshtein"}

VARIABLES
    text,           \* text[p]: cleaned merchant
    near,           \* sets {a, b} of texts whose embeddings are within eps
    mode,           \* HOUSEF4_MERCHANT_STRING_MATCH
    label,          \* label[p]: DBSCAN's label, after EndScan the split one
    i, j,           \* the loop variables
    clusterId,      \* the next DBSCAN label
    seed, done,     \* seed list of the open cluster, and the part of it that is done
    root,           \* root[p]: what find(p) returns
    group,          \* group[p]: the label that the merge returns
    stored,         \* stored[p]: cluster_id of the row in the table
    changed,        \* the rows that the replay reports as regrouped
    pc

input == <<text, near, mode>>
scan == <<label, clusterId, seed, done>>
result == <<group, stored, changed>>
vars == <<input, scan, i, j, root, result, pc>>

Undefined == -2
Noise == -1
FirstNoise == -1000000

Near(p, q) == text[p] = text[q] \/ {text[p], text[q]} \in near
Neighbors(p) == {q \in Rows : Near(p, q)}
Dense(p) == Cardinality(Neighbors(p)) >= MinSamples

\* Mutant: the distance is allowed in exact mode too.
MerchantsMatchInAnyMode(p, q) ==
    mode # "off" /\ (text[p] = text[q] \/ {text[p], text[q]} \in Close)

MerchantsMatch(p, q) ==
    /\ mode # "off"
    /\ \/ text[p] = text[q]
       \/ mode = "levenshtein" /\ {text[p], text[q]} \in Close

TypeOK ==
    /\ label \in [Rows -> Int] /\ group \in [Rows -> Int] /\ root \in [Rows -> Rows]
    /\ i \in 0..N /\ j \in 0..(N + 1) /\ clusterId \in Nat
    /\ seed \subseteq Rows /\ done \subseteq seed
    /\ changed \subseteq Rows
    /\ pc \in {"visit", "expand", "union", "canonical", "replay", "done"}

Init ==
    /\ \E in \in Inputs : text = in.text /\ near = in.near /\ mode = in.mode
    /\ label = [p \in Rows |-> Undefined]
    /\ i = 0 /\ j = 0 /\ clusterId = 0 /\ seed = {} /\ done = {}
    /\ root = [p \in Rows |-> p]
    /\ group = [p \in Rows |-> Undefined]
    /\ stored = [p \in Rows |-> NoCluster] /\ changed = {}
    /\ pc = "visit"

----------------------------------------------------------------------------
(* dbscanCosine                                                            *)

SkipRow ==
    /\ pc = "visit" /\ i < N /\ label[i] # Undefined
    /\ i' = i + 1
    /\ UNCHANGED <<input, scan, j, root, result, pc>>

MarkNoise ==
    /\ pc = "visit" /\ i < N /\ label[i] = Undefined /\ ~Dense(i)
    /\ label' = [label EXCEPT ![i] = Noise]
    /\ i' = i + 1
    /\ UNCHANGED <<input, clusterId, seed, done, j, root, result, pc>>

OpenCluster ==
    /\ pc = "visit" /\ i < N /\ label[i] = Undefined /\ Dense(i)
    /\ label' = [label EXCEPT ![i] = clusterId]
    /\ seed' = Neighbors(i) \ {i} /\ done' = {}
    /\ pc' = "expand"
    /\ UNCHANGED <<input, clusterId, i, j, root, result>>

\* Mutant: a dense row found on the way does not bring its neighbours.
ExpandFirstRing(q) ==
    /\ pc = "expand" /\ q \in seed \ done
    /\ done' = done \cup {q}
    /\ label' = IF label[q] \in {Undefined, Noise} THEN [label EXCEPT ![q] = clusterId] ELSE label
    /\ UNCHANGED <<input, clusterId, seed, i, j, root, result, pc>>

\* The seed list is taken in any order.
Expand(q) ==
    /\ pc = "expand" /\ q \in seed \ done
    /\ done' = done \cup {q}
    /\ label' = IF label[q] \in {Undefined, Noise} THEN [label EXCEPT ![q] = clusterId] ELSE label
    /\ seed' = IF label[q] = Undefined /\ Dense(q) THEN seed \cup Neighbors(q) ELSE seed
    /\ UNCHANGED <<input, clusterId, i, j, root, result, pc>>

CloseCluster ==
    /\ pc = "expand" /\ done = seed
    /\ clusterId' = clusterId + 1 /\ i' = i + 1 /\ pc' = "visit"
    /\ UNCHANGED <<input, label, seed, done, j, root, result>>

----------------------------------------------------------------------------
(* splitNoiseLabels and mergeLabelsByCleanedMerchant                       *)

\* Mutant: the counter is not counted down.
SplitNoiseSameLabel ==
    [p \in Rows |-> IF label[p] \in {Noise, Undefined} THEN FirstNoise ELSE label[p]]

SplitNoise ==
    [p \in Rows |-> IF label[p] \in {Noise, Undefined}
                    THEN FirstNoise - Cardinality({q \in 0..(p - 1) : label[q] \in {Noise, Undefined}})
                    ELSE label[p]]

EndScan ==
    /\ pc = "visit" /\ i = N
    /\ label' = SplitNoise
    /\ IF mode = "off"
       THEN group' = SplitNoise /\ pc' = "replay" /\ UNCHANGED <<i, j>>
       ELSE i' = 0 /\ j' = 1 /\ pc' = "union" /\ UNCHANGED group
    /\ UNCHANGED <<input, clusterId, seed, done, root, stored, changed>>

\* Mutant: the row is moved, not its root.
CompareMovesOne ==
    /\ pc = "union" /\ i < N /\ j < N
    /\ root' = IF MerchantsMatch(i, j) THEN [root EXCEPT ![j] = root[i]] ELSE root
    /\ j' = j + 1
    /\ UNCHANGED <<input, scan, i, result, pc>>

\* find with its path compression is root; parent[find(j)] = find(i) moves
\* every row that j's root stands for.
Compare ==
    /\ pc = "union" /\ i < N /\ j < N
    /\ root' = IF MerchantsMatch(i, j)
               THEN [p \in Rows |-> IF root[p] = root[j] THEN root[i] ELSE root[p]]
               ELSE root
    /\ j' = j + 1
    /\ UNCHANGED <<input, scan, i, result, pc>>

NextRow ==
    /\ pc = "union" /\ i < N /\ j >= N
    /\ i' = i + 1
    /\ IF i + 1 = N THEN pc' = "canonical" /\ UNCHANGED j
                    ELSE j' = i + 2 /\ UNCHANGED pc
    /\ UNCHANGED <<input, scan, root, result>>

\* rootToCanonical: the least label of the rows that share a root.
Canonical(p) ==
    CHOOSE l \in {label[q] : q \in Rows} :
        /\ \E q \in Rows : root[q] = root[p] /\ label[q] = l
        /\ \A q \in Rows : root[q] = root[p] => l <= label[q]

Relabel ==
    /\ pc = "canonical"
    /\ group' = [p \in Rows |-> Canonical(p)]
    /\ pc' = "replay"
    /\ UNCHANGED <<input, scan, i, j, root, stored, changed>>

----------------------------------------------------------------------------
(* replayClusteringForUser: groupingChangedIds over the rows               *)

LabelsOf(f, c) == {group[p] : p \in {q \in Rows : f[q] = c}}
ClustersOf(f, l) == {f[p] : p \in {q \in Rows : group[q] = l /\ f[q] # NoCluster}}

\* Mutant: merged clusters are not looked at.
GroupingChangedBySplit(f) ==
    {p \in Rows : f[p] # NoCluster /\ Cardinality(LabelsOf(f, f[p])) > 1}

GroupingChanged(f) ==
    {p \in Rows : /\ f[p] # NoCluster
                  /\ \/ Cardinality(LabelsOf(f, f[p])) > 1
                     \/ Cardinality(ClustersOf(f, group[p])) > 1}

Replay ==
    /\ pc = "replay"
    /\ \E f \in StoredClusters : stored' = f /\ changed' = GroupingChanged(f)
    /\ pc' = "done"
    /\ UNCHANGED <<input, scan, i, j, root, group>>

Next ==
    \/ SkipRow \/ MarkNoise \/ OpenCluster \/ (\E q \in Rows : Expand(q)) \/ CloseCluster
    \/ EndScan \/ Compare \/ NextRow \/ Relabel \/ Replay

Spec == Init /\ [][Next]_vars

----------------------------------------------------------------------------
(* What the groups must be                                                 *)

\* The sets of rows that no step of R leaves: q can be reached from p exactly
\* if every such set that has p has q.
ClosedUnder(R(_, _)) ==
    {S \in SUBSET Rows : \A p \in S, q \in Rows : R(p, q) => q \in S}

DenseLink(p, q) == Dense(p) /\ Dense(q) /\ Near(p, q)

\* The groups are complete; nothing of them changes any more.
Grouped == pc = "replay"

(* DBSCAN puts two dense rows into one cluster exactly if a chain of near  *)
(* dense rows joins them; a row that is not dense belongs to its dense     *)
(* neighbours, all of one cluster as long as MinSamples <= 3 (it is 3), so *)
(* that no group depends on the order of the rows; without any it is alone *)
(* (dbscanCosine.ts, labelGroups.ts:19).                                   *)
DenseGroups ==
    Grouped =>
        LET closed == ClosedUnder(DenseLink)
            dense == {p \in Rows : Dense(p)}
        IN /\ \A p, q \in dense :
                label[p] = label[q] <=> \A S \in closed : p \in S => q \in S
           /\ \A p \in Rows \ dense :
                IF Neighbors(p) \cap dense = {}
                THEN \A q \in Rows \ {p} : label[p] # label[q]
                ELSE /\ \E q \in Neighbors(p) \cap dense : label[p] = label[q]
                     /\ MinSamples <= 3 => \A q \in Neighbors(p) \cap dense : label[p] = label[q]

(* Rows whose cleaned merchants match end in one group, also over a chain  *)
(* of matches where the ends do not match (merchantStringMatch.ts:69).     *)
MatchingTogether ==
    Grouped => \A p, q \in Rows : MerchantsMatch(p, q) => group[p] = group[q]

(* With exact matching the merge only joins singletons or nothing: no      *)
(* group that DBSCAN made is torn apart, although a merged row takes the   *)
(* least label of its namesakes and leaves its own group behind            *)
(* (merchantStringMatch.ts:119).                                           *)
NothingTorn ==
    Grouped /\ mode = "exact" =>
        \A p, q \in Rows : label[p] = label[q] => group[p] = group[q]

\* A dense row and its neighbour, or two rows whose names match.
Related(p, q) == (Near(p, q) /\ (Dense(p) \/ Dense(q))) \/ MerchantsMatch(p, q)

(* No group joins merchants that have nothing to do with each other: its   *)
(* rows are connected by density and by matching names, through members of *)
(* the ledger (labelGroups.ts:24).                                         *)
JoinedForCause ==
    Grouped =>
        LET closed == ClosedUnder(Related)
        IN \A p, q \in Rows : group[p] = group[q] => \A S \in closed : p \in S => q \in S

(* The replay reports a row exactly if it has a companion from which it    *)
(* was parted, or a new one: a row with a cluster that was with it and is  *)
(* no more, or is now and was not (replayClustering.ts:144).               *)
RegroupedReported ==
    pc = "done" =>
        changed = {p \in Rows : \E q \in Rows :
            /\ stored[p] # NoCluster /\ stored[q] # NoCluster
            /\ (stored[p] = stored[q]) # (group[p] = group[q])}

=============================================================================
