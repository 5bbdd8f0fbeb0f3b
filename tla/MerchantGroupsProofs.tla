------------------------ MODULE MerchantGroupsProofs ------------------------
(***************************************************************************)
(* For any number of rows, any texts, nearness and matching: the groups of *)
(* an import are what MerchantGroups says of them. One invariant has a     *)
(* part for each loop: the open cluster of DBSCAN, the clusters that are   *)
(* closed, and the forest of the merge.                                    *)
(***************************************************************************)
EXTENDS MerchantGroups, TLAPS, FiniteSetTheorems

----------------------------------------------------------------------------
(* Rows, nearness and matching                                             *)

LEMMA NearFacts ==
  ASSUME NEW p \in Rows, NEW q \in Rows
  PROVE  /\ Near(p, p) /\ (Near(p, q) <=> Near(q, p))
         /\ MerchantsMatch(p, q) <=> MerchantsMatch(q, p)
         /\ p \in Neighbors(p) /\ Neighbors(p) \subseteq Rows
         /\ q \in Neighbors(p) <=> Near(p, q)
<1>1. {text[p], text[q]} = {text[q], text[p]}
  OBVIOUS
<1> QED
  BY <1>1 DEF Near, MerchantsMatch, Neighbors

\* Rows of one text are alike.
LEMMA Twins ==
  ASSUME NEW p \in Rows, NEW q \in Rows, text[p] = text[q]
  PROVE  /\ Neighbors(p) = Neighbors(q) /\ (Dense(p) <=> Dense(q)) /\ Near(p, q)
         /\ \A r \in Rows : p \in Neighbors(r) => q \in Neighbors(r)
BY DEF Neighbors, Near, Dense

LEMMA RowsFinite == IsFiniteSet(Rows) /\ \A S \in SUBSET Rows : IsFiniteSet(S) /\ Cardinality(S) \in Nat
<1>1. IsFiniteSet(Rows)
  BY MerchantGroupsAssumption, FS_Interval DEF Rows
<1> QED
  BY <1>1, FS_Subset, FS_CardinalityType

LEMMA ImageFinite ==
  ASSUME NEW S, IsFiniteSet(S), NEW f
  PROVE  IsFiniteSet({f[x] : x \in S})
<1> DEFINE T == {f[x] : x \in S}  g == [x \in S |-> f[x]]
<1>1. g \in Surjection(S, T)
  BY DEF Surjection
<1> QED
  BY <1>1, FS_Surjection

LEMMA MoreThanOne ==
  ASSUME NEW S, IsFiniteSet(S), NEW x \in S
  PROVE  /\ Cardinality(S) > 1 <=> \E y \in S : y # x
         /\ Cardinality(S) \in Nat \ {0}
<1>1. IsFiniteSet(S \ {x}) /\ Cardinality(S \ {x}) = Cardinality(S) - 1
  BY FS_RemoveElement
<1>2. Cardinality(S) \in Nat /\ Cardinality(S \ {x}) \in Nat
  BY <1>1, FS_CardinalityType
<1>3. Cardinality(S \ {x}) = 0 <=> S \ {x} = {}
  BY <1>1, FS_EmptySet
<1>4. S \ {x} = {} <=> ~\E y \in S : y # x
  OBVIOUS
<1> QED
  BY <1>1, <1>2, <1>3, <1>4

\* A row that is not dense has one neighbour besides itself at most, as long
\* as three rows are enough to be dense.
LEMMA OneNeighbor ==
  ASSUME NEW p \in Rows, ~Dense(p), MinSamples <= 3,
         NEW q \in Neighbors(p), NEW r \in Neighbors(p), q # p, r # p
  PROVE  q = r
<1> SUFFICES ASSUME q # r PROVE FALSE
  OBVIOUS
<1>1. p \in Neighbors(p) /\ Neighbors(p) \in SUBSET Rows
  BY NearFacts
<1>2. IsFiniteSet(Neighbors(p)) /\ Cardinality(Neighbors(p)) \in Nat
  BY <1>1, RowsFinite
<1>3. IsFiniteSet({p}) /\ Cardinality({p}) = 1
  BY FS_Singleton
<1>4. IsFiniteSet({p} \cup {q}) /\ Cardinality({p} \cup {q}) = 2
  BY <1>3, FS_AddElement
<1>5. Cardinality(({p} \cup {q}) \cup {r}) = 3
  BY <1>4, FS_AddElement
<1>6. ({p} \cup {q}) \cup {r} \subseteq Neighbors(p)
  BY <1>1
<1>7. Cardinality(({p} \cup {q}) \cup {r}) <= Cardinality(Neighbors(p))
  BY <1>2, <1>6, FS_Subset
<1> QED
  BY <1>2, <1>5, <1>7, MerchantGroupsAssumption DEF Dense

----------------------------------------------------------------------------
(* The relations of a run, as sets: none of them changes.                  *)

DenseRows == {p \in Rows : Dense(p)}
Around == [p \in Rows |-> Neighbors(p)]
Namesakes == [p \in Rows |-> {q \in Rows : text[q] = text[p]}]
Matches == [p \in Rows |-> {q \in Rows : MerchantsMatch(p, q)}]

\* The rows that p reaches over related, and over dense and near rows.
Kin == [p \in Rows |-> {q \in Rows : \A S \in ClosedUnder(Related) : p \in S => q \in S}]
DenseKin == [p \in Rows |-> {q \in Rows : \A S \in ClosedUnder(DenseLink) : p \in S => q \in S}]

LEMMA AroundFacts ==
  /\ DenseRows \subseteq Rows /\ Around \in [Rows -> SUBSET Rows]
  /\ \A p \in Rows : p \in Around[p]
  /\ \A p, q \in Rows : q \in Around[p] <=> p \in Around[q]
BY NearFacts DEF DenseRows, Around

LEMMA NamesakesFacts ==
  /\ Namesakes \in [Rows -> SUBSET Rows] /\ Matches \in [Rows -> SUBSET Rows]
  /\ \A p, q \in Rows : q \in Namesakes[p] <=> text[p] = text[q]
  /\ \A p, q \in Rows : q \in Matches[p] <=> MerchantsMatch(p, q)
  /\ \A p, q \in Rows : q \in Matches[p] <=> p \in Matches[q]
  /\ \A p, q \in Rows : q \in Namesakes[p] =>
       /\ q \in Around[p] /\ Around[q] = Around[p] /\ (q \in DenseRows <=> p \in DenseRows)
       /\ \A r \in Rows : p \in Around[r] => q \in Around[r]
<1>1. /\ Namesakes \in [Rows -> SUBSET Rows] /\ Matches \in [Rows -> SUBSET Rows]
      /\ \A p, q \in Rows : q \in Namesakes[p] <=> text[p] = text[q]
      /\ \A p, q \in Rows : q \in Matches[p] <=> MerchantsMatch(p, q)
  BY DEF Namesakes, Matches
<1>2. \A p, q \in Rows : q \in Matches[p] <=> p \in Matches[q]
  BY <1>1, NearFacts
<1>3. ASSUME NEW p \in Rows, NEW q \in Rows, text[p] = text[q]
      PROVE  /\ q \in Around[p] /\ Around[q] = Around[p] /\ (q \in DenseRows <=> p \in DenseRows)
             /\ \A r \in Rows : p \in Around[r] => q \in Around[r]
  BY <1>3, Twins, NearFacts DEF Around, DenseRows
<1> QED
  BY <1>1, <1>2, <1>3

\* Both kinds of kin are equivalences, and the links that make them are in them.
LEMMA KinFacts ==
  /\ Kin \in [Rows -> SUBSET Rows]
  /\ \A p \in Rows : p \in Kin[p]
  /\ \A p, q \in Rows : Related(p, q) => q \in Kin[p]
  /\ \A p, q \in Rows : q \in Kin[p] => p \in Kin[q]
  /\ \A p, q, r \in Rows : q \in Kin[p] /\ r \in Kin[q] => r \in Kin[p]
<1>1. Kin \in [Rows -> SUBSET Rows]
      /\ \A p, q \in Rows : q \in Kin[p] <=> \A S \in ClosedUnder(Related) : p \in S => q \in S
  BY DEF Kin
<1>2. \A S : S \in ClosedUnder(Related) <=>
               S \in SUBSET Rows /\ \A p \in S, q \in Rows : Related(p, q) => q \in S
  BY DEF ClosedUnder
<1>3. \A p, q \in Rows : Related(p, q) <=> Related(q, p)
  BY NearFacts DEF Related
<1>4. ASSUME NEW p \in Rows, NEW q \in Rows, q \in Kin[p] PROVE p \in Kin[q]
  <2>1. SUFFICES ASSUME NEW S \in ClosedUnder(Related), q \in S, p \notin S PROVE FALSE
    BY <1>1
  <2>2. Rows \ S \in ClosedUnder(Related)
    BY <1>2, <1>3
  <2> QED
    BY <1>1, <1>4, <2>1, <2>2
<1>5. \A p, q \in Rows : Related(p, q) => q \in Kin[p]
  BY <1>1, <1>2
<1> QED
  BY <1>1, <1>4, <1>5

LEMMA DenseKinFacts ==
  /\ DenseKin \in [Rows -> SUBSET Rows]
  /\ \A p \in Rows : p \in DenseKin[p]
  /\ \A p, q \in DenseRows : q \in Around[p] => q \in DenseKin[p]
  /\ \A p, q \in Rows : q \in DenseKin[p] => p \in DenseKin[q]
  /\ \A p, q, r \in Rows : q \in DenseKin[p] /\ r \in DenseKin[q] => r \in DenseKin[p]
<1>1. DenseKin \in [Rows -> SUBSET Rows]
      /\ \A p, q \in Rows : q \in DenseKin[p] <=> \A S \in ClosedUnder(DenseLink) : p \in S => q \in S
  BY DEF DenseKin
<1>2. \A S : S \in ClosedUnder(DenseLink) <=>
               S \in SUBSET Rows /\ \A p \in S, q \in Rows : DenseLink(p, q) => q \in S
  BY DEF ClosedUnder
<1>3. \A p, q \in Rows : DenseLink(p, q) <=> DenseLink(q, p)
  BY NearFacts DEF DenseLink
<1>4. ASSUME NEW p \in Rows, NEW q \in Rows, q \in DenseKin[p] PROVE p \in DenseKin[q]
  <2>1. SUFFICES ASSUME NEW S \in ClosedUnder(DenseLink), q \in S, p \notin S PROVE FALSE
    BY <1>1
  <2>2. Rows \ S \in ClosedUnder(DenseLink)
    BY <1>2, <1>3
  <2> QED
    BY <1>1, <1>4, <2>1, <2>2
<1>5. \A p, q \in DenseRows : q \in Around[p] => DenseLink(p, q)
  BY NearFacts DEF DenseLink, DenseRows, Around
<1>6. \A p, q \in DenseRows : q \in Around[p] => q \in DenseKin[p]
  BY <1>1, <1>2, <1>5 DEF DenseRows
<1> QED
  BY <1>1, <1>4, <1>6

LEMMA RelatedFacts ==
  ASSUME NEW p \in Rows, NEW q \in Rows
  PROVE  /\ q \in Around[p] /\ (p \in DenseRows \/ q \in DenseRows) => q \in Kin[p]
         /\ q \in Matches[p] => q \in Kin[p]
BY KinFacts, NearFacts DEF Related, Around, DenseRows, Matches

\* Nothing of it depends on what a step changes.
relations == <<DenseRows, Around, Namesakes, Matches, Kin, DenseKin>>

LEMMA InputKept == ASSUME UNCHANGED input PROVE UNCHANGED relations
<1>1. text' = text /\ near' = near /\ mode' = mode
  BY DEF input
<1> QED
  BY <1>1 DEF relations, DenseRows, Around, Namesakes, Matches, Kin, DenseKin, ClosedUnder, Related,
              DenseLink, Dense, Neighbors, Near, MerchantsMatch

----------------------------------------------------------------------------
(* DBSCAN                                                                  *)

Labels(n) == 0..(n - 1)

\* What a cluster keeps once it is closed: all namesakes of a member, all
\* neighbours of a dense one (an earlier cluster may have taken those that
\* are not dense), members that are kin, and a dense one beside each.
ClosedClusters(f, n) ==
    \A p, q \in Rows : f[p] \in Labels(n) =>
        /\ q \in Namesakes[p] => f[q] = f[p]
        /\ p \in DenseRows /\ q \in Around[p] =>
             f[q] \in Labels(f[p] + 1) /\ (q \in DenseRows => f[q] = f[p])
        /\ f[q] = f[p] => q \in Kin[p] /\ (p \in DenseRows /\ q \in DenseRows => q \in DenseKin[p])
        /\ \E r \in DenseRows : r \in Around[p] /\ f[r] = f[p]

ScanType ==
    /\ clusterId \in Nat /\ i \in 0..N
    /\ label \in [Rows -> Int] /\ \A p \in Rows : label[p] \in Labels(clusterId + 1) \cup {Undefined, Noise}
    /\ \A p \in DenseRows : label[p] # Noise
    /\ \A p \in Rows : p < i => label[p] # Undefined
    /\ pc = "visit" => \A p \in Rows : label[p] # clusterId

\* The cluster that is open: every row on its list is kin of the row that
\* opened it, beside a dense member, with its namesakes.
Listed == seed \cup {i}
OpenedCluster ==
    /\ i \in DenseRows /\ label[i] = clusterId /\ seed \subseteq Rows /\ done \subseteq seed
    /\ \A p \in Rows : label[p] = clusterId => p \in done \cup {i}
    /\ \A p \in done : label[p] \in Labels(clusterId + 1)
    /\ \A p \in Listed, q \in Rows : q \in Namesakes[p] => q \in Listed
    /\ \A p \in Rows : label[p] = clusterId /\ p \in DenseRows => Around[p] \subseteq Listed
    /\ \A p \in Listed : /\ p \in Kin[i] /\ (p \in DenseRows => p \in DenseKin[i])
                         /\ \E r \in DenseRows : r \in Around[p] /\ label[r] = clusterId

Scanning == pc \in {"visit", "expand"}

DbscanInv ==
    Scanning => ScanType /\ ClosedClusters(label, clusterId) /\ (pc = "expand" => OpenedCluster)

\* A step that gives no row a closed label, nor takes one away, keeps them.
LEMMA ClosedKept ==
  ASSUME NEW f, NEW g, NEW n \in Nat, ClosedClusters(f, n),
         \A p \in Rows : \A c \in Labels(n) : g[p] = c <=> f[p] = c
  PROVE  ClosedClusters(g, n)
<1> SUFFICES ASSUME NEW p \in Rows, NEW q \in Rows, g[p] \in Labels(n)
             PROVE  /\ q \in Namesakes[p] => g[q] = g[p]
                    /\ p \in DenseRows /\ q \in Around[p] =>
                         g[q] \in Labels(g[p] + 1) /\ (q \in DenseRows => g[q] = g[p])
                    /\ g[q] = g[p] => q \in Kin[p] /\ (p \in DenseRows /\ q \in DenseRows => q \in DenseKin[p])
                    /\ \E r \in DenseRows : r \in Around[p] /\ g[r] = g[p]
  BY DEF ClosedClusters
<1>1. f[p] = g[p] /\ f[p] \in Labels(n)
  OBVIOUS
<1>2. Labels(f[p] + 1) \subseteq Labels(n)
  BY <1>1 DEF Labels
<1>3. \A r \in Rows : f[r] \in Labels(n) => g[r] = f[r]
  OBVIOUS
<1>4. q \in Namesakes[p] => g[q] = g[p]
  BY <1>1, <1>3 DEF ClosedClusters
<1>5. p \in DenseRows /\ q \in Around[p] => g[q] \in Labels(g[p] + 1) /\ (q \in DenseRows => g[q] = g[p])
  BY <1>1, <1>2, <1>3 DEF ClosedClusters
<1>6. g[q] = g[p] => q \in Kin[p] /\ (p \in DenseRows /\ q \in DenseRows => q \in DenseKin[p])
  BY <1>1 DEF ClosedClusters
<1>7. \E r \in DenseRows : r \in Around[p] /\ g[r] = g[p]
  <2>1. PICK r \in DenseRows : r \in Around[p] /\ f[r] = f[p]
    BY <1>1 DEF ClosedClusters
  <2>2. r \in Rows
    BY AroundFacts
  <2> QED
    BY <1>1, <1>3, <2>1, <2>2
<1> QED
  BY <1>4, <1>5, <1>6, <1>7

\* A row on the list that an earlier cluster has taken is not dense.
LEMMA TakenIsNotDense ==
  ASSUME ScanType, ClosedClusters(label, clusterId), OpenedCluster,
         NEW p \in Listed, p \in DenseRows
  PROVE  label[p] \notin Labels(clusterId)
<1> SUFFICES ASSUME label[p] \in Labels(clusterId) PROVE FALSE
  OBVIOUS
<1>1. PICK r \in DenseRows : r \in Around[p] /\ label[r] = clusterId
  BY DEF OpenedCluster
<1>2. p \in Rows /\ r \in Rows
  BY AroundFacts
<1>3. label[r] = label[p]
  BY <1>1, <1>2 DEF ClosedClusters
<1> QED
  BY <1>1, <1>3 DEF Labels, ScanType

LEMMA Expanded ==
  ASSUME DbscanInv, NEW x \in Rows, Expand(x)
  PROVE  DbscanInv'
<1>0. pc = "expand" /\ pc' = "expand" /\ ScanType /\ ClosedClusters(label, clusterId) /\ OpenedCluster
      /\ x \in seed \ done /\ done' = done \cup {x} /\ clusterId' = clusterId /\ i' = i
  BY DEF Expand, DbscanInv, Scanning
<1>1. UNCHANGED relations
  BY InputKept DEF Expand
<1>2. DenseRows \subseteq Rows /\ seed \subseteq Rows /\ i \in Rows /\ clusterId \in Nat
      /\ label \in [Rows -> Int] /\ \A p \in Rows : label[p] \in Labels(clusterId + 1) \cup {Undefined, Noise}
  BY <1>0, AroundFacts DEF OpenedCluster, ScanType
<1>3. /\ label' \in [Rows -> Int]
      /\ \A p \in Rows \ {x} : label'[p] = label[p]
      /\ label'[x] = IF label[x] \in {Undefined, Noise} THEN clusterId ELSE label[x]
  BY <1>0, <1>2 DEF Expand
<1>4. seed' = IF label[x] = Undefined /\ x \in DenseRows THEN seed \cup Around[x] ELSE seed
  BY <1>0 DEF Expand, DenseRows, Around
<1>5. ScanType'
  BY <1>0, <1>1, <1>2, <1>3 DEF ScanType, Labels, Undefined, Noise, relations
<1>6. ClosedClusters(label', clusterId)
  BY <1>0, <1>2, <1>3, ClosedKept DEF Labels, Undefined, Noise
<1>7. ClosedClusters(label, clusterId)'
  BY <1>0, <1>1, <1>6 DEF ClosedClusters, relations
<1>8. \A p \in Rows : (label'[p] = clusterId <=> label[p] = clusterId \/ (p = x /\ label[x] \in {Undefined, Noise}))
  BY <1>2, <1>3 DEF Undefined, Noise
<1>9. label[x] \in {Undefined, Noise} /\ x \in DenseRows => label[x] = Undefined
  BY <1>0 DEF ScanType
<1>10. OpenedCluster'
  <2> DEFINE L == seed \cup {i}  M == seed' \cup {i}
  <2>1. /\ i \in DenseRows /\ label'[i] = clusterId /\ seed' \subseteq Rows /\ done' \subseteq seed'
    BY <1>0, <1>2, <1>3, <1>4, <1>8, AroundFacts DEF OpenedCluster
  <2>2. \A p \in Rows : label'[p] = clusterId => p \in done' \cup {i}
    BY <1>0, <1>8 DEF OpenedCluster
  <2>3. \A p \in done' : label'[p] \in Labels(clusterId + 1)
    BY <1>0, <1>2, <1>3 DEF OpenedCluster, Labels
  <2>4. \A p \in M, q \in Rows : q \in Namesakes[p] => q \in M
    BY <1>0, <1>2, <1>4, NamesakesFacts, AroundFacts DEF OpenedCluster, Listed
  <2>5. \A p \in Rows : label'[p] = clusterId /\ p \in DenseRows => Around[p] \subseteq M
    BY <1>0, <1>4, <1>8, <1>9 DEF OpenedCluster, Listed
  <2>6. ASSUME NEW p \in M
        PROVE  /\ p \in Kin[i] /\ (p \in DenseRows => p \in DenseKin[i])
               /\ \E r \in DenseRows : r \in Around[p] /\ label'[r] = clusterId
    <3>1. CASE p \in L
      BY <1>0, <1>2, <1>8, <3>1 DEF OpenedCluster, Listed
    <3>2. CASE p \notin L
      <4>1. label[x] = Undefined /\ x \in DenseRows /\ p \in Around[x] /\ x \in Listed
        BY <1>0, <1>4, <3>2 DEF Listed
      <4>2. x \in Kin[i] /\ x \in DenseKin[i] /\ p \in Rows /\ x \in Rows
        BY <1>0, <1>2, <4>1, AroundFacts DEF OpenedCluster
      <4>3. p \in Kin[x] /\ (p \in DenseRows => p \in DenseKin[x])
        BY <4>1, <4>2, RelatedFacts, DenseKinFacts
      <4>4. p \in Kin[i] /\ (p \in DenseRows => p \in DenseKin[i])
        BY <1>2, <4>2, <4>3, KinFacts, DenseKinFacts
      <4>5. x \in Around[p] /\ label'[x] = clusterId
        BY <1>8, <4>1, <4>2, AroundFacts
      <4> QED
        BY <4>1, <4>4, <4>5
    <3> QED
      BY <3>1, <3>2
  <2> QED
    BY <1>0, <1>1, <2>1, <2>2, <2>3, <2>4, <2>5, <2>6 DEF OpenedCluster, Listed, relations
<1> QED
  BY <1>0, <1>5, <1>7, <1>10 DEF DbscanInv

LEMMA Opened ==
  ASSUME DbscanInv, OpenCluster
  PROVE  DbscanInv'
<1>0. pc = "visit" /\ pc' = "expand" /\ ScanType /\ ClosedClusters(label, clusterId)
      /\ label[i] = Undefined /\ label' = [label EXCEPT ![i] = clusterId]
      /\ done' = {} /\ clusterId' = clusterId /\ i' = i
  BY DEF OpenCluster, DbscanInv, Scanning
<1>a. i \in Rows
  BY <1>0, MerchantGroupsAssumption DEF OpenCluster, ScanType, Rows
<1>1. UNCHANGED relations
  BY InputKept DEF OpenCluster
<1>2. i \in DenseRows /\ seed' = Around[i] \ {i} /\ Around[i] \subseteq Rows /\ i \in Around[i]
  BY <1>0, <1>a, AroundFacts DEF OpenCluster, DenseRows, Around
<1>3. /\ clusterId \in Nat /\ label' \in [Rows -> Int] /\ label'[i] = clusterId
      /\ \A p \in Rows \ {i} : label'[p] = label[p]
  BY <1>0, <1>a DEF ScanType
<1>4. ScanType'
  BY <1>0, <1>a, <1>1, <1>3 DEF ScanType, Labels, Undefined, Noise, relations
<1>5. ClosedClusters(label', clusterId)
  <2>1. \A p \in Rows : \A c \in Labels(clusterId) : label'[p] = c <=> label[p] = c
    BY <1>0, <1>3 DEF Labels, Undefined
  <2>2. ClosedClusters(label, clusterId) /\ clusterId \in Nat
    BY <1>0, <1>3
  <2> QED
    BY <2>1, <2>2, ClosedKept
<1>6. ClosedClusters(label, clusterId)'
  BY <1>0, <1>a, <1>1, <1>5 DEF ClosedClusters, relations
<1>7. \A p \in Rows : label'[p] = clusterId <=> p = i
  BY <1>0, <1>a, <1>3 DEF ScanType
<1>8. seed' \cup {i} = Around[i]
  BY <1>2
<1>9. \A p \in Around[i] : /\ p \in Kin[i] /\ (p \in DenseRows => p \in DenseKin[i])
                           /\ i \in Around[p]
                           /\ \A q \in Rows : q \in Namesakes[p] => q \in Around[i]
  <2> SUFFICES ASSUME NEW p \in Around[i]
               PROVE  /\ p \in Kin[i] /\ (p \in DenseRows => p \in DenseKin[i])
                      /\ i \in Around[p]
                      /\ \A q \in Rows : q \in Namesakes[p] => q \in Around[i]
    OBVIOUS
  <2>1. p \in Rows
    BY <1>2
  <2>2. p \in Kin[i]
    BY <1>0, <1>a, <1>2, <2>1, RelatedFacts
  <2>3. p \in DenseRows => p \in DenseKin[i]
    BY <1>2, DenseKinFacts
  <2>4. i \in Around[p]
    BY <1>0, <1>a, <2>1, AroundFacts
  <2>5. \A q \in Rows : q \in Namesakes[p] => q \in Around[i]
    BY <1>0, <1>a, <2>1, NamesakesFacts
  <2> QED
    BY <2>2, <2>3, <2>4, <2>5
<1>10. OpenedCluster'
  BY <1>0, <1>a, <1>1, <1>2, <1>3, <1>7, <1>8, <1>9 DEF OpenedCluster, Listed, relations
<1> QED
  BY <1>0, <1>a, <1>4, <1>6, <1>10 DEF DbscanInv

LEMMA Closed ==
  ASSUME DbscanInv, CloseCluster
  PROVE  DbscanInv'
<1>0. pc = "expand" /\ pc' = "visit" /\ ScanType /\ ClosedClusters(label, clusterId) /\ OpenedCluster
      /\ done = seed /\ clusterId' = clusterId + 1 /\ i' = i + 1 /\ label' = label
  BY DEF CloseCluster, DbscanInv, Scanning
<1>1. UNCHANGED relations
  BY InputKept DEF CloseCluster
<1>2. clusterId \in Nat /\ i \in Rows /\ DenseRows \subseteq Rows /\ seed \subseteq Rows
      /\ label \in [Rows -> Int] /\ \A p \in Rows : label[p] \in Labels(clusterId + 1) \cup {Undefined, Noise}
  BY <1>0, AroundFacts DEF OpenedCluster, ScanType
<1>3. ScanType'
  BY <1>0, <1>1, <1>2, MerchantGroupsAssumption DEF ScanType, OpenedCluster, Labels, Undefined, Noise, relations, Rows
<1>4. \A p \in Listed : label[p] \in Labels(clusterId + 1)
  BY <1>0, <1>2 DEF OpenedCluster, Listed, Labels
<1>5. \A p \in Rows : label[p] = clusterId => p \in Listed
  BY <1>0 DEF OpenedCluster, Listed
<1>6. ASSUME NEW p \in Rows, NEW q \in Rows, label[p] = clusterId
      PROVE  /\ q \in Namesakes[p] => label[q] = label[p]
             /\ p \in DenseRows /\ q \in Around[p] =>
                  label[q] \in Labels(label[p] + 1) /\ (q \in DenseRows => label[q] = label[p])
             /\ label[q] = label[p] => q \in Kin[p] /\ (p \in DenseRows /\ q \in DenseRows => q \in DenseKin[p])
             /\ \E r \in DenseRows : r \in Around[p] /\ label[r] = label[p]
  <2>1. ASSUME q \in Namesakes[p] PROVE label[q] = label[p]
    <3>1. q \in Listed
      BY <1>0, <1>5, <1>6, <2>1 DEF OpenedCluster
    <3>2. CASE label[q] \in Labels(clusterId)
      <4>1. p \in Namesakes[q]
        BY <2>1, NamesakesFacts
      <4> QED
        BY <1>0, <3>2, <4>1 DEF ClosedClusters
    <3> QED
      BY <1>2, <1>4, <1>6, <3>1, <3>2 DEF Labels
  <2>2. ASSUME p \in DenseRows, q \in Around[p]
        PROVE  label[q] \in Labels(label[p] + 1) /\ (q \in DenseRows => label[q] = label[p])
    <3>1. q \in Listed
      BY <1>0, <1>6, <2>2 DEF OpenedCluster
    <3>2. q \in DenseRows => label[q] \notin Labels(clusterId)
      BY <1>0, <3>1, TakenIsNotDense
    <3> QED
      BY <1>2, <1>4, <1>6, <3>1, <3>2 DEF Labels
  <2>3. ASSUME label[q] = label[p]
        PROVE  q \in Kin[p] /\ (p \in DenseRows /\ q \in DenseRows => q \in DenseKin[p])
    <3>1. p \in Kin[i] /\ q \in Kin[i] /\ (p \in DenseRows => p \in DenseKin[i])
          /\ (q \in DenseRows => q \in DenseKin[i])
      BY <1>0, <1>5, <1>6, <2>3 DEF OpenedCluster
    <3> QED
      BY <1>2, <3>1, KinFacts, DenseKinFacts
  <2>4. \E r \in DenseRows : r \in Around[p] /\ label[r] = label[p]
    BY <1>0, <1>5, <1>6 DEF OpenedCluster
  <2> QED
    BY <2>1, <2>2, <2>3, <2>4
<1>7. \A p \in Rows : label[p] \in Labels(clusterId + 1) => label[p] = clusterId \/ label[p] \in Labels(clusterId)
  BY <1>2 DEF Labels
<1>8. ClosedClusters(label, clusterId + 1)
  BY <1>0, <1>6, <1>7 DEF ClosedClusters
<1>9. ClosedClusters(label, clusterId)'
  BY <1>0, <1>1, <1>8 DEF ClosedClusters, relations
<1> QED
  BY <1>0, <1>3, <1>9 DEF DbscanInv

LEMMA Visited ==
  ASSUME DbscanInv, SkipRow \/ MarkNoise
  PROVE  DbscanInv'
<1>0. pc = "visit" /\ pc' = "visit" /\ ScanType /\ ClosedClusters(label, clusterId)
      /\ clusterId' = clusterId /\ i' = i + 1 /\ i < N
  BY DEF SkipRow, MarkNoise, DbscanInv, Scanning, scan
<1>1. UNCHANGED relations
  BY InputKept DEF SkipRow, MarkNoise
<1>2. clusterId \in Nat /\ i \in Rows /\ label \in [Rows -> Int]
  BY <1>0, MerchantGroupsAssumption DEF ScanType, Rows
<1>3. /\ label' \in [Rows -> Int] /\ label'[i] # Undefined
      /\ \A p \in Rows \ {i} : label'[p] = label[p]
      /\ label'[i] = label[i] \/ (label[i] = Undefined /\ label'[i] = Noise /\ i \notin DenseRows)
  BY <1>2 DEF SkipRow, MarkNoise, scan, DenseRows, Undefined, Noise
<1>4. ScanType'
  <2>1. \A p \in Rows : label[p] \in Labels(clusterId + 1) \cup {Undefined, Noise} /\ label[p] # clusterId
    BY <1>0 DEF ScanType
  <2>2. \A p \in Rows : label'[p] \in Labels(clusterId + 1) \cup {Undefined, Noise} /\ label'[p] # clusterId
    BY <1>2, <1>3, <2>1 DEF Noise
  <2>3. \A p \in DenseRows : label'[p] # Noise
    BY <1>0, <1>2, <1>3, AroundFacts DEF ScanType
  <2>4. \A p \in Rows : p < i + 1 => label'[p] # Undefined
    BY <1>0, <1>2, <1>3, MerchantGroupsAssumption DEF ScanType, Rows
  <2>5. i + 1 \in 0..N
    BY <1>0, MerchantGroupsAssumption DEF ScanType
  <2> QED
    BY <1>0, <1>1, <1>2, <1>3, <2>2, <2>3, <2>4, <2>5 DEF ScanType, relations
<1>5. ClosedClusters(label', clusterId)
  <2>1. \A p \in Rows : \A c \in Labels(clusterId) : label'[p] = c <=> label[p] = c
    BY <1>2, <1>3 DEF Labels, Undefined, Noise
  <2> QED
    BY <1>0, <1>2, <2>1, ClosedKept
<1>6. ClosedClusters(label, clusterId)'
  BY <1>0, <1>1, <1>5 DEF ClosedClusters, relations
<1> QED
  BY <1>0, <1>4, <1>6 DEF DbscanInv

----------------------------------------------------------------------------
(* The labels when the scan has ended                                      *)

LabelsInv ==
    ~Scanning =>
        /\ clusterId \in Nat /\ label \in [Rows -> Int]
        /\ ClosedClusters(label, clusterId)
        /\ \A p \in DenseRows : label[p] \in Labels(clusterId)
        /\ \A p, q \in Rows : label[p] \notin Labels(clusterId) /\ label[q] = label[p] => p = q

LEMMA NoiseAlone ==
  ASSUME ScanType
  PROVE  /\ SplitNoise \in [Rows -> Int]
         /\ \A p \in Rows : label[p] \in Labels(clusterId + 1) => SplitNoise[p] = label[p]
         /\ \A p \in Rows : label[p] \in {Undefined, Noise} =>
              SplitNoise[p] \in Int /\ SplitNoise[p] < 0
         /\ \A p, q \in Rows : label[p] \in {Undefined, Noise} /\ SplitNoise[q] = SplitNoise[p] => p = q
<1> DEFINE Unlabelled(p) == {q \in 0..(p - 1) : label[q] \in {Noise, Undefined}}
<1>1. \A p \in Rows : IsFiniteSet(Unlabelled(p)) /\ Cardinality(Unlabelled(p)) \in Nat
  <2> SUFFICES ASSUME NEW p \in Rows
               PROVE  IsFiniteSet(Unlabelled(p)) /\ Cardinality(Unlabelled(p)) \in Nat
    OBVIOUS
  <2>1. IsFiniteSet(0..(p - 1))
    BY FS_Interval, MerchantGroupsAssumption DEF Rows
  <2> QED
    BY <2>1, FS_Subset, FS_CardinalityType
<1>2. ASSUME NEW p \in Rows, NEW q \in Rows, p < q, label[p] \in {Noise, Undefined}
      PROVE  Cardinality(Unlabelled(p)) < Cardinality(Unlabelled(q))
  <2>1. Unlabelled(p) \cup {p} \in SUBSET Unlabelled(q)
    BY <1>2, MerchantGroupsAssumption DEF Rows
  <2>2. p \notin Unlabelled(p)
    BY MerchantGroupsAssumption DEF Rows
  <2>3. Cardinality(Unlabelled(p) \cup {p}) = Cardinality(Unlabelled(p)) + 1
        /\ IsFiniteSet(Unlabelled(p) \cup {p})
    BY <1>1, <2>2, FS_AddElement
  <2>4. Cardinality(Unlabelled(p) \cup {p}) <= Cardinality(Unlabelled(q))
    BY <1>1, <2>1, FS_Subset
  <2> HIDE DEF Unlabelled
  <2> QED
    BY <1>1, <2>3, <2>4
<1>3. \A p \in Rows : SplitNoise[p] = IF label[p] \in {Noise, Undefined}
                                      THEN FirstNoise - Cardinality(Unlabelled(p)) ELSE label[p]
  BY DEF SplitNoise
<1>4. label \in [Rows -> Int] /\ clusterId \in Nat
      /\ \A p \in Rows : label[p] \in Labels(clusterId + 1) \cup {Undefined, Noise}
  BY DEF ScanType
<1> HIDE DEF Unlabelled
<1>5. \A p \in Rows : SplitNoise[p] \in Int
  BY <1>1, <1>3, <1>4 DEF FirstNoise
<1>6. SplitNoise \in [Rows -> Int]
  BY <1>5 DEF SplitNoise
<1>7. \A p \in Rows : label[p] \in Labels(clusterId + 1) => SplitNoise[p] = label[p]
  BY <1>3, <1>4 DEF Labels, Noise, Undefined
<1>8. \A p \in Rows : label[p] \in {Undefined, Noise} => SplitNoise[p] < 0
  BY <1>1, <1>3 DEF FirstNoise
<1>9. ASSUME NEW p \in Rows, NEW q \in Rows, label[p] \in {Undefined, Noise}, SplitNoise[q] = SplitNoise[p]
      PROVE  p = q
  <2>1. label[q] \in {Undefined, Noise}
    BY <1>4, <1>7, <1>8, <1>9 DEF Labels
  <2>2. Cardinality(Unlabelled(p)) = Cardinality(Unlabelled(q))
    BY <1>1, <1>3, <1>9, <2>1 DEF FirstNoise
  <2>3. ~(p < q) /\ ~(q < p)
    BY <1>1, <1>2, <1>9, <2>1, <2>2
  <2> QED
    BY <2>3, MerchantGroupsAssumption DEF Rows
<1> QED
  BY <1>5, <1>6, <1>7, <1>8, <1>9

LEMMA ScanEnded ==
  ASSUME DbscanInv, EndScan
  PROVE  LabelsInv' /\ ~Scanning'
<1>0. pc = "visit" /\ i = N /\ ScanType /\ ClosedClusters(label, clusterId)
      /\ label' = SplitNoise /\ clusterId' = clusterId /\ pc' \in {"replay", "union"}
  BY DEF EndScan, DbscanInv, Scanning
<1>1. UNCHANGED relations
  BY InputKept DEF EndScan
<1>2. clusterId \in Nat /\ label \in [Rows -> Int] /\ \A p \in Rows : label[p] \in Labels(clusterId) \cup {Noise}
  BY <1>0, MerchantGroupsAssumption DEF ScanType, Labels, Rows
<1>3. \A p \in Rows : \/ label[p] \in Labels(clusterId) /\ SplitNoise[p] = label[p]
                      \/ /\ label[p] \notin Labels(clusterId) /\ SplitNoise[p] \notin Labels(clusterId)
                         /\ \A q \in Rows : SplitNoise[q] = SplitNoise[p] => p = q
  BY <1>0, <1>2, NoiseAlone DEF Labels, Noise
<1>4. ClosedClusters(label', clusterId)
  <2>1. \A p \in Rows : \A c \in Labels(clusterId) : label'[p] = c <=> label[p] = c
    BY <1>0, <1>3
  <2> QED
    BY <1>0, <1>2, <2>1, ClosedKept
<1>5. ClosedClusters(label, clusterId)'
  BY <1>0, <1>1, <1>4 DEF ClosedClusters, relations
<1>6. \A p \in DenseRows : label'[p] \in Labels(clusterId)
  BY <1>0, <1>2, <1>3, AroundFacts DEF ScanType
<1>7. \A p, q \in Rows : label'[p] \notin Labels(clusterId) /\ label'[q] = label'[p] => p = q
  BY <1>0, <1>3
<1>8. label' \in [Rows -> Int]
  BY <1>0, NoiseAlone
<1> QED
  BY <1>0, <1>1, <1>2, <1>5, <1>6, <1>7, <1>8 DEF LabelsInv, Scanning, relations

----------------------------------------------------------------------------
(* The merge                                                               *)

Merging == pc \in {"union", "canonical"}

\* The pairs that the loops have compared.
Compared(p, q) == p < q /\ (p < i \/ (p = i /\ q < j))

\* Rows of one root are kin, namesakes where only equal names match, and one
\* of them has the least label; every matching pair so far has one root.
ForestInv ==
    /\ Scanning => root = [p \in Rows |-> p]
    /\ Merging =>
         /\ root \in [Rows -> Rows] /\ i \in 0..N /\ j \in Nat /\ (pc = "canonical" => i = N)
         /\ \A p, q \in Rows : root[q] = root[p] =>
              q \in Kin[p] /\ (mode = "exact" => q \in Namesakes[p])
         /\ \A p \in Rows : \E r \in Rows :
              root[r] = root[p] /\ \A q \in Rows : root[q] = root[p] => label[r] <= label[q]
         /\ \A p, q \in Rows : Compared(p, q) /\ q \in Matches[p] => root[q] = root[p]

\* The groups that the merge returns, for the pages that import and replay.
GroupInv ==
    Grouped \/ pc = "done" =>
        /\ \A p, q \in Rows : q \in Matches[p] => group[q] = group[p]
        /\ mode = "exact" => \A p, q \in Rows : label[q] = label[p] => group[q] = group[p]
        /\ \A p, q \in Rows : group[q] = group[p] => q \in Kin[p]

LEMMA MatchesByMode ==
  ASSUME NEW p \in Rows, NEW q \in Matches[p]
  PROVE  mode # "off" /\ (mode = "exact" => q \in Namesakes[p])
BY DEF Matches, Namesakes, MerchantsMatch

LEMMA ForestKept ==
  ASSUME LabelsInv, ForestInv, Compare \/ NextRow
  PROVE  ForestInv'
<1>0. /\ pc = "union" /\ pc' \in {"union", "canonical"} /\ ~Scanning /\ Merging /\ ~Scanning'
      /\ label' = label /\ mode' = mode /\ i < N
  BY DEF Compare, NextRow, Scanning, Merging, input, scan
<1>1. UNCHANGED relations
  BY InputKept DEF Compare, NextRow
<1>2. /\ root \in [Rows -> Rows] /\ i \in Rows /\ j \in Nat /\ label \in [Rows -> Int]
  <2>1. root \in [Rows -> Rows] /\ i \in 0..N /\ j \in Nat
    BY <1>0 DEF ForestInv
  <2>2. label \in [Rows -> Int]
    BY <1>0 DEF LabelsInv
  <2>3. i \in Rows
    BY <1>0, <2>1, MerchantGroupsAssumption DEF Rows
  <2> QED
    BY <2>1, <2>2, <2>3
<1>3. CASE NextRow
  <2>1. /\ root' = root /\ i' = i + 1 /\ j >= N
        /\ pc' = "canonical" => i + 1 = N
        /\ j' \in Nat /\ (i' = N \/ j' = i' + 1)
    <3>1. i \in Nat /\ i' = i + 1 /\ j >= N /\ root' = root
      BY <1>2, <1>3, MerchantGroupsAssumption DEF NextRow, Rows
    <3>2. CASE i + 1 = N
      BY <1>2, <1>3, <3>1, <3>2 DEF NextRow
    <3>3. CASE i + 1 # N
      BY <1>0, <1>2, <1>3, <3>1, <3>3 DEF NextRow
    <3> QED
      BY <3>2, <3>3
  <2>2. \A p, q \in Rows : Compared(p, q)' => Compared(p, q)
    BY <1>2, <2>1, MerchantGroupsAssumption DEF Compared, Rows
  <2>3. \A p, q \in Rows : Compared(p, q)' /\ q \in Matches[p] => root[q] = root[p]
    BY <1>0, <2>2 DEF ForestInv
  <2>4. i' \in 0..N
    BY <1>2, <2>1, MerchantGroupsAssumption DEF Rows
  <2> QED
    BY <1>0, <1>1, <2>1, <2>3, <2>4 DEF ForestInv, relations
<1>4. CASE Compare /\ ~MerchantsMatch(i, j)
  <2>1. root' = root /\ i' = i /\ j' = j + 1 /\ pc' = "union" /\ j \in Rows
    BY <1>2, <1>4, MerchantGroupsAssumption DEF Compare, Rows
  <2>2. j \notin Matches[i]
    BY <1>2, <1>4 DEF Matches
  <2>3. \A p, q \in Rows : Compared(p, q)' => Compared(p, q) \/ (p = i /\ q = j)
    BY <1>2, <2>1, MerchantGroupsAssumption DEF Compared, Rows
  <2>4. \A p, q \in Rows : Compared(p, q)' /\ q \in Matches[p] => root[q] = root[p]
    BY <1>0, <2>2, <2>3 DEF ForestInv
  <2> QED
    BY <1>0, <1>1, <1>2, <2>1, <2>4 DEF ForestInv, relations
<1>5. CASE Compare /\ MerchantsMatch(i, j)
  <2>1. i' = i /\ j' = j + 1 /\ pc' = "union" /\ j \in Rows
        /\ root' = [p \in Rows |-> IF root[p] = root[j] THEN root[i] ELSE root[p]]
    BY <1>2, <1>5, MerchantGroupsAssumption DEF Compare, Rows
  <2>2. j \in Matches[i] /\ j \in Kin[i] /\ (mode = "exact" => j \in Namesakes[i])
    <3>1. j \in Matches[i]
      BY <1>2, <1>5, <2>1 DEF Matches
    <3> QED
      BY <1>2, <2>1, <3>1, MatchesByMode, RelatedFacts
  <2>3. \A p, q \in Rows : root'[q] = root'[p] <=>
            \/ root[q] = root[p]
            \/ root[p] \in {root[i], root[j]} /\ root[q] \in {root[i], root[j]}
    BY <1>2, <2>1
  <2>4. ASSUME NEW p \in Rows, NEW q \in Rows, root'[q] = root'[p]
        PROVE  q \in Kin[p] /\ (mode = "exact" => q \in Namesakes[p])
    <3> DEFINE Alike(x, y) == y \in Kin[x] /\ (mode = "exact" => y \in Namesakes[x])
    <3>1. \A x, y \in Rows : root[y] = root[x] => Alike(x, y)
      BY <1>0 DEF ForestInv
    <3>2. \A x, y \in Rows : Alike(x, y) => Alike(y, x)
      BY KinFacts, NamesakesFacts
    <3>3. \A x, y, z \in Rows : Alike(x, y) /\ Alike(y, z) => Alike(x, z)
      BY KinFacts, NamesakesFacts
    <3>4. Alike(i, j)
      BY <2>2
    <3> HIDE DEF Alike
    <3>5. CASE root[q] = root[p]
      BY <3>1, <3>5 DEF Alike
    <3>6. CASE root[p] = root[i] /\ root[q] = root[j]
      BY <1>2, <2>1, <3>1, <3>3, <3>4, <3>6 DEF Alike
    <3>7. CASE root[p] = root[j] /\ root[q] = root[i]
      <4>1. Alike(p, j) /\ Alike(j, i) /\ Alike(i, q)
        BY <1>2, <2>1, <3>1, <3>2, <3>4, <3>7
      <4> QED
        BY <1>2, <2>1, <3>3, <4>1 DEF Alike
    <3> QED
      BY <2>3, <2>4, <3>5, <3>6, <3>7
  <2>5. ASSUME NEW p \in Rows
        PROVE  \E r \in Rows : root'[r] = root'[p] /\ \A q \in Rows : root'[q] = root'[p] => label[r] <= label[q]
    <3>1. PICK a \in Rows : root[a] = root[i] /\ \A q \in Rows : root[q] = root[i] => label[a] <= label[q]
      BY <1>0, <1>2 DEF ForestInv
    <3>2. PICK b \in Rows : root[b] = root[j] /\ \A q \in Rows : root[q] = root[j] => label[b] <= label[q]
      BY <1>0, <2>1 DEF ForestInv
    <3>3. CASE root[p] \in {root[i], root[j]}
      <4>1. \A q \in Rows : root'[q] = root'[p] => root[q] \in {root[i], root[j]}
        BY <1>2, <2>1, <2>3, <3>3
      <4>2. CASE label[a] <= label[b]
        BY <1>2, <2>3, <3>1, <3>2, <3>3, <4>1, <4>2
      <4>3. CASE label[b] <= label[a]
        BY <1>2, <2>3, <3>1, <3>2, <3>3, <4>1, <4>3
      <4> QED
        BY <1>2, <4>2, <4>3
    <3>4. CASE root[p] \notin {root[i], root[j]}
      <4>1. \A q \in Rows : root'[q] = root'[p] <=> root[q] = root[p]
        BY <2>3, <3>4
      <4> QED
        BY <1>0, <4>1 DEF ForestInv
    <3> QED
      BY <3>3, <3>4
  <2>6. \A p, q \in Rows : Compared(p, q)' => Compared(p, q) \/ (p = i /\ q = j)
    BY <1>2, <2>1, MerchantGroupsAssumption DEF Compared, Rows
  <2>7. \A p, q \in Rows : Compared(p, q)' /\ q \in Matches[p] => root'[q] = root'[p]
    BY <1>0, <1>2, <2>1, <2>3, <2>6 DEF ForestInv
  <2>8. root' \in [Rows -> Rows] /\ i' \in 0..N /\ j' \in Nat
    <3>1. \A p \in Rows : (IF root[p] = root[j] THEN root[i] ELSE root[p]) \in Rows
      BY <1>2
    <3>2. i' \in 0..N /\ j' \in Nat
      BY <1>2, <2>1, MerchantGroupsAssumption DEF Rows
    <3> QED
      BY <2>1, <3>1, <3>2
  <2> QED
    BY <1>0, <1>1, <2>1, <2>4, <2>5, <2>7, <2>8 DEF ForestInv, relations
<1> QED
  BY <1>3, <1>4, <1>5

LEMMA ForestBegins ==
  ASSUME DbscanInv, LabelsInv', ForestInv, EndScan
  PROVE  ForestInv'
<1>0. /\ pc = "visit" /\ pc' \in {"replay", "union"} /\ Scanning /\ ~Scanning'
      /\ root = [p \in Rows |-> p] /\ root' = root
      /\ pc' = "union" => i' = 0 /\ j' = 1
  BY DEF EndScan, Scanning, ForestInv
<1>1. UNCHANGED relations /\ mode' = mode
  BY InputKept DEF EndScan, input
<1>2. \A p \in Rows : root'[p] = p
  BY <1>0
<1>3. label' \in [Rows -> Int]
  BY <1>0 DEF LabelsInv
<1>4. ASSUME pc' = "union"
      PROVE  /\ root' \in [Rows -> Rows] /\ i' \in 0..N /\ j' \in Nat
             /\ \A p, q \in Rows : root'[q] = root'[p] =>
                  q \in Kin[p] /\ (mode = "exact" => q \in Namesakes[p])
             /\ \A p \in Rows : \E r \in Rows :
                  root'[r] = root'[p] /\ \A q \in Rows : root'[q] = root'[p] => label'[r] <= label'[q]
             /\ \A p, q \in Rows : ~(Compared(p, q)')
  <2>1. root' \in [Rows -> Rows] /\ i' \in 0..N /\ j' \in Nat
    BY <1>0, <1>4, MerchantGroupsAssumption
  <2>2. \A p, q \in Rows : root'[q] = root'[p] => q \in Kin[p] /\ (mode = "exact" => q \in Namesakes[p])
    BY <1>2, KinFacts, NamesakesFacts
  <2>3. ASSUME NEW p \in Rows
        PROVE  root'[p] = root'[p] /\ \A q \in Rows : root'[q] = root'[p] => label'[p] <= label'[q]
    BY <1>2, <1>3
  <2>4. \A p, q \in Rows : ~(Compared(p, q)')
    BY <1>0, <1>4, MerchantGroupsAssumption DEF Compared, Rows
  <2> QED
    BY <2>1, <2>2, <2>3, <2>4
<1>5. CASE pc' = "union"
  BY <1>0, <1>1, <1>4, <1>5 DEF ForestInv, Merging, relations
<1>6. CASE pc' = "replay"
  BY <1>0, <1>6 DEF ForestInv, Merging
<1> QED
  BY <1>0, <1>5, <1>6

\* A row's group is the label of a row of its root, and the least of them.
LEMMA CanonicalIsLeast ==
  ASSUME LabelsInv, ForestInv, Merging, NEW p \in Rows
  PROVE  /\ \E r \in Rows : root[r] = root[p] /\ label[r] = Canonical(p)
         /\ \A q \in Rows : root[q] = root[p] => Canonical(p) <= label[q]
<1> DEFINE Least(l) == /\ \E q \in Rows : root[q] = root[p] /\ label[q] = l
                       /\ \A q \in Rows : root[q] = root[p] => l <= label[q]
<1>1. \E l \in {label[q] : q \in Rows} : Least(l)
  <2>1. PICK r \in Rows : root[r] = root[p] /\ \A q \in Rows : root[q] = root[p] => label[r] <= label[q]
    BY DEF ForestInv
  <2> QED
    BY <2>1
<1>2. Canonical(p) = CHOOSE l \in {label[q] : q \in Rows} : Least(l)
  BY DEF Canonical
<1> HIDE DEF Least
<1>3. Least(Canonical(p))
  BY <1>1, <1>2
<1> QED
  BY <1>3 DEF Least

LEMMA SameRootSameGroup ==
  ASSUME LabelsInv, ForestInv, Merging, NEW p \in Rows, NEW q \in Rows, root[q] = root[p]
  PROVE  Canonical(q) = Canonical(p)
BY DEF Canonical

LEMMA Grouping ==
  ASSUME LabelsInv, ForestInv, Relabel
  PROVE  GroupInv'
<1>0. /\ pc = "canonical" /\ Merging /\ ~Scanning /\ pc' = "replay" /\ label' = label /\ mode' = mode
      /\ group' = [p \in Rows |-> Canonical(p)]
  BY DEF Relabel, Merging, Scanning, input, scan
<1>1. UNCHANGED relations
  BY InputKept DEF Relabel
<1>2. label \in [Rows -> Int] /\ clusterId \in Nat /\ ClosedClusters(label, clusterId)
      /\ \A p, q \in Rows : label[p] \notin Labels(clusterId) /\ label[q] = label[p] => p = q
  BY <1>0 DEF LabelsInv
<1>3. \A p, q \in Rows : q \in Matches[p] => root[q] = root[p]
  <2> SUFFICES ASSUME NEW p \in Rows, NEW q \in Rows, q \in Matches[p] PROVE root[q] = root[p]
    OBVIOUS
  <2>1. i = N /\ \A x, y \in Rows : Compared(x, y) /\ y \in Matches[x] => root[y] = root[x]
    BY <1>0 DEF ForestInv
  <2>2. p < q => Compared(p, q)
    BY <2>1, MerchantGroupsAssumption DEF Compared, Rows
  <2>3. q < p => Compared(q, p)
    BY <2>1, MerchantGroupsAssumption DEF Compared, Rows
  <2>4. p = q \/ p < q \/ q < p
    BY MerchantGroupsAssumption DEF Rows
  <2> QED
    BY <2>1, <2>2, <2>3, <2>4, NamesakesFacts
<1>4. \A p, q \in Rows : q \in Matches[p] => group'[q] = group'[p]
  BY <1>0, <1>3, SameRootSameGroup
<1>5. ASSUME mode = "exact", NEW p \in Rows, NEW q \in Rows, label[q] = label[p]
      PROVE  group'[q] = group'[p]
  <2>1. CASE p = q
    BY <2>1
  <2>2. CASE label[p] \in Labels(clusterId)
    <3>1. \A x \in Rows : label[x] = label[p] => Canonical(x) = label[p]
      <4> SUFFICES ASSUME NEW x \in Rows, label[x] = label[p] PROVE Canonical(x) = label[p]
        OBVIOUS
      <4>1. PICK r \in Rows : root[r] = root[x] /\ label[r] = Canonical(x)
        BY <1>0, CanonicalIsLeast
      <4>2. r \in Namesakes[x]
        BY <1>0, <1>5, <4>1 DEF ForestInv
      <4>3. label[r] = label[x]
        BY <1>2, <2>2, <4>2 DEF ClosedClusters
      <4> QED
        BY <4>1, <4>3
    <3> QED
      BY <1>0, <1>5, <3>1
  <2> QED
    BY <1>2, <1>5, <2>1, <2>2
<1>6. ASSUME NEW p \in Rows, NEW q \in Rows, group'[q] = group'[p]
      PROVE  q \in Kin[p]
  <2>1. PICK r \in Rows : root[r] = root[p] /\ label[r] = Canonical(p)
    BY <1>0, CanonicalIsLeast
  <2>2. PICK t \in Rows : root[t] = root[q] /\ label[t] = Canonical(q)
    BY <1>0, CanonicalIsLeast
  <2>3. label[t] = label[r]
    BY <1>0, <1>6, <2>1, <2>2
  <2>4. t \in Kin[r]
    BY <1>2, <2>3, KinFacts DEF ClosedClusters
  <2>5. r \in Kin[p] /\ q \in Kin[t]
    BY <1>0, <2>1, <2>2 DEF ForestInv
  <2> QED
    BY <2>4, <2>5, KinFacts
<1> QED
  BY <1>0, <1>1, <1>4, <1>5, <1>6 DEF GroupInv, Grouped, relations

----------------------------------------------------------------------------
(* All of it                                                               *)

Reported == pc = "done" => changed = GroupingChanged(stored)
Inv == DbscanInv /\ LabelsInv /\ ForestInv /\ GroupInv /\ Reported

LEMMA InvInitial == ASSUME Init PROVE Inv
<1>1. pc = "visit" /\ clusterId = 0 /\ i = 0 /\ \A p \in Rows : label[p] = Undefined
  BY DEF Init
<1>2. ScanType
  BY <1>1, AroundFacts, MerchantGroupsAssumption DEF Init, ScanType, Labels, Undefined, Noise, Rows
<1>3. ClosedClusters(label, clusterId)
  BY <1>1 DEF ClosedClusters, Labels
<1> QED
  BY <1>1, <1>2, <1>3 DEF Init, Inv, DbscanInv, LabelsInv, ForestInv, GroupInv, Reported, Scanning,
                           Merging, Grouped

\* Behind the scan the labels stay as they are.
LEMMA LabelsKept ==
  ASSUME LabelsInv, UNCHANGED <<input, scan>>, ~Scanning
  PROVE  LabelsInv'
<1>1. UNCHANGED relations /\ label' = label /\ clusterId' = clusterId
  BY InputKept DEF scan
<1> QED
  BY <1>1 DEF LabelsInv, ClosedClusters, relations

LEMMA Inductive == ASSUME Inv, [Next]_vars PROVE Inv'
<1> USE DEF Inv
<1>1. ASSUME SkipRow \/ MarkNoise \/ OpenCluster \/ (\E x \in Rows : Expand(x)) \/ CloseCluster PROVE Inv'
  <2>1. DbscanInv'
    BY <1>1, Visited, Opened, Expanded, Closed
  <2>2. Scanning' /\ root' = root
    BY <1>1 DEF SkipRow, MarkNoise, OpenCluster, Expand, CloseCluster, Scanning
  <2>3. Scanning
    BY <1>1 DEF SkipRow, MarkNoise, OpenCluster, Expand, CloseCluster, Scanning
  <2>4. root' = [p \in Rows |-> p]
    BY <2>2, <2>3 DEF ForestInv
  <2> QED
    BY <2>1, <2>2, <2>4 DEF LabelsInv, ForestInv, GroupInv, Reported, Scanning, Merging, Grouped
<1>2. CASE EndScan
  <2>1. LabelsInv' /\ ~Scanning'
    BY <1>2, ScanEnded
  <2>2. ForestInv'
    BY <1>2, <2>1, ForestBegins
  <2>3. GroupInv'
    <3>1. CASE pc' = "union"
      BY <3>1 DEF GroupInv, Grouped
    <3>2. CASE pc' # "union"
      <4>1. mode = "off" /\ group' = label' /\ mode' = mode
        BY <1>2, <3>2 DEF EndScan, input
      <4>2. UNCHANGED relations
        BY <1>2, InputKept DEF EndScan
      <4>3. \A p, q \in Rows : q \notin Matches[p]
        BY <4>1, MatchesByMode
      <4>4. \A p, q \in Rows : label'[q] = label'[p] => q \in Kin[p]
        <5>1. /\ ClosedClusters(label', clusterId')
              /\ \A p, q \in Rows : label'[p] \notin Labels(clusterId') /\ label'[q] = label'[p] => p = q
          BY <2>1, <4>2 DEF LabelsInv, ClosedClusters, relations
        <5> QED
          BY <5>1, KinFacts DEF ClosedClusters
      <4> QED
        BY <4>1, <4>2, <4>3, <4>4 DEF GroupInv, relations
    <3> QED
      BY <3>1, <3>2
  <2>4. pc' # "done"
    BY <1>2 DEF EndScan
  <2> QED
    BY <2>1, <2>2, <2>3, <2>4 DEF DbscanInv, Reported
<1>3. CASE Compare \/ NextRow
  <2>1. ~Scanning /\ ~Scanning' /\ pc' \in {"union", "canonical"} /\ UNCHANGED <<input, scan>>
    BY <1>3 DEF Compare, NextRow, Scanning
  <2>2. ForestInv' /\ LabelsInv'
    BY <1>3, <2>1, ForestKept, LabelsKept
  <2> QED
    BY <2>1, <2>2 DEF DbscanInv, GroupInv, Grouped, Reported
<1>4. CASE Relabel
  <2>1. ~Scanning /\ ~Scanning' /\ pc' = "replay" /\ UNCHANGED <<input, scan>>
    BY <1>4 DEF Relabel, Scanning
  <2>2. LabelsInv' /\ GroupInv'
    BY <1>4, <2>1, LabelsKept, Grouping
  <2> QED
    BY <2>1, <2>2 DEF DbscanInv, ForestInv, Merging, Reported
<1>5. CASE Replay
  <2>1. ~Scanning /\ ~Scanning' /\ pc = "replay" /\ pc' = "done" /\ UNCHANGED <<input, scan, group>>
    BY <1>5 DEF Replay, Scanning
  <2>2. LabelsInv'
    BY <2>1, LabelsKept
  <2>3. UNCHANGED relations /\ label' = label /\ mode' = mode
    BY <2>1, InputKept DEF scan, input
  <2>4. GroupInv'
    BY <2>1, <2>3 DEF GroupInv, Grouped, relations
  <2>5. changed' = GroupingChanged(stored)'
    BY <1>5, <2>1 DEF Replay, GroupingChanged, LabelsOf, ClustersOf
  <2> QED
    BY <2>1, <2>2, <2>4, <2>5 DEF DbscanInv, ForestInv, Merging, Reported
<1>6. CASE UNCHANGED vars
  <2>1. UNCHANGED relations /\ UNCHANGED <<label, clusterId, seed, done, i, j, root, group, stored, changed, pc, mode>>
    BY <1>6, InputKept DEF vars, input, scan, result
  <2>2. DbscanInv'
    BY <2>1 DEF DbscanInv, Scanning, ScanType, ClosedClusters, OpenedCluster, Listed, relations
  <2>3. LabelsInv'
    BY <2>1 DEF LabelsInv, Scanning, ClosedClusters, relations
  <2>4. ForestInv' /\ GroupInv'
    BY <2>1 DEF ForestInv, GroupInv, Scanning, Merging, Compared, Grouped, relations
  <2>5. Reported'
    BY <2>1 DEF Reported, GroupingChanged, LabelsOf, ClustersOf
  <2> QED
    BY <2>2, <2>3, <2>4, <2>5
<1> QED
  BY <1>1, <1>2, <1>3, <1>4, <1>5, <1>6 DEF Next

LEMMA Invariance == Spec => []Inv
BY InvInitial, Inductive, PTL DEF Spec

\* DBSCAN's groups: dense rows are together exactly if a chain of near dense
\* rows joins them, the others go with a dense neighbour or stay alone,
\* whatever the order of the rows (dbscanCosine.ts, labelGroups.ts:19).
THEOREM GroupsAreDense == Spec => []DenseGroups
<1>1. Inv => DenseGroups
  <2> SUFFICES ASSUME Inv, Grouped PROVE DenseGroups
    BY DEF DenseGroups
  <2>1. /\ clusterId \in Nat /\ ClosedClusters(label, clusterId)
        /\ \A p \in DenseRows : label[p] \in Labels(clusterId)
        /\ \A p, q \in Rows : label[p] \notin Labels(clusterId) /\ label[q] = label[p] => p = q
    BY DEF Inv, LabelsInv, Grouped, Scanning
  <2>2. ASSUME NEW p \in DenseRows, NEW q \in DenseRows
        PROVE  label[p] = label[q] <=> \A S \in ClosedUnder(DenseLink) : p \in S => q \in S
    <3>1. p \in Rows /\ q \in Rows
      BY AroundFacts
    <3>2. ASSUME label[p] = label[q] PROVE q \in DenseKin[p]
      BY <2>1, <3>1, <3>2 DEF ClosedClusters
    <3>3. ASSUME \A S \in ClosedUnder(DenseLink) : p \in S => q \in S PROVE label[p] = label[q]
      <4> DEFINE S == {x \in DenseRows : label[x] = label[p]}
      <4>1. ASSUME NEW x \in S, NEW y \in Rows, DenseLink(x, y) PROVE y \in S
        <5>1. x \in Rows /\ x \in DenseRows /\ y \in DenseRows /\ y \in Around[x] /\ label[x] = label[p]
          BY <4>1, AroundFacts, NearFacts DEF DenseLink, DenseRows, Around
        <5> QED
          BY <2>1, <3>1, <5>1 DEF ClosedClusters
      <4>2. S \in ClosedUnder(DenseLink)
        BY <4>1, AroundFacts DEF ClosedUnder
      <4> QED
        BY <3>3, <4>2
    <3> QED
      BY <3>1, <3>2, <3>3 DEF DenseKin
  <2>3. ASSUME NEW p \in Rows \ DenseRows
        PROVE  IF Neighbors(p) \cap DenseRows = {}
               THEN \A q \in Rows \ {p} : label[p] # label[q]
               ELSE /\ \E q \in Neighbors(p) \cap DenseRows : label[p] = label[q]
                    /\ MinSamples <= 3 => \A q \in Neighbors(p) \cap DenseRows : label[p] = label[q]
    <3>1. Around[p] = Neighbors(p)
      BY DEF Around
    <3>2. CASE Neighbors(p) \cap DenseRows = {}
      <4>1. label[p] \notin Labels(clusterId)
        BY <2>1, <3>1, <3>2 DEF ClosedClusters
      <4> QED
        BY <2>1, <3>2, <4>1
    <3>3. CASE Neighbors(p) \cap DenseRows # {}
      <4>1. PICK q \in DenseRows : q \in Around[p]
        BY <3>1, <3>3
      <4>2. q \in Rows /\ p \in Around[q]
        BY <4>1, AroundFacts
      <4>3. label[p] \in Labels(clusterId)
        BY <2>1, <4>1, <4>2 DEF ClosedClusters, Labels
      <4>4. PICK r \in DenseRows : r \in Around[p] /\ label[r] = label[p]
        BY <2>1, <4>3 DEF ClosedClusters
      <4>5. ASSUME MinSamples <= 3, NEW x \in Neighbors(p) \cap DenseRows PROVE label[p] = label[x]
        BY <3>1, <4>4, <4>5, OneNeighbor DEF DenseRows
      <4> QED
        BY <3>1, <3>3, <4>4, <4>5
    <3> QED
      BY <3>2, <3>3
  <2> QED
    BY <2>2, <2>3 DEF DenseGroups, DenseRows
<1> QED
  BY <1>1, Invariance, PTL

\* Rows whose merchants match end in one group (merchantStringMatch.ts:69).
THEOREM MatchesAreTogether == Spec => []MatchingTogether
<1>1. Inv => MatchingTogether
  BY NamesakesFacts DEF Inv, GroupInv, MatchingTogether
<1> QED
  BY <1>1, Invariance, PTL

\* Equal names tear no group apart (merchantStringMatch.ts:119).
THEOREM NoGroupTorn == Spec => []NothingTorn
<1>1. Inv => NothingTorn
  BY DEF Inv, GroupInv, NothingTorn
<1> QED
  BY <1>1, Invariance, PTL

\* No group joins merchants that nothing connects (labelGroups.ts:24).
THEOREM CauseToJoin == Spec => []JoinedForCause
<1>1. Inv => JoinedForCause
  BY DEF Inv, GroupInv, JoinedForCause, Kin
<1> QED
  BY <1>1, Invariance, PTL

\* The replay reports exactly the rows that lost or gained a companion
\* (replayClustering.ts:144).
THEOREM RegroupingIsReported == Spec => []RegroupedReported
<1>1. ASSUME NEW f, NEW p \in Rows, f[p] # NoCluster
      PROVE  p \in GroupingChanged(f) <=>
               \E q \in Rows : f[q] # NoCluster /\ (f[p] = f[q]) # (group[p] = group[q])
  <2>1. Cardinality(LabelsOf(f, f[p])) > 1 <=> \E q \in Rows : f[q] = f[p] /\ group[q] # group[p]
    <3>1. IsFiniteSet({q \in Rows : f[q] = f[p]})
      BY RowsFinite
    <3>2. IsFiniteSet(LabelsOf(f, f[p]))
      BY <3>1, ImageFinite DEF LabelsOf
    <3>3. group[p] \in LabelsOf(f, f[p])
      BY DEF LabelsOf
    <3>4. Cardinality(LabelsOf(f, f[p])) > 1 <=> \E y \in LabelsOf(f, f[p]) : y # group[p]
      BY <3>2, <3>3, MoreThanOne
    <3> QED
      BY <3>4 DEF LabelsOf
  <2>2. Cardinality(ClustersOf(f, group[p])) > 1 <=>
          \E q \in Rows : group[q] = group[p] /\ f[q] # NoCluster /\ f[q] # f[p]
    <3>1. IsFiniteSet({q \in Rows : group[q] = group[p] /\ f[q] # NoCluster})
      BY RowsFinite
    <3>2. IsFiniteSet(ClustersOf(f, group[p]))
      BY <3>1, ImageFinite DEF ClustersOf
    <3>3. f[p] \in ClustersOf(f, group[p])
      BY <1>1 DEF ClustersOf
    <3>4. Cardinality(ClustersOf(f, group[p])) > 1 <=> \E y \in ClustersOf(f, group[p]) : y # f[p]
      BY <3>2, <3>3, MoreThanOne
    <3> QED
      BY <3>4 DEF ClustersOf
  <2> QED
    BY <1>1, <2>1, <2>2 DEF GroupingChanged
<1>2. Inv => RegroupedReported
  <2> SUFFICES ASSUME Inv, pc = "done" PROVE RegroupedReported
    BY DEF RegroupedReported
  <2>1. changed = GroupingChanged(stored)
    BY DEF Inv, Reported
  <2>2. changed = {p \in Rows : \E q \in Rows :
            /\ stored[p] # NoCluster /\ stored[q] # NoCluster
            /\ (stored[p] = stored[q]) # (group[p] = group[q])}
    BY <1>1, <2>1 DEF GroupingChanged
  <2> QED
    BY <2>2 DEF RegroupedReported
<1> QED
  BY <1>2, Invariance, PTL
=============================================================================
