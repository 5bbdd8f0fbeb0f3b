------------------------ MODULE ClusterReviewProofs -------------------------
(***************************************************************************)
(* For any files, rules, links, groupings, tags and currency patches, and  *)
(* tags whose updates fall before, into and after imports and each other:  *)
(* the rows of a merchant cluster share a verdict that its CLUSTER row     *)
(* shows unless a tag has met an import or another tag there, nothing that *)
(* waits for review is lost, decisions are kept and both persist paths     *)
(* agree.                                                                  *)
(***************************************************************************)
EXTENDS ClusterReview, FiniteSetTheorems, TLAPS

-----------------------------------------------------------------------------
(* Least elements, votes and sets with one element. *)

Below(S, x) == {y \in S : y < x}

\* A set of naturals has a least element: of its initial segments, which are
\* finite, one includes no other.
LEMMA MinIsLeast ==
  ASSUME NEW S \in SUBSET Nat, S # {}
  PROVE  Min(S) \in S /\ \A y \in S : Min(S) <= y
<1> DEFINE T == {Below(S, x) : x \in S}
<1>0. \A y \in S : y \in Nat
  OBVIOUS
<1>1. T \subseteq FiniteSubsetsOf(Nat)
  <2> SUFFICES ASSUME NEW x \in S PROVE Below(S, x) \in FiniteSubsetsOf(Nat)
    OBVIOUS
  <2>1. Below(S, x) \in SUBSET Nat
    BY <1>0 DEF Below
  <2>2. \A y \in Below(S, x) : y <= x
    BY <1>0 DEF Below
  <2>3. IsFiniteSet(Below(S, x))
    BY <1>0, <2>1, <2>2, FS_BoundedSetOfNaturals
  <2> QED
    BY <2>1, <2>3 DEF FiniteSubsetsOf
<1>2. \E B \in T : \A C \in T : <<C, B>> \notin StrictSubsetOrdering(Nat)
  <2>1. T # {}
    OBVIOUS
  <2>2. IsWellFoundedOn(StrictSubsetOrdering(Nat), FiniteSubsetsOf(Nat))
    BY FS_StrictSubsetOrderingWellFounded
  <2> HIDE DEF T
  <2> QED
    BY <1>1, <2>1, <2>2, WFMin
<1>3. PICK x \in S : \A y \in S : <<Below(S, y), Below(S, x)>> \notin StrictSubsetOrdering(Nat)
  BY <1>2
<1>4. \A y \in S : x <= y
  <2> SUFFICES ASSUME NEW y \in S, y < x PROVE FALSE
    OBVIOUS
  <2>1. /\ \A z \in Below(S, y) : z \in Below(S, x)
        /\ y \in Below(S, x) /\ y \notin Below(S, y)
    <3>1. x \in Nat /\ y \in Nat /\ y < x
      BY <1>0
    <3>2. \A z \in S : z \in Nat /\ (z < y => z < x)
      BY <1>0, <3>1
    <3> QED
      BY <3>1, <3>2 DEF Below
  <2>2. Below(S, x) \in SUBSET Nat /\ Below(S, y) \in SUBSET Nat
    BY <1>0 DEF Below
  <2> QED
    BY <1>3, <2>1, <2>2 DEF StrictSubsetOrdering
<1> QED
  BY <1>4 DEF Min

LEMMA TheOnlyOfNone == TheOnly({}) = None
BY FS_EmptySet DEF TheOnly

LEMMA TheOnlyOfOne == ASSUME NEW x PROVE TheOnly({x}) = x
BY FS_Singleton DEF TheOnly

LEMMA TheOnlyIs ==
  ASSUME NEW S, IsFiniteSet(S) PROVE TheOnly(S) = None \/ S = {TheOnly(S)}
BY FS_Singleton DEF TheOnly

LEMMA FiniteTxns == IsFiniteSet(Txns) /\ Cardinality(Txns) \in Nat /\ Txns \subseteq Nat
<1> DEFINE batch == [f \in Files |-> Batch[f]]
           batches == {Batch[f] : f \in Files}
<1>1. batch \in Surjection(Files, batches)
  BY DEF Surjection
<1>2. IsFiniteSet(batches)
  <2> HIDE DEF batch, batches
  <2> QED
    BY <1>1, ClusterReviewAssumption, FS_Surjection
<1>3. IsFiniteSet(Txns)
  <2>1. \A B \in batches : IsFiniteSet(B)
    BY ClusterReviewAssumption
  <2>2. Txns = UNION batches
    BY DEF Txns
  <2> HIDE DEF batches
  <2> QED
    BY <1>2, <2>1, <2>2, FS_UNION
<1> QED
  BY <1>3, ClusterReviewAssumption, FS_CardinalityType DEF Txns

LEMMA FiniteCategories == IsFiniteSet(Categories) /\ Categories \subseteq Nat /\ None \notin Categories
BY ClusterReviewAssumption

LEMMA TheOnlyCategory ==
  ASSUME NEW S \in SUBSET Categories PROVE TheOnly(S) \in Categories \cup {None}
BY TheOnlyIs, FiniteCategories, FS_Subset

-----------------------------------------------------------------------------
(* What the planner makes of a group. *)

TxnsTyped == txn \in [Txns -> Rows \cup {Absent}]

LEMMA ExistingRow ==
  ASSUME NEW rows \in [Txns -> Rows \cup {Absent}], NEW t \in Existing(rows)
  PROVE  /\ rows[t] \in Rows /\ rows[t] \in [cluster : ClusterIds, category : Categories, status : Statuses, paired : BOOLEAN]
         /\ rows[t].cluster \in ClusterIds /\ rows[t].category \in Categories
         /\ rows[t].status \in Statuses /\ rows[t].paired \in BOOLEAN
BY DEF Existing, Rows

\* inheritedCategoryForGroup finds a category wherever a decided row is, and
\* theirs where they agree.
LEMMA InheritedIs ==
  ASSUME TxnsTyped, NEW G \in SUBSET Txns, Classified(G) # {}
  PROVE  /\ Inherited(G) \in Categories
         /\ \A k : (\A t \in Classified(G) : txn[t].category = k) => Inherited(G) = k
<1> DEFINE N == Cardinality(Txns)
           winners == {c \in Categories : \A d \in Categories : Votes(G, c) >= Votes(G, d)}
           scores == {N - Votes(G, c) : c \in Categories}
<1>1. \A c : {t \in Classified(G) : txn[t].category = c} \in SUBSET Txns
  BY DEF Classified
<1>2. \A c : Votes(G, c) \in Nat /\ Votes(G, c) <= N
  BY <1>1, FiniteTxns, FS_Subset, FS_CardinalityType DEF Votes
<1>3. scores \in SUBSET Nat /\ scores # {}
  BY <1>2, FiniteTxns, ClusterReviewAssumption
<1>4. PICK c \in Categories : \A d \in Categories : N - Votes(G, c) <= N - Votes(G, d)
  <2> HIDE DEF N
  <2>1. Min(scores) \in scores /\ \A y \in scores : Min(scores) <= y
    BY <1>3, MinIsLeast
  <2> QED
    BY <2>1
<1>5. winners # {} /\ winners \in SUBSET Nat
  <2>1. N \in Nat
    BY FiniteTxns
  <2>2. \A d \in Categories : Votes(G, c) >= Votes(G, d)
    <3> HIDE DEF N
    <3> SUFFICES ASSUME NEW d \in Categories PROVE Votes(G, c) >= Votes(G, d)
      OBVIOUS
    <3>1. Votes(G, c) \in Nat /\ Votes(G, d) \in Nat /\ N - Votes(G, c) <= N - Votes(G, d)
      BY <1>2, <1>4
    <3> QED
      BY <2>1, <3>1
  <2> QED
    BY <2>2, FiniteCategories
<1>6. Inherited(G) = Min(winners) /\ Min(winners) \in winners
  BY <1>5, MinIsLeast DEF Inherited
<1>7. ASSUME NEW k, \A t \in Classified(G) : txn[t].category = k PROVE Inherited(G) = k
  <2>1. k \in Categories
    BY <1>7, ExistingRow DEF Classified, TxnsTyped, Existing
  <2>2. \A d : d # k => Votes(G, d) = 0
    BY <1>7, FS_EmptySet DEF Votes
  <2>3. Votes(G, k) # 0
    BY <1>1, <1>7, FiniteTxns, FS_Subset, FS_EmptySet DEF Votes
  <2> QED
    BY <1>2, <1>6, <2>1, <2>2, <2>3
<1> QED
  BY <1>6, <1>7

LEMMA SuggestedIs ==
  ASSUME NEW G \in SUBSET Txns
  PROVE  Suggested(G) \in Categories \cup {None}
<1> DEFINE ruled == {t \in G : Rule[t] # None}
           old == ruled \cap Existing(txn)
<1>1. CASE ruled = {}
  BY <1>1 DEF Suggested
<1>2. CASE ruled # {}
  <2> DEFINE eldest == IF old = {} THEN ruled ELSE old
  <2>1. eldest \in SUBSET Nat /\ eldest # {} /\ eldest \subseteq Txns
    BY <1>2, FiniteTxns
  <2>2. Min(eldest) \in Txns
    <3> HIDE DEF eldest
    <3> QED
      BY <2>1, MinIsLeast
  <2>3. Suggested(G) = Rule[Min(eldest)]
    BY <1>2 DEF Suggested
  <2> QED
    BY <2>2, <2>3, ClusterReviewAssumption
<1> QED
  BY <1>1, <1>2

LEMMA PriorIs ==
  ASSUME TxnsTyped, NEW G \in SUBSET Txns
  PROVE  /\ Prior(G) \in Categories \cup {None}
         /\ Prior(G) # None => \A t \in G \cap Existing(txn) : txn[t].category = Prior(G)
<1> DEFINE S == {txn[t].category : t \in G \cap Existing(txn)}
<1>1. S \in SUBSET Categories
  BY ExistingRow DEF TxnsTyped
<1>2. IsFiniteSet(S)
  <2> HIDE DEF S
  <2> QED
    BY <1>1, FiniteCategories, ClusterReviewAssumption, FS_Subset
<1>3. Prior(G) = TheOnly(S)
  BY DEF Prior
<1>4. TheOnly(S) \in Categories \cup {None} /\ (TheOnly(S) = None \/ S = {TheOnly(S)})
  <2> HIDE DEF S
  <2> QED
    BY <1>1, <1>2, TheOnlyCategory, TheOnlyIs
<1> QED
  BY <1>3, <1>4

LEMMA AssignmentIs ==
  ASSUME TxnsTyped, NEW G \in SUBSET Txns, NEW c \in ClusterIds
  PROVE  /\ Assignment(G, c) \in Verdicts /\ Assignment(G, c).cluster = c
         /\ Classified(G) # {} => /\ Assignment(G, c).status = "CLASSIFIED"
                                  /\ Assignment(G, c).category = Inherited(G)
<1>1. Classified(G) = {} => Inherited(G) = None
  BY DEF Inherited
<1>2. Classified(G) # {} => Inherited(G) \in Categories /\ Inherited(G) # None
  BY InheritedIs, FiniteCategories
<1> QED
  BY <1>1, <1>2, SuggestedIs, ClusterReviewAssumption DEF Assignment, Verdicts, Statuses

-----------------------------------------------------------------------------
(* The inductive invariant. *)

Typed ==
    /\ TxnsTyped
    /\ agg \in [ClusterIds -> Aggregates \cup {Absent}]
    /\ tags \in [Tags -> TagStates]
    /\ mixed \subseteq ClusterIds

\* A file's rows came together, and before they came no id of its groups existed.
BatchesWhole ==
    \A f \in Files : \/ Imported(f)
                     \/ /\ \A t \in Batch[f] : txn[t] = Absent
                        /\ \A l \in Txns : agg[<<f, l>>] = Absent

\* The cluster of a transaction has a whole CLUSTER row.
Shown == \A t \in Existing(txn) : agg[txn[t].cluster] # Absent /\ agg[txn[t].cluster].whole

\* The bucket of transfers is never queued.
Quiet == agg[Internal] # Absent => ~agg[Internal].pending

\* What tags may change under a plan is category and status.
ReadCurrent ==
    /\ plan.file \in Files /\ ~Imported(plan.file)
    /\ plan.read \in [Txns -> Rows \cup {Absent}]
    /\ Existing(plan.read) = Existing(txn)
    /\ \A t \in Existing(txn) : /\ plan.read[t].cluster = txn[t].cluster
                                /\ plan.read[t].paired = txn[t].paired

Assigned == Existing(txn) \cup Batch[plan.file]

PlanTyped ==
    /\ plan.legs \subseteq Assigned
    /\ plan.assign \in [Assigned -> Verdicts]
    /\ plan.hint \in [ClusterIds -> Categories \cup {None}]
    /\ plan.hint[Internal] = None

Leg(t) == t \in plan.legs \/ (t \in Existing(txn) /\ txn[t].paired)

\* Legs go to the bucket, all others to groups with fresh ids, and a cluster
\* has one verdict.
GroupsApart ==
    /\ \A t \in Assigned : IF Leg(t) THEN plan.assign[t] = InternalAssignment
                           ELSE \E l \in Txns : plan.assign[t].cluster = <<plan.file, l>>
    /\ \A t, u \in Assigned : plan.assign[t].cluster = plan.assign[u].cluster
                               => plan.assign[t] = plan.assign[u]

\* A group with a decided row is decided, as they say where they agree, and
\* its hint does not contradict it.
DecisionsPlanned ==
    \A t \in Decided(Existing(plan.read)) : ~Leg(t) =>
        /\ plan.assign[t].status = "CLASSIFIED"
        /\ (\A u \in Decided(OldGroup(t)) : plan.read[u].category = plan.read[t].category)
             => plan.assign[t].category = plan.read[t].category
        /\ plan.hint[plan.assign[t].cluster] \in {None, plan.assign[t].category}

\* What a tag has still to write: all members of its cluster that it has not
\* made decided, and, if it is clean, given its category.
TagRight(g) ==
    /\ tags[g].todo \subseteq Existing(txn)
    /\ tags[g].cluster = Internal \/ Imported(tags[g].cluster[1])
    /\ \A t \in Members(txn, tags[g].cluster) :
         t \in tags[g].todo \/ txn[t].status = "CLASSIFIED"
    /\ tags[g].clean =>
         /\ UnderWay(tags[g].cluster) = {g}
         /\ \A t \in Members(txn, tags[g].cluster) :
              t \in tags[g].todo \/ txn[t].category = tags[g].category

TagsRight == \A g \in Tags : tags[g].pc = "rows" => TagRight(g)

Planned == plan # None => ReadCurrent /\ PlanTyped /\ GroupsApart /\ DecisionsPlanned

Inv ==
    /\ Typed
    /\ BatchesWhole
    /\ Shown
    /\ Quiet
    /\ OneVerdict
    /\ PendingIsQueued
    /\ PairedApart
    /\ TagsRight
    /\ Planned

-----------------------------------------------------------------------------
(* Planning. *)

LEMMA PlanKeeps ==
  ASSUME Inv, NEW f \in Files, Plan(f) PROVE Inv'
<1> USE DEF Inv
<1>1. PICK links \in FeasibleLinks(f) :
        \E first \in Groupings((Existing(txn) \cup Batch[f]) \ Paired(links)) :
          plan' = PlanOf(f, links, first)
  BY DEF Plan
<1> DEFINE rows == Existing(txn) \cup Batch[f]
           open == rows \ Paired(links)
<1>2. PICK first \in Groupings(open) : plan' = PlanOf(f, links, first)
  BY <1>1
<1>3. UNCHANGED <<txn, agg, tags, mixed>> /\ ~Imported(f)
  BY DEF Plan
<1>4. rows \subseteq Txns /\ open \subseteq rows /\ first \in [open -> open] /\ DOMAIN first = open
  BY DEF Existing, Txns, Groupings
<1> DEFINE Group(l) == {t \in open : first[t] = l}
<1>5. /\ plan'.file = f /\ plan'.read = txn /\ plan'.legs = UNION links
      /\ plan'.assign = [t \in rows |-> IF t \in open THEN Assignment(Group(first[t]), <<f, first[t]>>)
                                        ELSE InternalAssignment]
      /\ plan'.hint = [c \in ClusterIds |->
                         IF c \in {<<f, first[t]>> : t \in open} THEN Prior(Group(c[2])) ELSE None]
  BY <1>2, <1>4 DEF PlanOf
<1>6. \A l : Group(l) \in SUBSET Txns
  BY <1>4
<1>7. \A t \in open : first[t] \in Txns /\ <<f, first[t]>> \in ClusterIds /\ <<f, first[t]>> # Internal
  BY <1>4, ClusterReviewAssumption DEF ClusterIds, MerchantIds
<1>8. InternalAssignment \in Verdicts /\ InternalAssignment.cluster = Internal
  BY ClusterReviewAssumption DEF InternalAssignment, Verdicts, Statuses, ClusterIds
<1>9. UNION links \subseteq rows
  BY DEF FeasibleLinks
<1>10. \A t \in open : /\ Assignment(Group(first[t]), <<f, first[t]>>) \in Verdicts
                       /\ Assignment(Group(first[t]), <<f, first[t]>>).cluster = <<f, first[t]>>
  BY <1>6, <1>7, AssignmentIs DEF Typed
<1> HIDE DEF Group, open, rows
<1>11. ReadCurrent'
  BY <1>3, <1>5 DEF ReadCurrent, Typed, TxnsTyped, Imported
<1>12. Assigned' = rows
  BY <1>3, <1>5 DEF Assigned, rows
<1>13. PlanTyped'
  <2>1. plan'.assign \in [rows -> Verdicts]
    BY <1>5, <1>8, <1>10
  <2>2. \A l : Prior(Group(l)) \in Categories \cup {None}
    BY <1>6, PriorIs DEF Typed
  <2>3. plan'.hint \in [ClusterIds -> Categories \cup {None}]
    BY <1>5, <2>2
  <2>4. plan'.hint[Internal] = None
    BY <1>5, <1>7 DEF ClusterIds
  <2> QED
    BY <1>3, <1>5, <1>9, <1>12, <2>1, <2>3, <2>4 DEF PlanTyped
<1>14. \A t \in rows : Leg(t)' <=> t \notin open
  <2>1. \A t : Leg(t)' <=> (t \in UNION links \/ (t \in Existing(txn) /\ txn[t].paired))
    <3>1. plan'.legs = UNION links /\ txn' = txn
      BY <1>3, <1>5
    <3> QED
      BY <3>1, Zenon DEF Leg, Existing
  <2>2. \A t : t \in Paired(links) <=> (t \in UNION links \/ (t \in Existing(txn) /\ txn[t].paired))
    BY DEF Paired
  <2> QED
    BY <2>1, <2>2 DEF open
<1>15. GroupsApart'
  <2>1. \A t \in rows : IF t \notin open THEN plan'.assign[t] = InternalAssignment
                        ELSE /\ plan'.assign[t] = Assignment(Group(first[t]), <<f, first[t]>>)
                             /\ plan'.assign[t].cluster = <<f, first[t]>>
    BY <1>5, <1>10
  <2>2. \A t \in rows : IF Leg(t)' THEN plan'.assign[t] = InternalAssignment
                        ELSE \E l \in Txns : plan'.assign[t].cluster = <<plan'.file, l>>
    BY <1>5, <1>7, <1>14, <2>1
  <2>3. \A t, u \in rows : plan'.assign[t].cluster = plan'.assign[u].cluster
                           => plan'.assign[t] = plan'.assign[u]
    <3> SUFFICES ASSUME NEW t \in rows, NEW u \in rows, plan'.assign[t].cluster = plan'.assign[u].cluster
                 PROVE  plan'.assign[t] = plan'.assign[u]
      OBVIOUS
    <3>1. CASE t \in open /\ u \in open
      <4>1. plan'.assign[t].cluster = <<f, first[t]>> /\ plan'.assign[u].cluster = <<f, first[u]>>
        BY <2>1, <3>1
      <4>2. <<f, first[t]>> = <<f, first[u]>>
        BY <4>1
      <4>3. first[t] = first[u]
        BY <4>2
      <4> QED
        BY <2>1, <3>1, <4>3
    <3>2. CASE t \notin open /\ u \notin open
      BY <2>1, <3>2
    <3>3. CASE t \in open /\ u \notin open
      BY <1>7, <1>8, <2>1, <3>3
    <3>4. CASE t \notin open /\ u \in open
      BY <1>7, <1>8, <2>1, <3>4
    <3> QED
      BY <3>1, <3>2, <3>3, <3>4
  <2> QED
    BY <1>12, <2>2, <2>3, InternalAssignment' = InternalAssignment DEF GroupsApart
<1>16. DecisionsPlanned'
  <2> SUFFICES ASSUME NEW t \in Decided(Existing(plan.read))', ~Leg(t)'
               PROVE  /\ plan'.assign[t].status = "CLASSIFIED"
                      /\ (\A u \in Decided(OldGroup(t))' : plan'.read[u].category = plan'.read[t].category)
                           => plan'.assign[t].category = plan'.read[t].category
                      /\ plan'.hint[plan'.assign[t].cluster] \in {None, plan'.assign[t].category}
    BY DEF DecisionsPlanned
  <2> DEFINE G == Group(first[t])
  <2>1. t \in Existing(txn) /\ txn[t].status = "CLASSIFIED" /\ t \in open
    BY <1>5, <1>14 DEF Decided, Existing, rows
  <2>2. t \in Classified(G) /\ G \in SUBSET Txns
    BY <1>6, <2>1 DEF Classified, Group, Existing
  <2>3. /\ plan'.assign[t].status = "CLASSIFIED" /\ plan'.assign[t].category = Inherited(G)
        /\ plan'.assign[t].cluster = <<f, first[t]>>
    <3>1. plan'.assign[t] = Assignment(G, <<f, first[t]>>)
      BY <1>4, <1>5, <2>1 DEF open
    <3> HIDE DEF G
    <3> QED
      BY <1>7, <2>1, <2>2, <3>1, AssignmentIs DEF Typed
  <2>4. Classified(G) \subseteq Decided(OldGroup(t))'
    <3> SUFFICES ASSUME NEW u \in Classified(G) PROVE u \in Decided(OldGroup(t))'
      OBVIOUS
    <3>1. u \in open /\ first[u] = first[t] /\ u \in Existing(txn) /\ txn[u].status = "CLASSIFIED"
      BY <1>4 DEF Classified, Group, Existing, open
    <3>2. u \in rows /\ t \in rows
      BY <1>4, <2>1, <3>1
    <3>3. plan'.assign[u] = plan'.assign[t]
      BY <1>5, <2>1, <3>1, <3>2
    <3> QED
      BY <1>5, <3>1, <3>3 DEF OldGroup, Decided
  <2>5. ASSUME \A u \in Decided(OldGroup(t))' : plan'.read[u].category = plan'.read[t].category
        PROVE  plan'.assign[t].category = plan'.read[t].category
    <3>1. \A u \in Classified(G) : txn[u].category = txn[t].category
      BY <1>5, <2>4, <2>5
    <3> HIDE DEF G
    <3>2. Inherited(G) = txn[t].category
      BY <2>2, <3>1, InheritedIs DEF Typed
    <3> QED
      BY <1>5, <2>3, <3>2
  <2>6. plan'.hint[plan'.assign[t].cluster] = Prior(G)
    <3> DEFINE c == <<f, first[t]>>
    <3>1. c \in ClusterIds /\ c \in {<<f, first[u]>> : u \in open} /\ c[2] = first[t]
      BY <1>7, <2>1
    <3> HIDE DEF c
    <3>2. plan'.hint[c] = Prior(Group(c[2]))
      BY <1>5, <3>1
    <3> QED
      BY <2>3, <3>1, <3>2 DEF c
  <2>7. Prior(G) # None => Inherited(G) = Prior(G)
    <3> HIDE DEF G
    <3>1. Prior(G) # None => \A u \in Classified(G) : txn[u].category = Prior(G)
      BY <2>2, PriorIs DEF Typed, Classified, Existing
    <3> QED
      BY <2>2, <3>1, InheritedIs DEF Typed
  <2> QED
    BY <2>3, <2>5, <2>6, <2>7
<1> QED
  BY <1>3, <1>11, <1>13, <1>15, <1>16
     DEF Typed, TxnsTyped, BatchesWhole, Imported, Shown, Quiet, OneVerdict, PendingIsQueued,
         PairedApart, TagsRight, TagRight, UnderWay, Planned, Members, Existing

-----------------------------------------------------------------------------
(* Tags and currency patches. *)

LEMMA MembersAre ==
  ASSUME NEW rows \in [Txns -> Rows \cup {Absent}], NEW c
  PROVE  /\ Members(rows, c) \in SUBSET Txns
         /\ Cardinality(Members(rows, c)) \in 0..Cardinality(Txns)
<1>1. Members(rows, c) \in SUBSET Txns
  BY DEF Members, Existing
<1> QED
  BY <1>1, FiniteTxns, FS_Subset, FS_CardinalityType

LEMMA ExistingIs ==
  ASSUME NEW rows \in [Txns -> Rows \cup {Absent}], NEW t \in Txns
  PROVE  t \in Existing(rows) <=> rows[t] \in Rows
BY AbsentAssumption DEF Existing

\* A step that writes no rows and leaves the CLUSTER rows of files that are not
\* there absent, or changes category and status only, keeps the plan.
LEMMA PlanStays ==
  ASSUME Inv, UNCHANGED plan, TxnsTyped', Existing(txn)' = Existing(txn),
         \A t \in Existing(txn) : txn'[t].cluster = txn[t].cluster /\ txn'[t].paired = txn[t].paired
  PROVE  Planned'
<1> USE DEF Inv
<1> SUFFICES ASSUME plan # None PROVE (ReadCurrent /\ PlanTyped /\ GroupsApart /\ DecisionsPlanned)'
  BY DEF Planned
<1>1. ReadCurrent /\ PlanTyped /\ GroupsApart /\ DecisionsPlanned
  BY DEF Planned
<1>2. ReadCurrent'
  <2>1. Imported(plan.file)' <=> Imported(plan.file)
    BY DEF Imported
  <2> QED
    BY <1>1, <2>1 DEF ReadCurrent
<1>3. Assigned' = Assigned
  BY DEF Assigned
<1>4. \A t : Leg(t)' <=> Leg(t)
  BY DEF Leg
<1>5. PlanTyped'
  BY <1>1, <1>3 DEF PlanTyped
<1>6. GroupsApart'
  BY <1>1, <1>3, <1>4 DEF GroupsApart, InternalAssignment
<1>7. DecisionsPlanned'
  BY <1>1, <1>4 DEF DecisionsPlanned, Decided, OldGroup, Existing
<1> QED
  BY <1>2, <1>5, <1>6, <1>7

\* A step that disturbs the tags of cluster c does nothing else to tags.
LEMMA DisturbedIs ==
  ASSUME Typed, NEW c
  PROVE  /\ Disturbed(c) \in [Tags -> TagStates]
         /\ \A g \in Tags :
              /\ Disturbed(c)[g].pc = tags[g].pc /\ Disturbed(c)[g].cluster = tags[g].cluster
              /\ Disturbed(c)[g].category = tags[g].category /\ Disturbed(c)[g].todo = tags[g].todo
              /\ Disturbed(c)[g].listed = tags[g].listed
              /\ Disturbed(c)[g].clean <=> (tags[g].clean /\ tags[g].cluster # c)
<1> DEFINE next(g) == [tags[g] EXCEPT !.clean = @ /\ tags[g].cluster # c]
<1>1. ASSUME NEW g \in Tags
      PROVE  /\ next(g) \in TagStates
             /\ next(g).pc = tags[g].pc /\ next(g).cluster = tags[g].cluster
             /\ next(g).category = tags[g].category /\ next(g).todo = tags[g].todo
             /\ next(g).listed = tags[g].listed
             /\ next(g).clean <=> (tags[g].clean /\ tags[g].cluster # c)
  <2>1. tags[g] \in TagStates
    BY <1>1 DEF Typed
  <2> QED
    BY <2>1 DEF TagStates
<1>2. Disturbed(c) = [g \in Tags |-> next(g)]
  BY DEF Disturbed
<1> HIDE DEF next
<1> QED
  BY <1>1, <1>2

LEMMA NoTagIs == NoTag("idle") \in TagStates /\ NoTag("done") \in TagStates
BY FiniteTxns, ClusterReviewAssumption DEF NoTag, TagStates, ClusterIds

\* A step that writes tags and mixed only keeps most of the invariant.
LEMMA LedgerStays ==
  ASSUME Inv, UNCHANGED <<txn, agg, plan>>, tags' \in [Tags -> TagStates], mixed' \subseteq ClusterIds
  PROVE  /\ Typed' /\ BatchesWhole' /\ Shown' /\ Quiet' /\ PendingIsQueued' /\ PairedApart' /\ Planned'
         /\ Existing(txn)' = Existing(txn) /\ \A c : Members(txn, c)' = Members(txn, c)
         /\ \A f : Imported(f)' <=> Imported(f)
<1> USE DEF Inv
<1>1. TxnsTyped' /\ Existing(txn)' = Existing(txn)
  BY DEF Typed, TxnsTyped, Existing
<1>2. Planned'
  BY <1>1, PlanStays DEF Existing
<1> QED
  BY <1>1, <1>2 DEF Typed, TxnsTyped, BatchesWhole, Imported, Shown, Quiet, PendingIsQueued,
     PairedApart, Members, Existing

LEMMA TagListKeeps ==
  ASSUME Inv, NEW g \in Tags, NEW c \in ClusterIds, NEW cat \in Categories, TagList(g, c, cat)
  PROVE  Inv'
<1> USE DEF Inv
<1> DEFINE members == Members(txn, c)
           new == [pc |-> "rows", cluster |-> c, category |-> cat, todo |-> members,
                   listed |-> Cardinality(members), clean |-> UnderWay(c) = {}]
<1>1. /\ tags[g].pc = "idle" /\ Known(c) /\ UNCHANGED <<txn, agg, plan, mixed>>
      /\ tags' = [Disturbed(c) EXCEPT ![g] = new]
  BY DEF TagList
<1>2. new \in TagStates /\ members \in SUBSET Existing(txn)
  <2>1. members \in SUBSET Txns /\ Cardinality(members) \in 0..Cardinality(Txns)
    BY MembersAre DEF Typed, TxnsTyped
  <2>2. members \in SUBSET Existing(txn)
    BY DEF Members
  <2>3. (UnderWay(c) = {}) \in BOOLEAN
    OBVIOUS
  <2> HIDE DEF members
  <2> QED
    BY <2>1, <2>2, <2>3 DEF TagStates
<1> HIDE DEF new
<1>3. tags' \in [Tags -> TagStates] /\ tags'[g] = new
      /\ \A h \in Tags \ {g} : tags'[h] = Disturbed(c)[h]
  BY <1>1, <1>2, DisturbedIs DEF Typed
<1>4. \A h \in Tags \ {g} :
        /\ tags'[h].pc = tags[h].pc /\ tags'[h].cluster = tags[h].cluster
        /\ tags'[h].category = tags[h].category /\ tags'[h].todo = tags[h].todo
        /\ tags'[h].clean <=> (tags[h].clean /\ tags[h].cluster # c)
  BY <1>3, DisturbedIs DEF Typed
<1>5. tags'[g].pc = "rows" /\ tags'[g].cluster = c /\ tags'[g].category = cat
      /\ tags'[g].todo = members /\ tags'[g].clean = (UnderWay(c) = {})
  BY <1>3 DEF new
<1> HIDE DEF members
<1>6. /\ Typed' /\ BatchesWhole' /\ Shown' /\ Quiet' /\ PendingIsQueued' /\ PairedApart' /\ Planned'
      /\ Existing(txn)' = Existing(txn) /\ \A d : Members(txn, d)' = Members(txn, d)
      /\ \A f : Imported(f)' <=> Imported(f)
  BY <1>1, <1>3, LedgerStays DEF Typed
<1> DEFINE After(d) == {h \in Tags : tags'[h].pc = "rows" /\ tags'[h].cluster = d}
<1>7. ASSUME NEW d
      PROVE  /\ d = c => After(d) = UnderWay(d) \cup {g}
             /\ d # c => After(d) = UnderWay(d)
  <2>1. \A h \in Tags \ {g} : h \in After(d) <=> h \in UnderWay(d)
    BY <1>4 DEF UnderWay
  <2>2. g \notin UnderWay(d) /\ (g \in After(d) <=> d = c)
    BY <1>1, <1>5 DEF UnderWay
  <2>3. After(d) \subseteq Tags /\ UnderWay(d) \subseteq Tags
    BY DEF UnderWay
  <2> HIDE DEF After
  <2> QED
    BY <2>1, <2>2, <2>3
<1>8. OneVerdict'
  <2> SUFFICES ASSUME NEW t \in Existing(txn), txn[t].cluster # Internal, txn[t].cluster \notin mixed,
                      After(txn[t].cluster) = {}
               PROVE  /\ \A u \in Members(txn, txn[t].cluster) :
                           txn[u].category = txn[t].category /\ txn[u].status = txn[t].status
                      /\ agg[txn[t].cluster].assigned =
                           IF txn[t].status = "CLASSIFIED" THEN txn[t].category ELSE None
    BY <1>1, <1>6 DEF OneVerdict, UnderWay
  <2>1. UnderWay(txn[t].cluster) = {}
    <3> HIDE DEF After
    <3> QED
      BY <1>7
  <2> QED
    BY <2>1 DEF OneVerdict
<1>9. c = Internal \/ Imported(c[1])
  <2>1. CASE agg[c] # Absent /\ c # Internal
    <3>1. PICK f \in Files, l \in Txns : c = <<f, l>>
      BY <2>1 DEF ClusterIds, MerchantIds
    <3> QED
      BY <2>1, <3>1 DEF BatchesWhole
  <2> QED
    BY <1>1, <2>1 DEF Known
<1>10. ASSUME NEW h \in Tags, tags'[h].pc = "rows" PROVE TagRight(h)'
  <2>1. CASE h = g
    <3>1. tags'[g].clean => After(c) = {g}
      <4> HIDE DEF After
      <4> QED
        BY <1>5, <1>7
    <3>2. \A t \in Members(txn, c) : t \in tags'[g].todo
      BY <1>5 DEF members
    <3> QED
      BY <1>2, <1>5, <1>6, <1>9, <2>1, <3>1, <3>2 DEF TagRight, UnderWay
  <2>2. CASE h # g
    <3>1. TagRight(h)
      BY <1>4, <1>10, <2>2 DEF TagsRight
    <3>2. tags'[h].clean => After(tags[h].cluster) = {h}
      <4> SUFFICES ASSUME tags'[h].clean PROVE After(tags[h].cluster) = {h}
        OBVIOUS
      <4>1. tags[h].clean /\ tags[h].cluster # c
        BY <1>4, <2>2
      <4> HIDE DEF After
      <4> QED
        BY <1>7, <3>1, <4>1 DEF TagRight
    <3>3. /\ tags'[h].cluster = tags[h].cluster /\ tags'[h].category = tags[h].category
          /\ tags'[h].todo = tags[h].todo /\ (tags'[h].clean => tags[h].clean)
          /\ txn' = txn
      BY <1>1, <1>4, <2>2
    <3>4. /\ tags'[h].todo \subseteq Existing(txn)
          /\ tags'[h].cluster = Internal \/ Imported(tags'[h].cluster[1])
          /\ \A t \in Members(txn, tags'[h].cluster) :
               t \in tags'[h].todo \/ txn'[t].status = "CLASSIFIED"
          /\ tags'[h].clean =>
               /\ After(tags'[h].cluster) = {h}
               /\ \A t \in Members(txn, tags'[h].cluster) :
                    t \in tags'[h].todo \/ txn'[t].category = tags'[h].category
      <4> HIDE DEF After
      <4> QED
        BY <3>1, <3>2, <3>3 DEF TagRight
    <3> QED
      BY <1>6, <3>4 DEF TagRight, UnderWay
  <2> QED
    BY <2>1, <2>2
<1> QED
  BY <1>6, <1>8, <1>10 DEF TagsRight

LEMMA TagFailsKeeps ==
  ASSUME Inv, NEW g \in Tags, TagFails(g)
  PROVE  Inv'
<1> USE DEF Inv
<1> DEFINE c == tags[g].cluster
<1>1. /\ tags[g].pc = "rows" /\ UNCHANGED <<txn, agg, plan>>
      /\ tags' = [tags EXCEPT ![g] = NoTag("done")] /\ mixed' = mixed \cup {c}
  BY DEF TagFails
<1>2. /\ tags' \in [Tags -> TagStates] /\ tags'[g].pc = "done" /\ c \in ClusterIds
      /\ \A h \in Tags \ {g} : tags'[h] = tags[h]
  BY <1>1, NoTagIs DEF Typed, NoTag, TagStates
<1> HIDE DEF c
<1>3. /\ Typed' /\ BatchesWhole' /\ Shown' /\ Quiet' /\ PendingIsQueued' /\ PairedApart' /\ Planned'
      /\ Existing(txn)' = Existing(txn) /\ \A d : Members(txn, d)' = Members(txn, d)
      /\ \A f : Imported(f)' <=> Imported(f)
  BY <1>1, <1>2, LedgerStays DEF Typed
<1>4. \A d : UnderWay(d)' = UnderWay(d) \ {g}
  BY <1>1, <1>2 DEF UnderWay
<1>5. \A d : g \in UnderWay(d) => d = c
  BY DEF UnderWay, c
<1>6. OneVerdict'
  <2> SUFFICES ASSUME NEW t \in Existing(txn), txn[t].cluster # Internal, txn[t].cluster \notin mixed',
                      UnderWay(txn[t].cluster)' = {}
               PROVE  /\ \A u \in Members(txn, txn[t].cluster) :
                           txn[u].category = txn[t].category /\ txn[u].status = txn[t].status
                      /\ agg[txn[t].cluster].assigned =
                           IF txn[t].status = "CLASSIFIED" THEN txn[t].category ELSE None
    BY <1>1, <1>3 DEF OneVerdict
  <2>1. UnderWay(txn[t].cluster) = {} /\ txn[t].cluster \notin mixed
    BY <1>1, <1>4, <1>5
  <2> QED
    BY <2>1 DEF OneVerdict
<1>7. ASSUME NEW h \in Tags, tags'[h].pc = "rows" PROVE TagRight(h)'
  <2>1. h # g /\ tags'[h] = tags[h] /\ TagRight(h)
    BY <1>2, <1>7 DEF TagsRight
  <2> QED
    BY <1>1, <1>3, <1>4, <2>1 DEF TagRight
<1> QED
  BY <1>3, <1>6, <1>7 DEF TagsRight

LEMMA TagRowKeeps ==
  ASSUME Inv, NEW g \in Tags, NEW t \in Txns, TagRow(g, t)
  PROVE  Inv'
<1> USE DEF Inv
<1> DEFINE c == txn[t].cluster
           cat == tags[g].category
           stray == c # tags[g].cluster
<1>1. /\ tags[g].pc = "rows" /\ t \in tags[g].todo /\ UNCHANGED <<agg, plan>>
      /\ txn' = [txn EXCEPT ![t].category = cat, ![t].status = "CLASSIFIED"]
      /\ tags' = [(IF stray THEN Disturbed(c) ELSE tags) EXCEPT ![g].todo = @ \ {t}]
      /\ mixed' = IF stray THEN mixed \cup {c} ELSE mixed
  BY DEF TagRow
<1>2. TagRight(g) /\ t \in Existing(txn) /\ txn[t] \in Rows /\ c \in ClusterIds /\ cat \in Categories
  BY <1>1, ExistingRow DEF TagsRight, TagRight, Typed, TxnsTyped, TagStates
<1>3. /\ txn'[t] \in Rows /\ txn'[t].cluster = c /\ txn'[t].paired = txn[t].paired
      /\ txn'[t].category = cat /\ txn'[t].status = "CLASSIFIED"
      /\ \A u \in Txns \ {t} : txn'[u] = txn[u]
  BY <1>1, <1>2 DEF Typed, TxnsTyped, Rows, Statuses
<1>4. TxnsTyped' /\ Existing(txn)' = Existing(txn)
  <2>1. txn' \in [Txns -> Rows \cup {Absent}]
    BY <1>1, <1>3 DEF Typed, TxnsTyped
  <2>2. txn'[t] # Absent
    BY <1>3, AbsentAssumption
  <2> QED
    BY <1>2, <1>3, <2>1, <2>2 DEF TxnsTyped, Existing
<1>5. \A u \in Existing(txn) : /\ u \in Txns /\ txn[u].cluster \in ClusterIds
                               /\ txn'[u].cluster = txn[u].cluster /\ txn'[u].paired = txn[u].paired
                               /\ txn[u].status = "CLASSIFIED" => txn'[u].status = "CLASSIFIED"
                               /\ txn'[u].status = "PENDING_REVIEW" => txn[u].status = "PENDING_REVIEW"
  BY <1>3, ExistingRow DEF Typed, TxnsTyped, Existing
<1>6. \A d : Members(txn, d)' = Members(txn, d)
  BY <1>4, <1>5 DEF Members
<1> HIDE DEF stray, c, cat
<1>7. /\ tags' \in [Tags -> TagStates]
      /\ tags'[g].todo = tags[g].todo \ {t}
      /\ \A h \in Tags : /\ tags'[h].pc = tags[h].pc /\ tags'[h].cluster = tags[h].cluster
                         /\ tags'[h].category = tags[h].category
                         /\ h # g => tags'[h].todo = tags[h].todo
                         /\ tags'[h].clean <=> (tags[h].clean /\ (stray => tags[h].cluster # c))
  <2> DEFINE before == IF stray THEN Disturbed(c) ELSE tags
  <2>1. /\ before \in [Tags -> TagStates]
        /\ \A h \in Tags : /\ before[h].pc = tags[h].pc /\ before[h].cluster = tags[h].cluster
                           /\ before[h].category = tags[h].category /\ before[h].todo = tags[h].todo
                           /\ before[h].clean <=> (tags[h].clean /\ (stray => tags[h].cluster # c))
    BY DisturbedIs DEF Typed
  <2>2. tags' = [before EXCEPT ![g].todo = @ \ {t}]
    BY <1>1
  <2> HIDE DEF before
  <2> QED
    BY <2>1, <2>2 DEF TagStates
<1>8. \A d : UnderWay(d)' = UnderWay(d)
  BY <1>7 DEF UnderWay
<1>9. Typed'
  BY <1>1, <1>2, <1>4, <1>7 DEF Typed
<1>10. \A f : Imported(f)' <=> Imported(f)
  BY <1>4 DEF Imported
<1>11. BatchesWhole'
  <2> SUFFICES ASSUME NEW f \in Files, ~Imported(f)
               PROVE  (\A u \in Batch[f] : txn'[u] = Absent) /\ \A l \in Txns : agg'[<<f, l>>] = Absent
    BY <1>10 DEF BatchesWhole
  <2>1. \A u \in Batch[f] : u \in Txns /\ txn[u] = Absent
    BY DEF BatchesWhole, Txns
  <2>2. t \notin Batch[f]
    BY <1>2, <2>1 DEF Existing
  <2> QED
    BY <1>1, <1>3, <2>1, <2>2 DEF BatchesWhole
<1>12. Shown' /\ Quiet' /\ PairedApart'
  <2>1. Shown'
    <3> SUFFICES ASSUME NEW u \in Existing(txn)
                 PROVE  agg[txn'[u].cluster] # Absent /\ agg[txn'[u].cluster].whole
      BY <1>1, <1>4 DEF Shown
    <3> QED
      BY <1>5 DEF Shown
  <2>2. Quiet'
    BY <1>1 DEF Quiet
  <2>3. ASSUME NEW u \in Existing(txn)
        PROVE  /\ txn'[u].paired <=> txn'[u].cluster = Internal
               /\ txn'[u].paired => txn'[u].status = "CLASSIFIED"
    BY <1>5 DEF PairedApart
  <2> QED
    BY <1>4, <2>1, <2>2, <2>3 DEF PairedApart
<1>13. PendingIsQueued'
  BY <1>1, <1>4, <1>5 DEF PendingIsQueued
<1>14. OneVerdict'
  <2> SUFFICES ASSUME NEW u \in Existing(txn), txn[u].cluster # Internal, txn[u].cluster \notin mixed',
                      UnderWay(txn[u].cluster) = {}
               PROVE  /\ \A x \in Members(txn, txn[u].cluster) :
                           txn'[x].category = txn'[u].category /\ txn'[x].status = txn'[u].status
                      /\ agg[txn[u].cluster].assigned =
                           IF txn'[u].status = "CLASSIFIED" THEN txn'[u].category ELSE None
    <3>1. agg' = agg /\ \A u \in Existing(txn)' : u \in Existing(txn) /\ txn'[u].cluster = txn[u].cluster
      BY <1>1, <1>4, <1>5
    <3>2. \A d : UnderWay(d)' = {} => UnderWay(d) = {}
      BY <1>8
    <3> QED
      BY <1>6, <3>1, <3>2 DEF OneVerdict
  <2>1. txn[u].cluster \notin mixed
    BY <1>1
  <2>2. txn[u].cluster # c
    BY <1>1 DEF UnderWay, stray
  <2>3. \A x \in Members(txn, txn[u].cluster) : x # t /\ x \in Txns /\ txn'[x] = txn[x]
    BY <1>3, <2>2 DEF Members, Existing, c
  <2>4. u \in Members(txn, txn[u].cluster)
    BY DEF Members
  <2> QED
    BY <2>1, <2>3, <2>4 DEF OneVerdict
<1>15. ASSUME NEW h \in Tags, tags'[h].pc = "rows" PROVE TagRight(h)'
  <2>1. TagRight(h)
    BY <1>7, <1>15 DEF TagsRight
  <2>2. \A u \in Members(txn, tags[h].cluster) : u \in tags'[h].todo \/ txn'[u].status = "CLASSIFIED"
    BY <1>3, <1>5, <1>7, <2>1 DEF TagRight, Members
  <2>3. ASSUME tags'[h].clean, NEW u \in Members(txn, tags[h].cluster)
        PROVE  u \in tags'[h].todo \/ txn'[u].category = tags[h].category
    <3>1. tags[h].clean /\ (u \in tags[h].todo \/ txn[u].category = tags[h].category)
      BY <1>7, <2>1, <2>3 DEF TagRight
    <3>2. CASE u = t
      <4>1. tags[h].cluster = c
        BY <2>3, <3>2 DEF Members, c
      <4>2. ~stray
        BY <1>7, <2>3, <4>1
      <4>3. g \in UnderWay(tags[h].cluster) /\ UnderWay(tags[h].cluster) = {h}
        BY <1>1, <2>1, <3>1, <4>1, <4>2 DEF UnderWay, TagRight, stray
      <4> QED
        BY <1>3, <3>2, <4>3 DEF cat
    <3>3. CASE u # t
      BY <1>3, <1>7, <3>1, <3>3 DEF Members, Existing
    <3> QED
      BY <3>2, <3>3
  <2>4. tags'[h].todo \subseteq tags[h].todo
    BY <1>7
  <2> QED
    BY <1>4, <1>6, <1>7, <1>8, <1>10, <2>1, <2>2, <2>3, <2>4 DEF TagRight
<1>16. Planned'
  BY <1>1, <1>4, <1>5, PlanStays
<1> QED
  BY <1>9, <1>11, <1>12, <1>13, <1>14, <1>15, <1>16 DEF TagsRight

LEMMA TagClusterKeeps ==
  ASSUME Inv, NEW g \in Tags, TagCluster(g)
  PROVE  Inv'
<1> USE DEF Inv
<1> DEFINE c == tags[g].cluster
           cat == tags[g].category
           New(whole, size) == [whole |-> whole, size |-> size, assigned |-> cat,
                                previous |-> None, pending |-> FALSE]
           updated == IF agg[c] = Absent THEN New(FALSE, 0)
                      ELSE [agg[c] EXCEPT !.assigned = cat, !.pending = FALSE]
<1>1. /\ tags[g].pc = "rows" /\ tags[g].todo = {} /\ UNCHANGED <<txn, plan>>
      /\ tags' = [tags EXCEPT ![g] = NoTag("done")]
      /\ mixed' = IF tags[g].clean THEN mixed \ {c} ELSE mixed \cup {c}
  BY DEF TagCluster
<1>2. PICK item \in {updated, New(TRUE, tags[g].listed)} : agg' = [agg EXCEPT ![c] = item]
  BY DEF TagCluster
<1>3. c \in ClusterIds /\ cat \in Categories /\ tags[g].listed \in 0..Cardinality(Txns)
  BY DEF Typed, TagStates
<1>4. /\ item \in Aggregates /\ item.assigned = cat /\ ~item.pending
      /\ agg[c] # Absent /\ agg[c].whole => item.whole
  <2>1. New(TRUE, tags[g].listed) \in Aggregates /\ New(FALSE, 0) \in Aggregates
    BY <1>3, FiniteTxns DEF Aggregates
  <2>2. CASE item = New(TRUE, tags[g].listed)
    BY <2>1, <2>2
  <2>3. CASE item = updated /\ agg[c] = Absent
    BY <2>1, <2>3
  <2>4. CASE item = updated /\ agg[c] # Absent
    BY <1>3, <2>4 DEF Typed, Aggregates
  <2> QED
    BY <2>2, <2>3, <2>4
<1>5. item # Absent
  BY <1>4, AbsentAssumption
<1>6. /\ agg'[c] = item
      /\ \A d \in ClusterIds : d # c => agg'[d] = agg[d]
  BY <1>2, <1>3 DEF Typed
<1>7. /\ tags' \in [Tags -> TagStates] /\ tags'[g].pc = "done"
      /\ \A h \in Tags \ {g} : tags'[h] = tags[h]
  BY <1>1, NoTagIs DEF Typed, NoTag
<1> HIDE DEF updated, New
<1>8. Typed'
  <2>1. agg' \in [ClusterIds -> Aggregates \cup {Absent}]
    BY <1>2, <1>4 DEF Typed
  <2> QED
    BY <1>1, <1>3, <1>7, <2>1 DEF Typed, TxnsTyped
<1> HIDE DEF c, cat
<1>9. Existing(txn)' = Existing(txn) /\ (\A d : Members(txn, d)' = Members(txn, d))
      /\ \A f : Imported(f)' <=> Imported(f)
  BY <1>1 DEF Existing, Members, Imported
<1>10. TagRight(g)
  BY <1>1 DEF TagsRight
<1>11. BatchesWhole'
  <2> SUFFICES ASSUME NEW f \in Files, ~Imported(f), NEW l \in Txns
               PROVE  agg'[<<f, l>>] = Absent
    BY <1>1, <1>9 DEF BatchesWhole
  <2>1. <<f, l>> \in ClusterIds /\ <<f, l>> # Internal /\ agg[<<f, l>>] = Absent
    BY ClusterReviewAssumption DEF BatchesWhole, ClusterIds, MerchantIds
  <2>2. <<f, l>> # c
    <3> SUFFICES ASSUME c = <<f, l>> PROVE FALSE
      OBVIOUS
    <3>1. c[1] = f /\ c # Internal
      BY <2>1
    <3> QED
      BY <1>10, <3>1 DEF TagRight, c
  <2> QED
    BY <1>6, <2>1, <2>2
<1>12. \A t \in Existing(txn) : txn[t].cluster \in ClusterIds
  BY ExistingRow DEF Typed, TxnsTyped
<1>13. Shown'
  <2> SUFFICES ASSUME NEW t \in Existing(txn)
               PROVE  agg'[txn[t].cluster] # Absent /\ agg'[txn[t].cluster].whole
    BY <1>1, <1>9 DEF Shown
  <2>1. agg[txn[t].cluster] # Absent /\ agg[txn[t].cluster].whole
    BY DEF Shown
  <2> QED
    BY <1>4, <1>5, <1>6, <1>12, <2>1
<1>14. Quiet'
  <2>1. Internal \in ClusterIds
    BY DEF ClusterIds
  <2> QED
    BY <1>4, <1>6, <2>1 DEF Quiet
<1>15. \A t \in Members(txn, c) : txn[t].status = "CLASSIFIED"
  BY <1>1, <1>10 DEF TagRight, c
<1>16. PendingIsQueued'
  <2> SUFFICES ASSUME NEW t \in Existing(txn), txn[t].status = "PENDING_REVIEW"
               PROVE  agg'[txn[t].cluster].pending
    BY <1>1, <1>9 DEF PendingIsQueued
  <2>1. txn[t].cluster # c
    BY <1>15 DEF Members
  <2> QED
    BY <1>6, <1>12, <2>1 DEF PendingIsQueued
<1>17. PairedApart' /\ Planned'
  <2>1. TxnsTyped'
    BY <1>8 DEF Typed
  <2> QED
    BY <1>1, <1>9, <2>1, PlanStays DEF PairedApart
<1>18. \A d : /\ UnderWay(d)' = UnderWay(d) \ {g}
              /\ g \in UnderWay(d) <=> d = c
  BY <1>1, <1>7 DEF UnderWay, c
<1>19. OneVerdict'
  <2> SUFFICES ASSUME NEW t \in Existing(txn), txn[t].cluster # Internal, txn[t].cluster \notin mixed',
                      UnderWay(txn[t].cluster)' = {}
               PROVE  /\ \A u \in Members(txn, txn[t].cluster) :
                           txn[u].category = txn[t].category /\ txn[u].status = txn[t].status
                      /\ agg'[txn[t].cluster].assigned =
                           IF txn[t].status = "CLASSIFIED" THEN txn[t].category ELSE None
    BY <1>1, <1>9 DEF OneVerdict
  <2>1. t \in Members(txn, txn[t].cluster)
    BY DEF Members
  <2>2. CASE txn[t].cluster = c
    <3>1. tags[g].clean
      BY <1>1, <2>2
    <3>2. \A u \in Members(txn, c) : txn[u].category = cat
      BY <1>1, <1>10, <3>1 DEF TagRight, c, cat
    <3> QED
      BY <1>4, <1>6, <1>15, <2>1, <2>2, <3>2, <1>12
  <2>3. CASE txn[t].cluster # c
    <3>1. UnderWay(txn[t].cluster) = {} /\ txn[t].cluster \notin mixed
      BY <1>1, <1>18, <2>3
    <3>2. agg'[txn[t].cluster] = agg[txn[t].cluster]
      BY <1>6, <1>12, <2>3
    <3> QED
      BY <3>1, <3>2 DEF OneVerdict
  <2> QED
    BY <2>2, <2>3
<1>20. ASSUME NEW h \in Tags, tags'[h].pc = "rows" PROVE TagRight(h)'
  <2>1. h # g /\ tags'[h] = tags[h] /\ TagRight(h)
    BY <1>7, <1>20 DEF TagsRight
  <2> QED
    BY <1>1, <1>9, <1>18, <2>1 DEF TagRight
<1> QED
  BY <1>8, <1>11, <1>13, <1>14, <1>16, <1>17, <1>19, <1>20 DEF TagsRight

LEMMA HasOneMember ==
  ASSUME NEW rows \in [Txns -> Rows \cup {Absent}], NEW t \in Existing(rows), NEW S \in SUBSET Existing(rows),
         t \in S, \A u \in S : rows[u].category = rows[t].category
  PROVE  TheOnly({rows[u].category : u \in S}) = rows[t].category
<1>1. {rows[u].category : u \in S} = {rows[t].category}
  OBVIOUS
<1> QED
  BY <1>1, TheOnlyOfOne

\* What a rebuild takes from the members of a cluster that share a verdict.
LEMMA AssignedIs ==
  ASSUME NEW rows \in [Txns -> Rows \cup {Absent}], NEW c, NEW t \in Members(rows, c),
         \A u \in Members(rows, c) : rows[u].category = rows[t].category /\ rows[u].status = rows[t].status
  PROVE  AssignedCategory(rows, c, None) = IF rows[t].status = "CLASSIFIED" THEN rows[t].category ELSE None
<1> DEFINE decided == {u \in Members(rows, c) : rows[u].status = "CLASSIFIED"}
           assigned == AssignedCategory(rows, c, None)
<1>1. decided \in SUBSET Existing(rows) /\ Members(rows, c) \in SUBSET Existing(rows)
  BY DEF Members
<1>2. assigned = TheOnly({rows[u].category : u \in decided})
  BY DEF AssignedCategory
<1>3. CASE rows[t].status = "CLASSIFIED"
  <2>1. t \in decided /\ \A u \in decided : rows[u].category = rows[t].category
    BY <1>3
  <2> HIDE DEF decided, assigned
  <2>2. TheOnly({rows[u].category : u \in decided}) = rows[t].category
    BY <1>1, <2>1, HasOneMember
  <2> QED
    BY <1>2, <1>3, <2>2 DEF assigned
<1>4. CASE rows[t].status # "CLASSIFIED"
  <2>1. decided = {}
    BY <1>4
  <2>2. {rows[u].category : u \in decided} = {}
    BY <2>1
  <2> QED
    BY <1>2, <1>4, <2>2, TheOnlyOfNone
<1> QED
  BY <1>3, <1>4

LEMMA AggregateIs ==
  ASSUME NEW rows \in [Txns -> Rows \cup {Absent}], NEW c,
         NEW stored \in Categories \cup {None}, NEW previous \in Categories \cup {None}
  PROVE  /\ Aggregate(rows, c, stored, previous) \in Aggregates
         /\ Aggregate(rows, c, stored, previous) # Absent
         /\ Aggregate(rows, c, stored, previous).whole
         /\ Aggregate(rows, c, stored, previous).pending
              = NeedsReview(rows, c, AssignedCategory(rows, c, stored), previous)
         /\ Aggregate(rows, c, stored, previous).assigned = AssignedCategory(rows, c, stored)
<1> DEFINE decided == {u \in Members(rows, c) : rows[u].status = "CLASSIFIED"}
           assigned == AssignedCategory(rows, c, stored)
           pending == NeedsReview(rows, c, assigned, previous)
<1>1. decided \in SUBSET Existing(rows)
  BY DEF Members
<1>2. {rows[t].category : t \in decided} \in SUBSET Categories
  BY <1>1, ExistingRow
<1>3. assigned \in Categories \cup {None}
  <2> HIDE DEF decided
  <2>1. TheOnly({rows[t].category : t \in decided}) \in Categories \cup {None}
    BY <1>2, TheOnlyCategory
  <2> QED
    BY <2>1 DEF AssignedCategory, decided
<1>4. pending \in BOOLEAN
  BY DEF NeedsReview
<1>5. Cardinality(Members(rows, c)) \in 0..Cardinality(Txns)
  BY MembersAre
<1>6. Aggregate(rows, c, stored, previous) =
        [whole |-> TRUE, size |-> Cardinality(Members(rows, c)), assigned |-> assigned,
         previous |-> previous, pending |-> pending]
  BY DEF Aggregate
<1> HIDE DEF assigned, pending
<1>7. Aggregate(rows, c, stored, previous) \in Aggregates
  BY <1>3, <1>4, <1>5, <1>6 DEF Aggregates
<1>8. Aggregate(rows, c, stored, previous) # Absent
  BY <1>7, AbsentAssumption
<1>9. /\ Aggregate(rows, c, stored, previous).whole
      /\ Aggregate(rows, c, stored, previous).pending = pending
      /\ Aggregate(rows, c, stored, previous).assigned = assigned
  BY <1>6
<1> QED
  BY <1>7, <1>8, <1>9 DEF assigned, pending

LEMMA StoredIs ==
  ASSUME Typed, NEW c \in ClusterIds
  PROVE  /\ Stored(agg, c) \in Categories \cup {None}
         /\ agg[c] # Absent /\ agg[c].whole => Stored(agg, c) = agg[c].assigned
         /\ agg[c] = Absent => Stored(agg, c) = None
BY DEF Typed, Stored, Aggregates

LEMMA CurrencyKeeps ==
  ASSUME Inv, NEW f \in Files, PatchCurrency(f) PROVE Inv'
<1> USE DEF Inv
<1> DEFINE touched == {txn[t].cluster : t \in Batch[f]}
           Rebuilt(c) == Aggregate(txn, c, Stored(agg, c), None)
<1>1. /\ Imported(f) /\ UNCHANGED <<txn, plan, tags, mixed>>
      /\ agg' = [c \in ClusterIds |-> IF c \in touched THEN Rebuilt(c) ELSE agg[c]]
  BY DEF PatchCurrency
<1>2. txn \in [Txns -> Rows \cup {Absent}]
  BY DEF Typed, TxnsTyped
<1>3. \A t \in Existing(txn) : txn[t].cluster \in ClusterIds /\ txn[t].category \in Categories
                               /\ txn[t].status \in Statuses /\ txn[t].paired \in BOOLEAN
  BY <1>2, ExistingRow
<1>4. \A c \in ClusterIds : /\ Rebuilt(c) \in Aggregates /\ Rebuilt(c) # Absent /\ Rebuilt(c).whole
                            /\ Rebuilt(c).pending = NeedsReview(txn, c, AssignedCategory(txn, c, Stored(agg, c)), None)
                            /\ Rebuilt(c).assigned = AssignedCategory(txn, c, Stored(agg, c))
  BY <1>2, StoredIs, AggregateIs
<1>5. \A c \in ClusterIds : Rebuilt(c).pending <=> \E t \in Members(txn, c) : txn[t].status = "PENDING_REVIEW"
  BY <1>4 DEF NeedsReview
<1>6. \A c \in touched : \E t \in Existing(txn) : txn[t].cluster = c
  BY <1>1 DEF Imported
<1>7. \A c : c \in touched => c \in ClusterIds
  BY <1>3, <1>6
<1> HIDE DEF touched, Rebuilt
<1>8. \A c \in ClusterIds : agg'[c] = IF c \in touched THEN Rebuilt(c) ELSE agg[c]
  BY <1>1
<1>9. Typed'
  BY <1>1, <1>4 DEF Typed, TxnsTyped
<1>10. Shown'
  BY <1>1, <1>3, <1>4, <1>8 DEF Shown
<1>11. BatchesWhole'
  <2> SUFFICES ASSUME NEW g \in Files, ~Imported(g), NEW l \in Txns PROVE agg'[<<g, l>>] = Absent
    BY <1>1 DEF BatchesWhole, Imported
  <2>1. <<g, l>> \in ClusterIds /\ agg[<<g, l>>] = Absent
    BY DEF BatchesWhole, ClusterIds, MerchantIds
  <2>2. <<g, l>> \notin touched
    BY <1>6, <2>1 DEF Shown
  <2> QED
    BY <1>8, <2>1, <2>2
<1>12. Internal \in ClusterIds /\ \A t \in Members(txn, Internal) : txn[t].status # "PENDING_REVIEW"
  BY DEF ClusterIds, Members, PairedApart
<1>13. Quiet'
  BY <1>5, <1>8, <1>12 DEF Quiet
<1>14. OneVerdict'
  <2> SUFFICES ASSUME NEW t \in Existing(txn), txn[t].cluster # Internal, txn[t].cluster \notin mixed,
                      UnderWay(txn[t].cluster) = {}
               PROVE  /\ \A u \in Members(txn, txn[t].cluster) :
                           txn[u].category = txn[t].category /\ txn[u].status = txn[t].status
                      /\ agg'[txn[t].cluster].assigned =
                           IF txn[t].status = "CLASSIFIED" THEN txn[t].category ELSE None
    BY <1>1 DEF OneVerdict, Members, Existing, UnderWay
  <2> DEFINE c == txn[t].cluster
  <2>1. c \in ClusterIds /\ t \in Members(txn, c)
    BY <1>3 DEF Members
  <2>2. /\ \A u \in Members(txn, c) : txn[u].category = txn[t].category /\ txn[u].status = txn[t].status
        /\ agg[c].assigned = IF txn[t].status = "CLASSIFIED" THEN txn[t].category ELSE None
        /\ agg[c] # Absent /\ agg[c].whole
    BY DEF OneVerdict, Shown
  <2> HIDE DEF c
  <2>3. Stored(agg, c) = agg[c].assigned
    BY <2>1, <2>2, StoredIs
  <2>4. Stored(agg, c) # None => AssignedCategory(txn, c, Stored(agg, c)) = Stored(agg, c)
    BY DEF AssignedCategory
  <2>5. Stored(agg, c) = None => AssignedCategory(txn, c, Stored(agg, c))
                                   = IF txn[t].status = "CLASSIFIED" THEN txn[t].category ELSE None
    BY <1>2, <2>1, <2>2, AssignedIs
  <2>6. agg'[c].assigned = IF txn[t].status = "CLASSIFIED" THEN txn[t].category ELSE None
    BY <1>4, <1>8, <2>1, <2>2, <2>3, <2>4, <2>5
  <2> QED
    BY <2>2, <2>6 DEF c
<1>15. PendingIsQueued'
  <2> SUFFICES ASSUME NEW t \in Existing(txn), txn[t].status = "PENDING_REVIEW"
               PROVE  agg'[txn[t].cluster].pending
    BY <1>1 DEF PendingIsQueued
  <2>1. t \in Members(txn, txn[t].cluster)
    BY DEF Members
  <2> QED
    BY <1>3, <1>5, <1>8, <2>1 DEF PendingIsQueued
<1>16. PairedApart' /\ Planned'
  <2>1. TxnsTyped' /\ Existing(txn)' = Existing(txn) /\ UNCHANGED plan
    BY <1>1 DEF Typed, TxnsTyped
  <2> QED
    BY <1>1, <2>1, PlanStays DEF PairedApart
<1>17. TagsRight'
  BY <1>1 DEF TagsRight, TagRight, UnderWay, Members, Existing, Imported
<1> QED
  BY <1>9, <1>10, <1>11, <1>13, <1>14, <1>15, <1>16, <1>17

-----------------------------------------------------------------------------
(* Persisting. *)

\* The rows after the patches and the inserts: what the plan assigned, but for
\* legs of before, which may keep the category of a later tag.
LEMMA RowsAfterAre ==
  ASSUME Inv, plan # None
  PROVE  /\ RowsAfter(plan) \in [Txns -> Rows \cup {Absent}]
         /\ Existing(RowsAfter(plan)) = Assigned
         /\ \A t \in Assigned :
              IF Leg(t)
              THEN /\ RowsAfter(plan)[t].paired /\ RowsAfter(plan)[t].cluster = Internal
                   /\ RowsAfter(plan)[t].status = "CLASSIFIED"
                   /\ Internal \in Live(plan) \/ \E u \in Existing(txn) : txn[u].cluster = Internal
              ELSE /\ ~RowsAfter(plan)[t].paired
                   /\ RowsAfter(plan)[t].cluster = plan.assign[t].cluster
                   /\ RowsAfter(plan)[t].category = plan.assign[t].category
                   /\ RowsAfter(plan)[t].status = plan.assign[t].status
                   /\ plan.assign[t].cluster \in Live(plan)
<1> USE DEF Inv
<1> DEFINE rows == RowsAfter(plan)
           written == Patched(plan) \cup Batch[plan.file]
<1>1. ReadCurrent /\ PlanTyped /\ GroupsApart
  BY DEF Planned
<1>2. plan.file \in Files /\ ~Imported(plan.file) /\ Assigned \subseteq Txns
      /\ \A t \in Assigned : plan.assign[t] \in Verdicts
  BY <1>1 DEF ReadCurrent, PlanTyped, Assigned, Existing, Txns
<1>3. \A t \in Existing(txn) : /\ t \in Txns /\ txn[t] \in Rows /\ txn[t] # Absent
                               /\ txn[t].cluster \in ClusterIds /\ txn[t].paired \in BOOLEAN
  BY ExistingRow DEF Typed, TxnsTyped, Existing
<1>4. \A t \in Batch[plan.file] : t \in Txns /\ t \notin Existing(txn)
  BY <1>2 DEF BatchesWhole, Existing, Txns
<1>5. written \subseteq Assigned
  BY <1>1 DEF Patched, Assigned, ReadCurrent
<1>6. /\ rows = [t \in Txns |-> rows[t]]
      /\ \A t \in Txns : t \notin written => rows[t] = txn[t]
      /\ \A t \in written : rows[t] = [cluster |-> plan.assign[t].cluster, category |-> plan.assign[t].category,
                                       status |-> plan.assign[t].status,
                                       paired |-> t \in plan.legs \/ (t \notin Batch[plan.file] /\ txn[t].paired)]
  BY <1>2, <1>5 DEF RowsAfter
<1>7. \A t \in written : (t \in plan.legs \/ (t \notin Batch[plan.file] /\ txn[t].paired)) <=> Leg(t)
  BY <1>4, <1>5 DEF Leg, Assigned
<1>8. \A t \in written : /\ rows[t] \in Rows /\ rows[t] # Absent
                         /\ rows[t].cluster = plan.assign[t].cluster /\ rows[t].category = plan.assign[t].category
                         /\ rows[t].status = plan.assign[t].status /\ (rows[t].paired <=> Leg(t))
                         /\ plan.assign[t].cluster \in Live(plan)
  <2> SUFFICES ASSUME NEW t \in written
               PROVE  /\ rows[t] \in Rows /\ rows[t] # Absent
                      /\ rows[t].cluster = plan.assign[t].cluster /\ rows[t].category = plan.assign[t].category
                      /\ rows[t].status = plan.assign[t].status /\ (rows[t].paired <=> Leg(t))
                      /\ plan.assign[t].cluster \in Live(plan)
    OBVIOUS
  <2>1. plan.assign[t] \in Verdicts
    BY <1>2, <1>5
  <2>2. plan.assign[t].cluster \in Live(plan)
    BY DEF Live
  <2> DEFINE paired == t \in plan.legs \/ (t \notin Batch[plan.file] /\ txn[t].paired)
  <2>3. /\ paired \in BOOLEAN /\ (paired <=> Leg(t))
        /\ rows[t] = [cluster |-> plan.assign[t].cluster, category |-> plan.assign[t].category,
                      status |-> plan.assign[t].status, paired |-> paired]
    BY <1>6, <1>7
  <2> HIDE DEF rows, written, paired
  <2>4. rows[t] \in Rows
    BY <2>1, <2>3 DEF Rows, Verdicts
  <2> QED
    BY <2>2, <2>3, <2>4, AbsentAssumption
<1>9. \A t \in Assigned \ written :
        /\ t \in Existing(txn) /\ t \notin plan.legs /\ plan.assign[t].cluster = txn[t].cluster
  BY <1>1 DEF Patched, Assigned, ReadCurrent
<1>10. \A t \in Existing(txn) : \A l \in Txns : txn[t].cluster # <<plan.file, l>>
  BY <1>2, <1>3 DEF BatchesWhole, Shown
<1>11. \A t \in Assigned \ written : Leg(t)
  BY <1>1, <1>9, <1>10 DEF GroupsApart
<1>12. \A t \in Assigned \ written :
         /\ rows[t] = txn[t] /\ txn[t].paired /\ txn[t].cluster = Internal /\ txn[t].status = "CLASSIFIED"
  BY <1>2, <1>6, <1>9, <1>11 DEF Leg, PairedApart
<1> HIDE DEF rows, written
<1>13. rows \in [Txns -> Rows \cup {Absent}]
  <2>1. ASSUME NEW t \in Txns PROVE rows[t] \in Rows \cup {Absent}
    BY <1>6, <1>8 DEF Typed, TxnsTyped
  <2> QED
    BY <1>6, <2>1
<1>14. Existing(rows) = Assigned
  <2> SUFFICES ASSUME NEW t \in Txns PROVE rows[t] # Absent <=> t \in Assigned
    BY <1>2 DEF Existing
  <2>1. CASE t \in written
    BY <1>5, <1>8, <2>1
  <2>2. CASE t \notin written
    BY <1>3, <1>6, <1>9, <2>2 DEF Existing, Assigned
  <2> QED
    BY <2>1, <2>2
<1>15. ASSUME NEW t \in Assigned, Leg(t)
       PROVE  /\ rows[t].paired /\ rows[t].cluster = Internal /\ rows[t].status = "CLASSIFIED"
              /\ Internal \in Live(plan) \/ \E u \in Existing(txn) : txn[u].cluster = Internal
  <2>1. plan.assign[t].cluster = Internal /\ plan.assign[t].status = "CLASSIFIED"
    BY <1>1, <1>15 DEF GroupsApart, InternalAssignment
  <2>2. CASE t \in written
    BY <1>8, <1>15, <2>1, <2>2
  <2>3. CASE t \notin written
    BY <1>9, <1>12, <2>3
  <2> QED
    BY <2>2, <2>3
<1>16. ASSUME NEW t \in Assigned, ~Leg(t)
       PROVE  /\ ~rows[t].paired /\ rows[t].cluster = plan.assign[t].cluster
              /\ rows[t].category = plan.assign[t].category /\ rows[t].status = plan.assign[t].status
              /\ plan.assign[t].cluster \in Live(plan)
  BY <1>8, <1>11, <1>16
<1> QED
  BY <1>13, <1>14, <1>15, <1>16 DEF rows

\* What retires is whole, and nothing retires that the plan assigns.
LEMMA PathsAgreeAlways == Inv => PathsAgree
<1> SUFFICES ASSUME Inv, plan # None PROVE InPlace(plan) = Staged(plan)
  BY DEF PathsAgree
<1> USE DEF Inv
<1> DEFINE rows == RowsAfter(plan)
           live == Live(plan)
           retired == Retired(plan)
           kept == [c \in ClusterIds |->
                      IF c \in retired /\ agg[c] # Absent /\ agg[c].whole THEN Absent ELSE agg[c]]
           rebuilt == [c \in live |-> Aggregate(rows, c, Stored(agg, c), plan.hint[c])]
           inPlace == [c \in ClusterIds |-> IF c \in retired THEN Absent
                                            ELSE IF c \in live THEN rebuilt[c] ELSE agg[c]]
           staged == [c \in ClusterIds |->
                        IF c \in live THEN Aggregate(rows, c, Stored(kept, c), plan.hint[c]) ELSE kept[c]]
<1>1. ReadCurrent /\ PlanTyped
  BY DEF Planned
<1>2. \A c \in retired : \E t \in Existing(txn) : c = txn[t].cluster
  BY <1>1 DEF Retired, ReadCurrent
<1>3. \A c \in retired : agg[c] # Absent /\ agg[c].whole
  BY <1>2 DEF Shown
<1>4. \A c \in live : c \notin retired
  <2>1. DOMAIN plan.assign = Assigned
    BY <1>1 DEF PlanTyped
  <2>2. Patched(plan) \cup Batch[plan.file] \subseteq Assigned
    BY <1>1 DEF Patched, ReadCurrent, Assigned
  <2> QED
    BY <2>1, <2>2 DEF Live, Retired
<1>5. InPlace(plan) = [txn |-> rows, agg |-> inPlace] /\ Staged(plan) = [txn |-> rows, agg |-> staged]
  BY DEF InPlace, Staged
<1> HIDE DEF rows, live, retired
<1>6. \A c \in ClusterIds : c \in live => Stored(kept, c) = Stored(agg, c)
  BY <1>4 DEF Stored
<1>7. \A c \in ClusterIds : inPlace[c] = staged[c]
  <2> SUFFICES ASSUME NEW c \in ClusterIds PROVE inPlace[c] = staged[c]
    OBVIOUS
  <2>1. CASE c \in live
    <3>1. Stored(kept, c) = Stored(agg, c)
      BY <1>6, <2>1
    <3>2. staged[c] = Aggregate(rows, c, Stored(kept, c), plan.hint[c])
      BY <2>1
    <3>3. inPlace[c] = Aggregate(rows, c, Stored(agg, c), plan.hint[c])
      BY <1>4, <2>1
    <3> QED
      BY <3>1, <3>2, <3>3
  <2>2. CASE c \notin live
    BY <1>3, <2>2
  <2> QED
    BY <2>1, <2>2
<1>8. inPlace = staged
  BY <1>7
<1> QED
  BY <1>5, <1>8

\* Both persist paths, as one.
LEMMA PersistIs ==
  ASSUME Inv, Persist
  PROVE  /\ plan # None /\ plan' = None /\ mixed' = {}
         /\ tags' = [g \in Tags |-> [tags[g] EXCEPT !.clean = FALSE]]
         /\ txn' = RowsAfter(plan)
         /\ \A c \in ClusterIds :
              agg'[c] = IF c \in Retired(plan) THEN Absent
                        ELSE IF c \in Live(plan)
                             THEN Aggregate(RowsAfter(plan), c, Stored(agg, c), plan.hint[c])
                             ELSE agg[c]
         /\ agg' = [c \in ClusterIds |-> agg'[c]]
<1>1. /\ plan # None /\ plan' = None /\ mixed' = {}
      /\ tags' = [g \in Tags |-> [tags[g] EXCEPT !.clean = FALSE]]
  BY DEF Persist
<1>2. InPlace(plan) = Staged(plan)
  BY <1>1, PathsAgreeAlways DEF PathsAgree
<1>3. txn' = InPlace(plan).txn /\ agg' = InPlace(plan).agg
  BY <1>2 DEF Persist
<1> QED
  BY <1>1, <1>3 DEF InPlace

\* What a persist leaves of a cluster that has a transaction afterwards: a row
\* that is not retired, and is rebuilt unless it is an old bucket of transfers.
LEMMA ClusterAfter ==
  ASSUME Inv, Persist, NEW t \in Existing(txn')
  PROVE  /\ t \in Assigned /\ txn'[t].cluster \in ClusterIds /\ txn'[t].cluster \notin Retired(plan)
         /\ txn'[t].cluster # Internal <=> ~Leg(t)
         /\ ~Leg(t) => /\ txn'[t].cluster \in Live(plan)
                       /\ agg[txn'[t].cluster] = Absent
                       /\ \E l \in Txns : txn'[t].cluster = <<plan.file, l>>
<1> USE DEF Inv
<1>1. plan # None /\ txn' = RowsAfter(plan)
  BY PersistIs
<1>2. ReadCurrent /\ PlanTyped /\ GroupsApart
  BY <1>1 DEF Planned
<1>3. t \in Assigned
  BY <1>1, RowsAfterAre
<1>4. t \in Assigned /\ txn'[t].cluster \in ClusterIds
  BY <1>1, <1>3, RowsAfterAre, ExistingRow
<1>5. txn'[t].cluster = plan.assign[t].cluster
  BY <1>1, <1>2, <1>3, RowsAfterAre DEF GroupsApart, InternalAssignment
<1>6. txn'[t].cluster \notin Retired(plan)
  BY <1>2, <1>3, <1>5 DEF Retired, PlanTyped
<1>7. ASSUME ~Leg(t)
      PROVE  /\ txn'[t].cluster # Internal
             /\ txn'[t].cluster \in Live(plan)
             /\ agg[txn'[t].cluster] = Absent
             /\ \E l \in Txns : txn'[t].cluster = <<plan.file, l>>
  <2>1. PICK l \in Txns : txn'[t].cluster = <<plan.file, l>>
    BY <1>2, <1>3, <1>5, <1>7 DEF GroupsApart
  <2>2. <<plan.file, l>> # Internal /\ agg[<<plan.file, l>>] = Absent
    BY <1>2, ClusterReviewAssumption DEF ReadCurrent, MerchantIds, BatchesWhole
  <2> QED
    BY <1>1, <1>3, <1>7, <2>1, <2>2, RowsAfterAre
<1>8. Leg(t) => txn'[t].cluster = Internal
  BY <1>1, <1>3, RowsAfterAre
<1> QED
  BY <1>4, <1>6, <1>7, <1>8

\* A persist leaves a merchant cluster with one verdict and a row built anew.
LEMMA FreshClusters ==
  ASSUME Inv, Persist, NEW t \in Assigned, ~Leg(t)
  PROVE  /\ txn'[t].cluster \in ClusterIds /\ txn'[t].cluster \in Live(plan)
         /\ txn'[t].cluster \notin Retired(plan) /\ Stored(agg, txn'[t].cluster) = None
         /\ \A u \in Members(txn', txn'[t].cluster) :
              txn'[u].category = txn'[t].category /\ txn'[u].status = txn'[t].status
<1> USE DEF Inv
<1>1. plan # None /\ txn' = RowsAfter(plan)
  BY PersistIs
<1>2. ReadCurrent /\ PlanTyped /\ GroupsApart
  BY <1>1 DEF Planned
<1>3. Existing(txn') = Assigned
  BY <1>1, RowsAfterAre
<1>4. /\ txn'[t].cluster \in ClusterIds /\ txn'[t].cluster \notin Retired(plan)
      /\ txn'[t].cluster # Internal
      /\ txn'[t].cluster \in Live(plan) /\ agg[txn'[t].cluster] = Absent
  BY <1>3, ClusterAfter
<1>5. ASSUME NEW u \in Members(txn', txn'[t].cluster)
      PROVE  txn'[u].category = txn'[t].category /\ txn'[u].status = txn'[t].status
  <2>1. u \in Existing(txn') /\ u \in Assigned /\ txn'[u].cluster = txn'[t].cluster
    BY <1>3 DEF Members
  <2>2. ~Leg(u)
    BY <1>4, <2>1, ClusterAfter
  <2>3. plan.assign[u] = plan.assign[t]
    BY <1>1, <1>2, <2>1, <2>2, RowsAfterAre DEF GroupsApart
  <2> QED
    BY <1>1, <2>1, <2>2, <2>3, RowsAfterAre
<1> QED
  BY <1>4, <1>5, StoredIs

LEMMA PersistKeeps ==
  ASSUME Inv, Persist PROVE Inv'
<1> USE DEF Inv
<1> DEFINE Rebuilt(c) == Aggregate(txn', c, Stored(agg, c), plan.hint[c])
<1>1. plan # None /\ plan' = None /\ mixed' = {} /\ txn' = RowsAfter(plan)
  BY PersistIs
<1>2. ReadCurrent /\ PlanTyped /\ GroupsApart
  BY <1>1 DEF Planned
<1>3. txn' \in [Txns -> Rows \cup {Absent}] /\ Existing(txn') = Assigned
  BY <1>1, RowsAfterAre
<1>4. \A c \in ClusterIds : agg'[c] = IF c \in Retired(plan) THEN Absent
                                      ELSE IF c \in Live(plan) THEN Rebuilt(c) ELSE agg[c]
  BY <1>1, PersistIs
<1>5. \A c \in ClusterIds : /\ Rebuilt(c) \in Aggregates /\ Rebuilt(c) # Absent /\ Rebuilt(c).whole
                            /\ Rebuilt(c).pending
                                 = NeedsReview(txn', c, AssignedCategory(txn', c, Stored(agg, c)), plan.hint[c])
                            /\ Rebuilt(c).assigned = AssignedCategory(txn', c, Stored(agg, c))
  <2> SUFFICES ASSUME NEW c \in ClusterIds
               PROVE  /\ Rebuilt(c) \in Aggregates /\ Rebuilt(c) # Absent /\ Rebuilt(c).whole
                      /\ Rebuilt(c).pending
                           = NeedsReview(txn', c, AssignedCategory(txn', c, Stored(agg, c)), plan.hint[c])
                      /\ Rebuilt(c).assigned = AssignedCategory(txn', c, Stored(agg, c))
    OBVIOUS
  <2>1. Stored(agg, c) \in Categories \cup {None} /\ plan.hint[c] \in Categories \cup {None}
    BY <1>2, StoredIs DEF PlanTyped
  <2> DEFINE stored == Stored(agg, c)
             hint == plan.hint[c]
             after == txn'
  <2>2. stored \in Categories \cup {None} /\ hint \in Categories \cup {None}
        /\ after \in [Txns -> Rows \cup {Absent}]
    BY <1>3, <2>1
  <2> HIDE DEF stored, hint, after
  <2>3. /\ Aggregate(after, c, stored, hint) \in Aggregates
        /\ Aggregate(after, c, stored, hint) # Absent
        /\ Aggregate(after, c, stored, hint).whole
        /\ Aggregate(after, c, stored, hint).pending
             = NeedsReview(after, c, AssignedCategory(after, c, stored), hint)
        /\ Aggregate(after, c, stored, hint).assigned = AssignedCategory(after, c, stored)
    BY <2>2, AggregateIs
  <2> QED
    BY <2>3 DEF stored, hint, after
<1> HIDE DEF Rebuilt
<1>17. /\ tags' \in [Tags -> TagStates]
       /\ \A g \in Tags : /\ tags'[g].pc = tags[g].pc /\ tags'[g].cluster = tags[g].cluster
                          /\ tags'[g].todo = tags[g].todo /\ ~tags'[g].clean
  <2>1. tags' = [g \in Tags |-> [tags[g] EXCEPT !.clean = FALSE]]
    BY PersistIs
  <2> QED
    BY <2>1 DEF Typed, TagStates
<1>6. Typed'
  <2>1. agg' \in [ClusterIds -> Aggregates \cup {Absent}]
    <3>1. ASSUME NEW c \in ClusterIds PROVE agg'[c] \in Aggregates \cup {Absent}
      BY <1>4, <1>5 DEF Typed
    <3>2. agg' = [c \in ClusterIds |-> agg'[c]]
      BY PersistIs
    <3> QED
      BY <3>1, <3>2
  <2> QED
    BY <1>1, <1>3, <1>17, <2>1 DEF Typed, TxnsTyped
<1>7. Internal \in ClusterIds /\ \A t \in Assigned : Leg(t) <=> txn'[t].cluster = Internal
  BY <1>3, ClusterAfter DEF ClusterIds
<1>8. PairedApart'
  BY <1>1, <1>3, <1>7, RowsAfterAre DEF PairedApart
<1>9. BatchesWhole'
  <2> SUFFICES ASSUME NEW f \in Files, f # plan.file, ~Imported(f)
               PROVE  /\ \A t \in Batch[f] : txn'[t] = Absent
                      /\ \A l \in Txns : agg'[<<f, l>>] = Absent
    <3>1. Existing(txn)' = Assigned
      BY <1>3 DEF Existing
    <3>2. \A f \in Files : f = plan.file \/ Imported(f) => Imported(f)'
      BY <3>1 DEF Imported, Assigned
    <3> QED
      BY <3>2 DEF BatchesWhole
  <2>1. \A t \in Batch[f] : t \in Txns /\ t \notin Assigned
    BY <1>2, ClusterReviewAssumption DEF BatchesWhole, Assigned, Existing, Txns, ReadCurrent
  <2>2. \A t \in Batch[f] : txn'[t] = Absent
    BY <1>3, <2>1 DEF Existing
  <2>3. ASSUME NEW l \in Txns PROVE agg'[<<f, l>>] = Absent
    <3>1. <<f, l>> \in ClusterIds /\ <<f, l>> # Internal /\ agg[<<f, l>>] = Absent
      BY ClusterReviewAssumption DEF ClusterIds, MerchantIds, BatchesWhole
    <3>2. <<f, l>> \notin Live(plan)
      <4>1. \A t \in Assigned : plan.assign[t].cluster # <<f, l>>
        <5> SUFFICES ASSUME NEW t \in Assigned, plan.assign[t].cluster = <<f, l>> PROVE FALSE
          OBVIOUS
        <5>1. CASE Leg(t)
          BY <1>2, <3>1, <5>1 DEF GroupsApart, InternalAssignment
        <5>2. CASE ~Leg(t)
          BY <1>2, <5>2 DEF GroupsApart
        <5> QED
          BY <5>1, <5>2
      <4>2. Patched(plan) \cup Batch[plan.file] \subseteq Assigned
        BY <1>2 DEF Patched, ReadCurrent, Assigned
      <4> QED
        BY <4>1, <4>2 DEF Live
    <3> QED
      BY <1>4, <3>1, <3>2
  <2> QED
    BY <2>2, <2>3
<1>10. Shown'
  <2> SUFFICES ASSUME NEW t \in Assigned
               PROVE  agg'[txn'[t].cluster] # Absent /\ agg'[txn'[t].cluster].whole
    BY <1>3 DEF Shown
  <2>1. txn'[t].cluster \in ClusterIds /\ txn'[t].cluster \notin Retired(plan)
    BY <1>3, ClusterAfter
  <2>2. CASE txn'[t].cluster \in Live(plan)
    BY <1>4, <1>5, <2>1, <2>2
  <2>3. CASE txn'[t].cluster \notin Live(plan)
    <3>1. Leg(t) /\ txn'[t].cluster = Internal
      BY <1>3, <1>7, <2>3, ClusterAfter
    <3>2. \E u \in Existing(txn) : txn[u].cluster = Internal
      BY <1>1, <2>3, <3>1, RowsAfterAre
    <3>3. agg[Internal] # Absent /\ agg[Internal].whole
      BY <3>2 DEF Shown
    <3> QED
      BY <1>4, <2>1, <2>3, <3>1, <3>3
  <2> QED
    BY <2>2, <2>3
<1>11. \A t \in Members(txn', Internal) : txn'[t].status # "PENDING_REVIEW"
  BY <1>8 DEF PairedApart, Members
<1>12. Quiet'
  <2>1. Rebuilt(Internal).pending = FALSE
    BY <1>2, <1>5, <1>7, <1>11 DEF NeedsReview, PlanTyped
  <2> QED
    BY <1>4, <1>7, <2>1 DEF Quiet
<1>13. \A t \in Assigned : ~Leg(t) =>
         /\ txn'[t].cluster \in ClusterIds /\ agg'[txn'[t].cluster] = Rebuilt(txn'[t].cluster)
         /\ Stored(agg, txn'[t].cluster) = None
         /\ \A u \in Members(txn', txn'[t].cluster) :
              txn'[u].category = txn'[t].category /\ txn'[u].status = txn'[t].status
  BY <1>4, FreshClusters
<1>14. OneVerdict'
  <2> SUFFICES ASSUME NEW t \in Assigned, txn'[t].cluster # Internal
               PROVE  /\ \A u \in Members(txn', txn'[t].cluster) :
                           txn'[u].category = txn'[t].category /\ txn'[u].status = txn'[t].status
                      /\ agg'[txn'[t].cluster].assigned =
                           IF txn'[t].status = "CLASSIFIED" THEN txn'[t].category ELSE None
    BY <1>3 DEF OneVerdict, Members, Existing
  <2>1. ~Leg(t) /\ t \in Members(txn', txn'[t].cluster)
    BY <1>3, <1>7 DEF Members
  <2> QED
    BY <1>3, <1>5, <1>13, <2>1, AssignedIs
<1>15. PendingIsQueued'
  <2> SUFFICES ASSUME NEW t \in Assigned, txn'[t].status = "PENDING_REVIEW"
               PROVE  agg'[txn'[t].cluster].pending
    BY <1>3 DEF PendingIsQueued
  <2>1. ~Leg(t) /\ t \in Members(txn', txn'[t].cluster)
    BY <1>1, <1>3, RowsAfterAre DEF Members
  <2>2. AssignedCategory(txn', txn'[t].cluster, Stored(agg, txn'[t].cluster)) = None
    BY <1>3, <1>13, <2>1, AssignedIs
  <2> DEFINE c == txn'[t].cluster
  <2>3. c \in ClusterIds /\ agg'[c] = Rebuilt(c) /\ t \in Members(txn', c)
    BY <1>13, <2>1
  <2>4. Rebuilt(c).pending = NeedsReview(txn', c, None, plan.hint[c])
    BY <1>5, <2>2, <2>3
  <2>5. NeedsReview(txn', c, None, plan.hint[c])
    BY <2>3 DEF NeedsReview
  <2> QED
    BY <2>3, <2>4, <2>5
<1>16. Planned'
  BY <1>1 DEF Planned
<1>18. ASSUME NEW g \in Tags, tags'[g].pc = "rows" PROVE TagRight(g)'
  <2> DEFINE c == tags[g].cluster
  <2>1. TagRight(g) /\ tags'[g].cluster = c /\ tags'[g].todo = tags[g].todo /\ ~tags'[g].clean
    BY <1>17, <1>18 DEF TagsRight
  <2>2. tags[g].todo \subseteq Assigned /\ (c = Internal \/ Imported(c[1]))
    BY <2>1 DEF TagRight, Assigned
  <2>3. c = Internal \/ Batch[c[1]] \subseteq Existing(txn')
    BY <1>3, <2>2 DEF Assigned, Imported
  <2>4. \A t \in Members(txn', c) : txn'[t].status = "CLASSIFIED"
    <3> SUFFICES ASSUME NEW t \in Existing(txn'), txn'[t].cluster = c PROVE txn'[t].status = "CLASSIFIED"
      BY DEF Members
    <3>1. CASE c = Internal
      BY <1>3, <3>1, <1>8 DEF PairedApart
    <3>2. CASE c # Internal
      <4>1. PICK l \in Txns : c = <<plan.file, l>>
        BY <3>2, ClusterAfter
      <4>2. c[1] = plan.file
        BY <4>1
      <4> QED
        BY <1>2, <2>2, <3>2, <4>2 DEF ReadCurrent
    <3> QED
      BY <3>1, <3>2
  <2> DEFINE d == tags'[g].cluster
  <2>5. /\ tags'[g].todo \subseteq Existing(txn')
        /\ d = Internal \/ Batch[d[1]] \subseteq Existing(txn')
        /\ \A t \in Members(txn', d) : t \in tags'[g].todo \/ txn'[t].status = "CLASSIFIED"
    BY <1>3, <2>1, <2>2, <2>3, <2>4
  <2> QED
    BY <2>1, <2>5 DEF TagRight, Imported
<1> QED
  BY <1>6, <1>8, <1>9, <1>10, <1>12, <1>14, <1>15, <1>16, <1>18 DEF TagsRight

-----------------------------------------------------------------------------
(* The theorems. *)

LEMMA InitEstablishes == Init => Inv
<1> SUFFICES ASSUME Init PROVE Inv
  OBVIOUS
<1>1. Existing(txn) = {} /\ plan = None
  BY DEF Init, Existing
<1>2. Internal \in ClusterIds /\ \A f \in Files : \A l \in Txns : <<f, l>> \in ClusterIds
  BY DEF ClusterIds, MerchantIds
<1>3. Typed
  BY NoTagIs DEF Init, Typed, TxnsTyped
<1>4. BatchesWhole
  BY <1>2 DEF Init, BatchesWhole, Txns
<1>5. Quiet
  BY <1>2 DEF Init, Quiet
<1>6. TagsRight
  BY DEF Init, TagsRight, NoTag
<1> QED
  BY <1>1, <1>3, <1>4, <1>5, <1>6 DEF Inv, Shown, OneVerdict, PendingIsQueued, PairedApart, Planned

LEMMA StepKeeps == Inv /\ [Next]_vars => Inv'
<1> SUFFICES ASSUME Inv, [Next]_vars PROVE Inv'
  OBVIOUS
<1>1. ASSUME NEW f \in Files, Plan(f) PROVE Inv'
  BY <1>1, PlanKeeps
<1>2. ASSUME NEW f \in Files, PatchCurrency(f) PROVE Inv'
  BY <1>2, CurrencyKeeps
<1>3. CASE Persist
  BY <1>3, PersistKeeps
<1>4. ASSUME NEW g \in Tags, NEW c \in ClusterIds, NEW cat \in Categories, TagList(g, c, cat) PROVE Inv'
  BY <1>4, TagListKeeps
<1>5. ASSUME NEW g \in Tags, NEW t \in Txns, TagRow(g, t) PROVE Inv'
  BY <1>5, TagRowKeeps
<1>6. ASSUME NEW g \in Tags, TagCluster(g) PROVE Inv'
  BY <1>6, TagClusterKeeps
<1>7. ASSUME NEW g \in Tags, TagFails(g) PROVE Inv'
  BY <1>7, TagFailsKeeps
<1>8. CASE UNCHANGED vars
  <2>1. txn' = txn /\ agg' = agg /\ plan' = plan /\ tags' = tags /\ mixed' = mixed
    BY <1>8 DEF vars
  <2>2. Typed' /\ BatchesWhole' /\ Shown' /\ Quiet' /\ PendingIsQueued' /\ PairedApart' /\ Planned'
    BY <2>1, LedgerStays DEF Inv, Typed
  <2>3. OneVerdict' /\ TagsRight'
    BY <2>1 DEF Inv, OneVerdict, TagsRight, TagRight, UnderWay, Imported, Existing, Members
  <2> QED
    BY <2>2, <2>3 DEF Inv
<1> QED
  BY <1>1, <1>2, <1>3, <1>4, <1>5, <1>6, <1>7, <1>8 DEF Next

LEMMA InvAlways == Spec => []Inv
BY InitEstablishes, StepKeeps, PTL DEF Spec

\* Rows, CLUSTER rows and plans keep their types, whatever is imported, tagged
\* and patched in whatever order.
THEOREM TypeCorrect == Spec => []TypeOK
<1>1. Inv => TypeOK
  <2> SUFFICES ASSUME Inv PROVE TypeOK
    OBVIOUS
  <2>1. plan # None =>
          /\ plan.file \in Files /\ plan.read \in [Txns -> Rows \cup {Absent}]
          /\ Existing(plan.read) \cup Batch[plan.file] = Assigned /\ Assigned \subseteq Txns
          /\ plan.assign \in [Assigned -> Verdicts] /\ plan.legs \subseteq Assigned
          /\ plan.hint \in [ClusterIds -> Categories \cup {None}]
    <3>1. plan # None => plan.file \in Files /\ Existing(plan.read) \cup Batch[plan.file] = Assigned
      BY DEF Inv, Planned, ReadCurrent, Assigned
    <3>2. Existing(txn) \subseteq Txns /\ \A f \in Files : Batch[f] \subseteq Txns
      BY DEF Existing, Txns
    <3>3. plan # None => Assigned \subseteq Txns
      BY <3>1, <3>2 DEF Assigned
    <3> QED
      BY <3>1, <3>3 DEF Inv, Planned, ReadCurrent, PlanTyped
  <2> QED
    BY <2>1 DEF Inv, Typed, TxnsTyped, TypeOK
<1> QED
  BY <1>1, InvAlways, PTL

\* The transactions of a merchant cluster share the verdict that its CLUSTER
\* row shows, unless a tag is writing it, or has failed or met another tag or
\* an import there since the last import or undisturbed tag of the cluster.
THEOREM VerdictsAreShared == Spec => []OneVerdict
BY InvAlways, PTL DEF Inv

\* Whatever waits for review can be found in the review queue.
THEOREM WaitingCanBeFound == Spec => []PendingIsQueued
BY InvAlways, PTL DEF Inv

\* Legs of transfers are in the bucket of transfers, for good, and nothing else
\* is.
THEOREM LegsStayApart == Spec => []PairedApart
BY InvAlways, PTL DEF Inv

\* The in-place and the staged persist make the same rows of every plan.
THEOREM BothPathsAgree == Spec => []PathsAgree
BY InvAlways, PathsAgreeAlways, PTL

LEMMA OnlyPersistEnds == ASSUME Inv, [Next]_vars, plan # None, plan' = None PROVE Persist
BY DEF Next, vars, Plan, PatchCurrency, TagList, TagRow, TagCluster, TagFails

\* A decided transaction outside the bucket of transfers, across a persist.
LEMMA DecidedAfter ==
  ASSUME Inv, Persist, NEW t \in Decided(Existing(plan.read)), ~Leg(t)
  PROVE  /\ t \in Existing(txn') /\ txn'[t].status = "CLASSIFIED"
         /\ txn'[t].category = plan.assign[t].category /\ txn'[t].cluster = plan.assign[t].cluster
         /\ (\A u \in Decided(OldGroup(t)) : plan.read[u].category = plan.read[t].category)
              => txn'[t].category = plan.read[t].category
         /\ plan.hint[plan.assign[t].cluster] \in {None, txn'[t].category}
<1>1. plan # None /\ txn' = RowsAfter(plan)
  BY PersistIs
<1>2. ReadCurrent /\ DecisionsPlanned
  BY <1>1 DEF Inv, Planned
<1>3. t \in Assigned
  BY <1>2 DEF ReadCurrent, Assigned, Decided
<1> QED
  BY <1>1, <1>2, <1>3, RowsAfterAre DEF DecisionsPlanned

\* No import takes back a decision that its group agreed on.
THEOREM DecisionsAreKept == Spec => DecisionKept
<1> DEFINE Kept(t) ==
      plan # None /\ plan' = None /\ t \in Decided(Existing(plan.read)) /\ ~txn'[t].paired =>
        /\ txn'[t].status = "CLASSIFIED"
        /\ Cardinality({plan.read[u].category : u \in Decided(OldGroup(t))}) = 1 =>
             txn'[t].category = plan.read[t].category
<1>1. ASSUME Inv, [Next]_vars PROVE \A t \in Txns : Kept(t)
  <2> SUFFICES ASSUME NEW t \in Txns, plan # None, plan' = None, t \in Decided(Existing(plan.read)),
                      ~txn'[t].paired
               PROVE  /\ txn'[t].status = "CLASSIFIED"
                      /\ Cardinality({plan.read[u].category : u \in Decided(OldGroup(t))}) = 1 =>
                           txn'[t].category = plan.read[t].category
    OBVIOUS
  <2>1. Persist
    BY <1>1, OnlyPersistEnds
  <2>2. ReadCurrent /\ txn' = RowsAfter(plan)
    BY <1>1, <2>1, PersistIs DEF Inv, Planned
  <2>3. t \in Assigned
    BY <2>2 DEF ReadCurrent, Assigned, Decided
  <2>4. ~Leg(t)
    BY <1>1, <2>2, <2>3, RowsAfterAre
  <2> DEFINE S == {plan.read[u].category : u \in Decided(OldGroup(t))}
  <2>5. t \in Decided(OldGroup(t)) /\ plan.read[t].category \in S
    BY DEF Decided, OldGroup
  <2>6. IsFiniteSet(S)
    <3>1. S \in SUBSET Categories
      BY <2>2, ExistingRow DEF ReadCurrent, Decided, OldGroup
    <3> HIDE DEF S
    <3> QED
      BY <3>1, ClusterReviewAssumption, FS_Subset
  <2>7. Cardinality(S) = 1 => \A x \in S : x = plan.read[t].category
    <3> HIDE DEF S
    <3> QED
      BY <2>5, <2>6, FS_Singleton
  <2>8. Cardinality(S) = 1 => \A u \in Decided(OldGroup(t)) : plan.read[u].category = plan.read[t].category
    BY <2>7
  <2> QED
    BY <1>1, <2>1, <2>4, <2>8, DecidedAfter
<1> QED
  BY <1>1, InvAlways, PTL DEF Spec, DecisionKept

\* No import queues a cluster that holds a decided transaction.
THEOREM DecidedStaysOut == Spec => DecidedNotQueued
<1>1. ASSUME Inv, [Next]_vars
      PROVE  \A t \in Txns : plan # None /\ plan' = None /\ t \in Decided(Existing(plan.read)) =>
               ~agg'[txn'[t].cluster].pending
  <2> SUFFICES ASSUME NEW t \in Txns, plan # None, plan' = None, t \in Decided(Existing(plan.read))
               PROVE  ~agg'[txn'[t].cluster].pending
    OBVIOUS
  <2>1. Persist /\ Inv'
    BY <1>1, OnlyPersistEnds, StepKeeps
  <2>2. ReadCurrent /\ PlanTyped /\ txn' = RowsAfter(plan)
    BY <1>1, <2>1, PersistIs DEF Inv, Planned
  <2>3. t \in Assigned /\ t \in Existing(txn')
    BY <1>1, <2>2, RowsAfterAre DEF ReadCurrent, Assigned, Decided
  <2> DEFINE c == txn'[t].cluster
  <2>4. CASE Leg(t)
    <3>1. c = Internal
      BY <1>1, <2>2, <2>3, <2>4, RowsAfterAre
    <3>2. agg'[Internal] # Absent
      BY <2>1, <2>3, <3>1 DEF Inv, Shown, Existing
    <3> QED
      BY <2>1, <3>1, <3>2 DEF Inv, Quiet
  <2>5. CASE ~Leg(t)
    <3>1. c \in ClusterIds /\ c \notin Retired(plan) /\ c \in Live(plan) /\ agg[c] = Absent
      BY <1>1, <2>1, <2>3, <2>5, ClusterAfter
    <3>2. /\ txn'[t].status = "CLASSIFIED" /\ c = plan.assign[t].cluster
          /\ plan.hint[c] \in {None, txn'[t].category} /\ plan.hint[c] \in Categories \cup {None}
      BY <1>1, <2>1, <2>2, <2>5, <3>1, DecidedAfter DEF PlanTyped
    <3>3. /\ txn' \in [Txns -> Rows \cup {Absent}] /\ t \in Members(txn', c)
          /\ \A u \in Members(txn', c) : txn'[u].category = txn'[t].category /\ txn'[u].status = txn'[t].status
      BY <1>1, <2>1, <2>3, <2>5, FreshClusters DEF Inv, Typed, TxnsTyped, Members
    <3> DEFINE assigned == AssignedCategory(txn', c, Stored(agg, c))
    <3>4. Stored(agg, c) = None /\ assigned = txn'[t].category
      BY <1>1, <3>1, <3>2, <3>3, StoredIs, AssignedIs DEF Inv
    <3>5. agg'[c].pending = NeedsReview(txn', c, assigned, plan.hint[c])
      BY <1>1, <2>1, <2>2, <3>1, <3>2, <3>3, <3>4, PersistIs, AggregateIs
    <3>6. \A u \in Members(txn', c) : txn'[u].status # "PENDING_REVIEW"
      BY <3>2, <3>3
    <3> QED
      BY <3>2, <3>4, <3>5, <3>6 DEF NeedsReview
  <2> QED
    BY <2>4, <2>5
<1> QED
  BY <1>1, InvAlways, PTL DEF Spec, DecidedNotQueued

=============================================================================
