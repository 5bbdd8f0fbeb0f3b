----------------------- MODULE TransferPairingProofs ------------------------
(***************************************************************************)
(* For any ledger, any import, any window and any tolerance: the merge     *)
(* yields a timeline ordered by date, the sliding window is exact, and the *)
(* sweep pairs each new row with the nearest claimable leg, if any.        *)
(*                                                                         *)
(* Inv is the inductive invariant, one part per loop: MergeInv says what   *)
(* of the pools is on the timeline and that all of it precedes the rest,   *)
(* HintInv that both hints have only passed legs they may pass, ScanInv    *)
(* that `best` beats all the legs looked at, PairInv what the pairing_ids  *)
(* mean, and PassedInv that a row passed over had nobody to claim.         *)
(***************************************************************************)
EXTENDS TransferPairing, FiniteSetTheorems, TLAPS

Pool == Counterparts \cup New

DateOrdered(s) == \A i, j \in 1..Len(s) : i < j => row[s[i]].date <= row[s[j]].date

PoolInv ==
    /\ row \in Ledgers
    /\ \A t \in Counterparts : \E i \in 1..Len(counterparts) : counterparts[i] = t
    /\ \A t \in New : \E i \in 1..Len(proposals) : proposals[i] = t
    /\ DateOrdered(counterparts) /\ DateOrdered(proposals)

MergeInv ==
    /\ DateOrdered(merged)
    /\ \A i \in 1..Len(merged), k \in ci..Len(counterparts) : Date(i) <= row[counterparts[k]].date
    /\ \A i \in 1..Len(merged), k \in pj..Len(proposals) : Date(i) <= row[proposals[k]].date
    /\ \A k \in 1..(ci - 1) : \E i \in 1..Len(merged) : merged[i] = counterparts[k]
    /\ \A k \in 1..(pj - 1) : \E i \in 1..Len(merged) : merged[i] = proposals[k]
    /\ IF pc = "merge"
       THEN centre = 1 /\ left = 1 /\ right = 1
       ELSE ci = Len(counterparts) + 1 /\ pj = Len(proposals) + 1

\* Both window ends, as far as they have been pushed.
HintInv ==
    /\ centre <= Len(merged) =>
         /\ \A i \in 1..(left - 1) : Date(i) < Date(centre) - HalfWindow
         /\ \A i \in 1..(right - 1) : Date(i) <= Date(centre) + HalfWindow
    /\ pc \in {"left", "right", "scan"} =>
         centre <= Len(merged) /\ Centre \in New \ Paired
    /\ pc \in {"right", "scan"} =>
         left <= right /\ (left <= Len(merged) => Date(left) >= Date(centre) - HalfWindow)
    /\ pc = "scan" =>
         /\ left <= cursor /\ cursor <= right
         /\ right <= Len(merged) => Date(right) > Date(centre) + HalfWindow
    /\ pc = "done" => centre = Len(merged) + 1

ScanInv ==
    pc = "scan" =>
        /\ best # None =>
             /\ Considered(best)
             /\ \E i \in left..(cursor - 1) : merged[i] = best
        /\ \A i \in left..(cursor - 1) :
             Considered(merged[i]) =>
                 best # None /\ (best = merged[i] \/ Nearer(Centre, best, merged[i]))

PairInv ==
    /\ PairsAreWhole
    /\ \A t \in Pool : pairing[t] \in New \cup {None}
    /\ \A t \in Txns : pairing[t] = None => row[t].pairing = None

PassedInv ==
    \A i \in 1..(centre - 1) :
        pc # "merge" /\ merged[i] \in New /\ pairing[merged[i]] = None =>
            \A t \in Pool : ~Claimable(merged[i], t)

Inv == TypeOK /\ PoolInv /\ MergeInv /\ HintInv /\ ScanInv /\ PairInv /\ PassedInv

-----------------------------------------------------------------------------
LEMMA RowTypes ==
  ASSUME row \in Ledgers
  PROVE  /\ row \in [Txns -> Rows]
         /\ \A t \in Txns : row[t].date \in Int /\ row[t].amount \in Int
         /\ \A t \in Pool : t \in Txns /\ t \in Nat /\ t # None /\ row[t].account \in Nat
<1>1. row \in [Txns -> Rows]
  BY TransferPairingAssumption
<1>2. \A t \in New : row[t].account # NoAccount
  BY TransferPairingAssumption
<1>3. \A t \in Txns : /\ row[t].date \in Int /\ row[t].amount \in Int
                      /\ row[t].account \in Nat \cup {NoAccount}
  BY <1>1 DEF Rows
<1>4. \A t \in Pool : t \in Txns /\ row[t].account # NoAccount
  BY <1>2 DEF Pool, Counterparts, Txns
<1> QED
  BY <1>1, <1>3, <1>4, TransferPairingAssumption DEF Txns

\* What the sort returns.
LEMMA SortedFacts ==
  ASSUME NEW S, IsFiniteSet(S), NEW s \in Sorted(S), S \subseteq Txns, row \in Ledgers
  PROVE  /\ s \in Seq(S)
         /\ \A t \in S : \E i \in 1..Len(s) : s[i] = t
         /\ DateOrdered(s)
<1>1. Cardinality(S) \in Nat
  BY FS_CardinalityType
<1>2. s \in [1..Cardinality(S) -> S]
  BY DEF Sorted
<1>3. s \in Seq(S) /\ DOMAIN s = 1..Len(s)
  BY <1>1, <1>2
<1>4. \A t \in S : \E i \in 1..Len(s) : s[i] = t
  BY <1>3 DEF Sorted
<1>5. DateOrdered(s)
  <2>1. \A i, j \in 1..Len(s) : i < j => Precedes(s[i], s[j])
    BY <1>3 DEF Sorted
  <2>2. \A i \in 1..Len(s) : row[s[i]].date \in Int
    BY <1>3, RowTypes
  <2> QED
    BY <2>1, <2>2 DEF DateOrdered, Precedes
<1> QED
  BY <1>3, <1>4, <1>5

LEMMA InitInv == Init => Inv
<1> SUFFICES ASSUME Init PROVE Inv
  OBVIOUS
<1>1. row \in Ledgers
  BY DEF Init
<1>2. Counterparts \subseteq Existing /\ IsFiniteSet(Counterparts) /\ IsFiniteSet(New)
  BY FS_Subset, TransferPairingAssumption DEF Counterparts
<1>3. Counterparts \subseteq Txns /\ New \subseteq Txns
  BY <1>2 DEF Txns
<1>4. counterparts \in Sorted(Counterparts) /\ proposals \in Sorted(New)
  BY DEF Init
<1>5. PoolInv /\ counterparts \in Seq(Counterparts) /\ proposals \in Seq(New)
  BY <1>1, <1>2, <1>3, <1>4, SortedFacts DEF PoolInv
<1>6. merged = <<>> /\ Len(merged) = 0
  BY DEF Init
<1>7. \A t \in Txns : pairing[t] = row[t].pairing /\ row[t].pairing \in Existing \cup {None}
  BY <1>1, RowTypes DEF Init, Rows
<1>8. TypeOK
  <2>1. row \in [Txns -> Rows] /\ pairing \in [Txns -> Txns \cup {None}]
    BY <1>1, <1>7, RowTypes DEF Init, Txns
  <2>2. merged \in Seq(Counterparts \cup New)
    BY <1>6
  <2> QED
    BY <1>5, <1>6, <2>1, <2>2 DEF Init, TypeOK, Phases
<1>9. MergeInv
  BY <1>5, <1>6 DEF Init, MergeInv, DateOrdered
<1>10. HintInv /\ ScanInv /\ PassedInv
  BY <1>6 DEF Init, HintInv, ScanInv, PassedInv
<1>11. PairInv
  <2>1. \A t \in Txns : pairing[t] \notin New
    BY <1>7, TransferPairingAssumption
  <2>2. \A t \in New : pairing[t] = None
    BY <1>1, <1>3, <1>7, TransferPairingAssumption
  <2>3. \A t \in Counterparts : pairing[t] = None
    BY <1>3, <1>7 DEF Counterparts
  <2> QED
    BY <1>7, <2>1, <2>2, <2>3 DEF PairInv, PairsAreWhole, Pool
<1> QED
  BY <1>5, <1>8, <1>9, <1>10, <1>11 DEF Inv

-----------------------------------------------------------------------------
(* Preservation, part by part. *)

\* The inputs stay what they are.
LEMMA PoolsKept ==
  ASSUME [Next]_vars
  PROVE  /\ row' = row /\ counterparts' = counterparts /\ proposals' = proposals
         /\ Counterparts' = Counterparts /\ Pool' = Pool
<1>1. UNCHANGED pools
  BY DEF Next, vars, MergeCounterpart, MergeProposal, MergeDone, SkipCentre, StartCentre,
         SweepDone, MoveLeft, MoveRight, Scan, Pair
<1>2. row' = row /\ counterparts' = counterparts /\ proposals' = proposals
  BY <1>1 DEF pools
<1>3. Counterparts' = Counterparts
  BY <1>2 DEF Counterparts, TouchesImport, Apart
<1> QED
  BY <1>2, <1>3 DEF Pool

LEMMA PoolStep == ASSUME Inv, [Next]_vars PROVE PoolInv'
  BY PoolsKept DEF Inv, PoolInv, DateOrdered

\* One leg is put at the end of the timeline.
LEMMA MergeStepFacts ==
  ASSUME Inv, MergeCounterpart \/ MergeProposal
  PROVE  \E x \in Pool :
           /\ merged' \in Seq(Pool) /\ Len(merged') = Len(merged) + 1
           /\ merged'[Len(merged) + 1] = x
           /\ \A i \in 1..Len(merged) : merged'[i] = merged[i]
           /\ MergeCounterpart => x = counterparts[ci]
           /\ MergeProposal => x = proposals[pj]
<1>1. merged \in Seq(Pool)
  BY DEF Inv, TypeOK, Pool
<1>2. ASSUME NEW x \in Pool, merged' = Append(merged, x)
      PROVE  /\ merged' \in Seq(Pool) /\ Len(merged') = Len(merged) + 1
             /\ merged'[Len(merged) + 1] = x
             /\ \A i \in 1..Len(merged) : merged'[i] = merged[i]
  BY <1>1, <1>2
<1>3. CASE MergeCounterpart
  <2>1. counterparts[ci] \in Pool /\ ci' = ci + 1 /\ ci \in Nat
    BY <1>3 DEF Inv, TypeOK, MergeCounterpart, Pool
  <2>2. ~MergeProposal
    BY <1>3, <2>1 DEF MergeCounterpart, MergeProposal
  <2> QED
    BY <1>2, <1>3, <2>1, <2>2 DEF MergeCounterpart
<1>4. CASE MergeProposal
  <2>1. proposals[pj] \in Pool /\ pj' = pj + 1 /\ pj \in Nat
    BY <1>4 DEF Inv, TypeOK, MergeProposal, Pool
  <2>2. ~MergeCounterpart
    BY <1>4, <2>1 DEF MergeCounterpart, MergeProposal
  <2> QED
    BY <1>2, <1>4, <2>1, <2>2 DEF MergeProposal
<1> QED
  BY <1>3, <1>4

LEMMA TypeStep == ASSUME Inv, [Next]_vars PROVE TypeOK'
<1> USE DEF TypeOK, Phases, pools, window
<1>1. TypeOK
  BY DEF Inv
<1>2. /\ row' = row /\ counterparts' = counterparts /\ proposals' = proposals
      /\ Counterparts' = Counterparts
  BY PoolsKept
<1>3. CASE MergeCounterpart \/ MergeProposal
  <2>1. merged' \in Seq(Counterparts \cup New) /\ Len(merged') = Len(merged) + 1
    BY <1>3, MergeStepFacts DEF Pool
  <2>2. Len(merged) \in Nat /\ Len(counterparts) \in Nat /\ Len(proposals) \in Nat
    BY <1>1
  <2>3. ci' \in 1..(Len(counterparts') + 1) /\ pj' \in 1..(Len(proposals') + 1)
    BY <1>1, <1>2, <1>3, <2>2 DEF MergeCounterpart, MergeProposal
  <2>4. {centre, left, right, cursor}' \subseteq 1..(Len(merged') + 1)
    BY <1>1, <1>3, <2>1, <2>2 DEF MergeCounterpart, MergeProposal
  <2> QED
    BY <1>1, <1>2, <1>3, <2>1, <2>3, <2>4 DEF MergeCounterpart, MergeProposal
<1>4. CASE MergeDone \/ SkipCentre \/ StartCentre \/ SweepDone
  BY <1>1, <1>2, <1>4 DEF MergeDone, SkipCentre, StartCentre, SweepDone
<1>5. CASE MoveLeft
  BY <1>1, <1>2, <1>5 DEF MoveLeft
<1>6. CASE MoveRight
  BY <1>1, <1>2, <1>6 DEF MoveRight
<1>7. CASE Scan
  <2>1. cursor <= Len(merged) /\ cursor + 1 \in 1..(Len(merged) + 1)
    BY <1>1, <1>7 DEF Scan
  <2>2. merged[cursor] \in Counterparts \cup New
    BY <1>1, <2>1
  <2> QED
    BY <1>1, <1>2, <1>7, <2>1, <2>2 DEF Scan
<1>8. CASE Pair
  <2>1. centre <= Len(merged) /\ Centre \in New
    BY <1>8 DEF Pair, Inv, HintInv
  <2>2. pairing' \in [Txns -> Txns \cup {None}]
    BY <1>1, <1>8, <2>1 DEF Pair, Txns
  <2> QED
    BY <1>1, <1>2, <1>8, <2>1, <2>2 DEF Pair
<1>9. CASE UNCHANGED vars
  BY <1>1, <1>2, <1>9 DEF vars
<1> QED
  BY <1>3, <1>4, <1>5, <1>6, <1>7, <1>8, <1>9 DEF Next

LEMMA MergeStep == ASSUME Inv, [Next]_vars PROVE MergeInv'
<1> USE DEF pools, window
<1>1. /\ row' = row /\ counterparts' = counterparts /\ proposals' = proposals
  BY PoolsKept
<1>2. /\ ci \in 1..(Len(counterparts) + 1) /\ pj \in 1..(Len(proposals) + 1)
      /\ Len(merged) \in Nat /\ Len(counterparts) \in Nat /\ Len(proposals) \in Nat
  BY DEF Inv, TypeOK
<1>3. MergeInv /\ DateOrdered(counterparts) /\ DateOrdered(proposals)
  BY DEF Inv, PoolInv
<1>4. /\ \A i \in 1..Len(merged) : Date(i) \in Int
      /\ \A k \in 1..Len(counterparts) : row[counterparts[k]].date \in Int
      /\ \A k \in 1..Len(proposals) : row[proposals[k]].date \in Int
  <2>1. merged \in Seq(Pool) /\ counterparts \in Seq(Counterparts) /\ proposals \in Seq(New)
    BY DEF Inv, TypeOK, Pool
  <2>2. \A t \in Pool : row[t].date \in Int
    BY RowTypes DEF Inv, PoolInv
  <2> QED
    BY <1>2, <2>1, <2>2 DEF Date, Pool
\* The leg that is taken is the earlier of the two heads, hence no later than any leg
\* that remains in either pool.
<1>5. ASSUME NEW x \in Pool, Len(merged') = Len(merged) + 1, merged'[Len(merged) + 1] = x,
             \A i \in 1..Len(merged) : merged'[i] = merged[i],
             \A i \in 1..Len(merged) : Date(i) <= row[x].date
      PROVE  DateOrdered(merged)'
  <2> SUFFICES ASSUME NEW i \in 1..Len(merged'), NEW j \in 1..Len(merged'), i < j
               PROVE  row[merged'[i]].date <= row[merged'[j]].date
    BY <1>1 DEF DateOrdered
  <2>1. i \in 1..Len(merged) /\ merged'[i] = merged[i]
    BY <1>2, <1>5
  <2>2. CASE j = Len(merged) + 1
    BY <1>5, <2>1, <2>2 DEF Date
  <2>3. CASE j # Len(merged) + 1
    <3>1. j \in 1..Len(merged) /\ merged'[j] = merged[j]
      BY <1>2, <1>5, <2>3
    <3> QED
      BY <1>3, <2>1, <3>1 DEF MergeInv, DateOrdered
  <2> QED
    BY <2>2, <2>3
<1>6. CASE MergeCounterpart
  <2> DEFINE x == counterparts[ci]
  <2>1. /\ x \in Pool /\ Len(merged') = Len(merged) + 1 /\ merged'[Len(merged) + 1] = x
        /\ \A i \in 1..Len(merged) : merged'[i] = merged[i]
    BY <1>6, MergeStepFacts
  <2>2. pc = "merge" /\ ci <= Len(counterparts) /\ ci' = ci + 1 /\ pj' = pj /\ pc' = pc
        /\ centre' = centre /\ left' = left /\ right' = right
    BY <1>6 DEF MergeCounterpart
  <2>3. \A i \in 1..Len(merged) : Date(i) <= row[x].date
    <3>1. ci \in ci..Len(counterparts)
      BY <1>2, <2>2
    <3> QED
      BY <1>3, <3>1 DEF MergeInv
  <2>4. \A k \in ci..Len(counterparts) : row[x].date <= row[counterparts[k]].date
    BY <1>2, <1>3, <1>4, <2>2 DEF DateOrdered
  <2>5. \A k \in pj..Len(proposals) : row[x].date <= row[proposals[k]].date
    <3>1. pj <= Len(proposals) => row[x].date <= row[proposals[pj]].date
      BY <1>2, <1>4, <1>6, <2>2 DEF MergeCounterpart, Precedes
    <3> QED
      BY <1>2, <1>3, <1>4, <2>2, <3>1 DEF DateOrdered
  <2>6. DateOrdered(merged)'
    BY <1>5, <2>1, <2>3
  <2>7. \A i \in 1..Len(merged') :
          /\ \A k \in ci'..Len(counterparts) : row[merged'[i]].date <= row[counterparts[k]].date
          /\ \A k \in pj'..Len(proposals) : row[merged'[i]].date <= row[proposals[k]].date
    <3> TAKE i \in 1..Len(merged')
    <3>1. CASE i = Len(merged) + 1
      BY <1>2, <2>1, <2>2, <2>4, <2>5, <3>1
    <3>2. CASE i # Len(merged) + 1
      <4>1. i \in 1..Len(merged) /\ merged'[i] = merged[i]
        BY <1>2, <2>1, <3>2
      <4> QED
        BY <1>2, <1>3, <2>2, <4>1 DEF MergeInv, Date
    <3> QED
      BY <3>1, <3>2
  <2>8. \A k \in 1..(ci' - 1) : \E i \in 1..Len(merged') : merged'[i] = counterparts[k]
    <3> TAKE k \in 1..(ci' - 1)
    <3>1. CASE k = ci
      <4>1. Len(merged) + 1 \in 1..Len(merged') /\ merged'[Len(merged) + 1] = counterparts[k]
        BY <1>2, <2>1, <3>1
      <4> QED
        BY <4>1
    <3>2. CASE k # ci
      <4>1. k \in 1..(ci - 1)
        BY <1>2, <2>2, <3>2
      <4>2. PICK i \in 1..Len(merged) : merged[i] = counterparts[k]
        BY <1>3, <4>1 DEF MergeInv
      <4> QED
        BY <1>2, <2>1, <4>2
    <3> QED
      BY <3>1, <3>2
  <2>9. \A k \in 1..(pj' - 1) : \E i \in 1..Len(merged') : merged'[i] = proposals[k]
    <3> TAKE k \in 1..(pj' - 1)
    <3>1. PICK i \in 1..Len(merged) : merged[i] = proposals[k]
      BY <1>3, <2>2 DEF MergeInv
    <3>2. i \in 1..Len(merged') /\ merged'[i] = proposals[k]
      BY <1>2, <2>1, <3>1
    <3> QED
      BY <3>2
  <2> QED
    BY <1>1, <1>3, <2>2, <2>6, <2>7, <2>8, <2>9 DEF MergeInv, Date
<1>7. CASE MergeProposal
  <2> DEFINE x == proposals[pj]
  <2>1. /\ x \in Pool /\ Len(merged') = Len(merged) + 1 /\ merged'[Len(merged) + 1] = x
        /\ \A i \in 1..Len(merged) : merged'[i] = merged[i]
    BY <1>7, MergeStepFacts
  <2>2. pc = "merge" /\ pj <= Len(proposals) /\ pj' = pj + 1 /\ ci' = ci /\ pc' = pc
        /\ centre' = centre /\ left' = left /\ right' = right
    BY <1>7 DEF MergeProposal
  <2>3. \A i \in 1..Len(merged) : Date(i) <= row[x].date
    <3>1. pj \in pj..Len(proposals)
      BY <1>2, <2>2
    <3> QED
      BY <1>3, <3>1 DEF MergeInv
  <2>4. \A k \in pj..Len(proposals) : row[x].date <= row[proposals[k]].date
    BY <1>2, <1>3, <1>4, <2>2 DEF DateOrdered
  <2>5. \A k \in ci..Len(counterparts) : row[x].date <= row[counterparts[k]].date
    <3>1. ci <= Len(counterparts) => row[x].date <= row[counterparts[ci]].date
      BY <1>2, <1>4, <1>7, <2>2 DEF MergeProposal, Precedes
    <3> QED
      BY <1>2, <1>3, <1>4, <2>2, <3>1 DEF DateOrdered
  <2>6. DateOrdered(merged)'
    BY <1>5, <2>1, <2>3
  <2>7. \A i \in 1..Len(merged') :
          /\ \A k \in ci'..Len(counterparts) : row[merged'[i]].date <= row[counterparts[k]].date
          /\ \A k \in pj'..Len(proposals) : row[merged'[i]].date <= row[proposals[k]].date
    <3> TAKE i \in 1..Len(merged')
    <3>1. CASE i = Len(merged) + 1
      BY <1>2, <2>1, <2>2, <2>4, <2>5, <3>1
    <3>2. CASE i # Len(merged) + 1
      <4>1. i \in 1..Len(merged) /\ merged'[i] = merged[i]
        BY <1>2, <2>1, <3>2
      <4> QED
        BY <1>2, <1>3, <2>2, <4>1 DEF MergeInv, Date
    <3> QED
      BY <3>1, <3>2
  <2>8. \A k \in 1..(ci' - 1) : \E i \in 1..Len(merged') : merged'[i] = counterparts[k]
    <3> TAKE k \in 1..(ci' - 1)
    <3>1. PICK i \in 1..Len(merged) : merged[i] = counterparts[k]
      BY <1>3, <2>2 DEF MergeInv
    <3>2. i \in 1..Len(merged') /\ merged'[i] = counterparts[k]
      BY <1>2, <2>1, <3>1
    <3> QED
      BY <3>2
  <2>9. \A k \in 1..(pj' - 1) : \E i \in 1..Len(merged') : merged'[i] = proposals[k]
    <3> TAKE k \in 1..(pj' - 1)
    <3>1. CASE k = pj
      <4>1. Len(merged) + 1 \in 1..Len(merged') /\ merged'[Len(merged) + 1] = proposals[k]
        BY <1>2, <2>1, <3>1
      <4> QED
        BY <4>1
    <3>2. CASE k # pj
      <4>1. k \in 1..(pj - 1)
        BY <1>2, <2>2, <3>2
      <4>2. PICK i \in 1..Len(merged) : merged[i] = proposals[k]
        BY <1>3, <4>1 DEF MergeInv
      <4> QED
        BY <1>2, <2>1, <4>2
    <3> QED
      BY <3>1, <3>2
  <2> QED
    BY <1>1, <1>3, <2>2, <2>6, <2>7, <2>8, <2>9 DEF MergeInv, Date
<1>8. CASE ~MergeCounterpart /\ ~MergeProposal
  <2>1. merged' = merged /\ ci' = ci /\ pj' = pj
    BY <1>8 DEF Next, vars, MergeDone, SkipCentre, StartCentre, SweepDone, MoveLeft,
                MoveRight, Scan, Pair
  <2>2. IF pc' = "merge"
        THEN centre' = 1 /\ left' = 1 /\ right' = 1
        ELSE ci = Len(counterparts) + 1 /\ pj = Len(proposals) + 1
    BY <1>2, <1>3, <1>8 DEF MergeInv, Next, vars, MergeDone, SkipCentre, StartCentre,
                            SweepDone, MoveLeft, MoveRight, Scan, Pair
  <2> QED
    BY <1>1, <1>3, <2>1, <2>2 DEF MergeInv, DateOrdered, Date
<1> QED
  BY <1>6, <1>7, <1>8

LEMMA TimelineKept ==
  ASSUME [Next]_vars, ~MergeCounterpart, ~MergeProposal PROVE merged' = merged
  BY DEF Next, vars, MergeDone, SkipCentre, StartCentre, SweepDone, MoveLeft, MoveRight,
         Scan, Pair

\* The dates along the timeline.
LEMMA TimelineDates ==
  ASSUME Inv
  PROVE  /\ Len(merged) \in Nat
         /\ \A i \in 1..Len(merged) : merged[i] \in Pool /\ Date(i) \in Int
         /\ \A i, j \in 1..Len(merged) : i <= j => Date(i) <= Date(j)
         /\ HalfWindow \in Nat
<1>1. merged \in Seq(Pool)
  BY DEF Inv, TypeOK, Pool
<1>2. \A t \in Pool : row[t].date \in Int
  BY RowTypes DEF Inv, PoolInv
<1>3. \A i \in 1..Len(merged) : merged[i] \in Pool /\ Date(i) \in Int
  BY <1>1, <1>2 DEF Date
<1>4. \A i, j \in 1..Len(merged) : i < j => Date(i) <= Date(j)
  BY DEF Inv, MergeInv, DateOrdered, Date
<1> QED
  BY <1>1, <1>3, <1>4, TransferPairingAssumption

\* The hints stay valid because the next centre is no earlier than the last.
LEMMA HintStep == ASSUME Inv, [Next]_vars PROVE HintInv'
<1> USE DEF pools, window
<1>1. HintInv /\ TypeOK
  BY DEF Inv
<1>2. CASE MergeCounterpart \/ MergeProposal
  <2>1. pc' = "merge" /\ left' = 1 /\ right' = 1
    BY <1>2 DEF MergeCounterpart, MergeProposal, Inv, MergeInv
  <2> QED
    BY <2>1 DEF HintInv
<1>3. CASE ~MergeCounterpart /\ ~MergeProposal
  <2>1. merged' = merged /\ row' = row
    BY <1>3, TimelineKept, PoolsKept
  <2>2. \A i : Date(i)' = row[merged[i]].date /\ Date(i) = row[merged[i]].date
    BY <2>1 DEF Date
  <2>3. /\ Len(merged) \in Nat /\ centre \in 1..(Len(merged) + 1)
        /\ left \in 1..(Len(merged) + 1) /\ right \in 1..(Len(merged) + 1)
    BY <1>1, TimelineDates DEF TypeOK
  <2>4. CASE MergeDone \/ SweepDone
    BY <1>1, <2>1, <2>2, <2>3, <2>4 DEF MergeDone, SweepDone, HintInv, Inv, MergeInv
  <2>5. CASE StartCentre
    BY <1>1, <2>1, <2>2, <2>5 DEF StartCentre, HintInv, Centre, Paired
  <2>6. ASSUME centre' = centre + 1, left' = left, right' = right, pc' = "centre",
               centre <= Len(merged)
        PROVE  HintInv'
    <3>1. centre' <= Len(merged) =>
            Date(centre)' \in Int /\ Date(centre) \in Int /\ Date(centre) <= Date(centre)'
      BY <2>1, <2>3, <2>6, TimelineDates DEF Date
    <3>2. \A i \in 1..Len(merged) : Date(i) \in Int /\ Date(i)' = Date(i)
      BY <2>2, TimelineDates
    <3>3. ASSUME centre' <= Len(merged) PROVE
            /\ \A i \in 1..(left - 1) : Date(i)' < Date(centre)' - HalfWindow
            /\ \A i \in 1..(right - 1) : Date(i)' <= Date(centre)' + HalfWindow
      <4>1. /\ \A i \in 1..(left - 1) : Date(i) < Date(centre) - HalfWindow
            /\ \A i \in 1..(right - 1) : Date(i) <= Date(centre) + HalfWindow
        BY <1>1, <2>6 DEF HintInv
      <4>2. /\ \A i \in 1..(left - 1) : i \in 1..Len(merged)
            /\ \A i \in 1..(right - 1) : i \in 1..Len(merged)
        BY <2>3
      <4> QED
        BY <3>1, <3>2, <3>3, <4>1, <4>2, TimelineDates
    <3> QED
      BY <2>1, <2>6, <3>3 DEF HintInv
  <2>7. CASE SkipCentre
    BY <2>6, <2>7 DEF SkipCentre
  <2>8. CASE Pair
    BY <1>1, <2>6, <2>8 DEF Pair, HintInv
  \* The other three stay with their centre, whose window they move or search.
  <2>9. ASSUME centre' = centre, pairing' = pairing, pc \in {"left", "right", "scan"}
         PROVE  /\ \A i : Date(i)' = Date(i)
                /\ Date(centre)' = Date(centre) /\ Date(centre) \in Int
                /\ (Centre \in New \ Paired)' /\ centre <= Len(merged)
                /\ \A i \in 1..(left - 1) : Date(i) < Date(centre) - HalfWindow
                /\ \A i \in 1..(right - 1) : Date(i) <= Date(centre) + HalfWindow
    <3>1. Centre \in New \ Paired /\ centre <= Len(merged)
      BY <1>1, <2>9 DEF HintInv
    <3>2. (Centre \in New \ Paired)'
      BY <2>1, <2>9, <3>1 DEF Centre, Paired
    <3>3. Date(centre)' = Date(centre) /\ Date(centre) \in Int
      BY <2>1, <2>3, <2>9, <3>1, TimelineDates DEF Date
    <3> QED
      BY <1>1, <2>2, <3>1, <3>2, <3>3 DEF HintInv
  <2>10. CASE MoveLeft
    <3>1. centre' = centre /\ pairing' = pairing /\ pc = "left"
      BY <2>10 DEF MoveLeft
    <3>2. CASE left <= Len(merged) /\ Date(left) < Date(centre) - HalfWindow
      <4>1. left' = left + 1 /\ right' = right /\ pc' = "left"
        BY <2>10, <3>1, <3>2 DEF MoveLeft
      <4>2. \A i \in 1..(left' - 1) : Date(i) < Date(centre) - HalfWindow
        BY <2>3, <2>9, <3>1, <3>2, <4>1
      <4> QED
        BY <2>1, <2>9, <3>1, <4>1, <4>2 DEF HintInv
    <3>3. CASE ~(left <= Len(merged) /\ Date(left) < Date(centre) - HalfWindow)
      <4>1. left' = left /\ pc' = "right" /\ right' = IF right < left THEN left ELSE right
        BY <2>10, <3>3 DEF MoveLeft
      <4>2. left <= Len(merged) => Date(left) >= Date(centre) - HalfWindow
        BY <2>3, <2>9, <3>1, <3>3, TimelineDates
      <4>3. \A i \in 1..(right' - 1) : Date(i) <= Date(centre) + HalfWindow
        <5> TAKE i \in 1..(right' - 1)
        <5>1. i \in 1..Len(merged) /\ (i \in 1..(left - 1) \/ i \in 1..(right - 1))
          BY <2>3, <4>1
        <5> QED
          BY <2>9, <3>1, <5>1, TimelineDates
      <4> QED
        BY <2>1, <2>3, <2>9, <3>1, <4>1, <4>2, <4>3 DEF HintInv
    <3> QED
      BY <3>2, <3>3
  <2>11. CASE MoveRight
    <3>1. /\ centre' = centre /\ pairing' = pairing /\ left' = left /\ pc = "right"
          /\ left <= right /\ (left <= Len(merged) => Date(left) >= Date(centre) - HalfWindow)
      BY <1>1, <2>11 DEF MoveRight, HintInv
    <3>2. CASE right <= Len(merged) /\ Date(right) <= Date(centre) + HalfWindow
      <4>1. right' = right + 1 /\ pc' = "right"
        BY <2>11, <3>1, <3>2 DEF MoveRight
      <4>2. \A i \in 1..(right' - 1) : Date(i) <= Date(centre) + HalfWindow
        BY <2>3, <2>9, <3>1, <3>2, <4>1
      <4>3. left <= right'
        BY <2>3, <3>1, <4>1
      <4> QED
        BY <2>1, <2>9, <3>1, <4>1, <4>2, <4>3 DEF HintInv
    <3>3. CASE ~(right <= Len(merged) /\ Date(right) <= Date(centre) + HalfWindow)
      <4>1. right' = right /\ pc' = "scan" /\ cursor' = left
        BY <2>11, <3>3 DEF MoveRight
      <4>2. right <= Len(merged) => Date(right) > Date(centre) + HalfWindow
        BY <2>3, <2>9, <3>1, <3>3, TimelineDates
      <4>3. left <= cursor' /\ cursor' <= right
        BY <2>3, <3>1, <4>1
      <4> QED
        BY <2>1, <2>9, <3>1, <4>1, <4>2, <4>3 DEF HintInv
    <3> QED
      BY <3>2, <3>3
  <2>12. CASE Scan
    <3>1. /\ centre' = centre /\ pairing' = pairing /\ left' = left /\ right' = right
          /\ pc = "scan" /\ pc' = pc /\ cursor' = cursor + 1 /\ cursor < right
      BY <2>12 DEF Scan
    <3>2. left <= cursor' /\ cursor' <= right
      BY <1>1, <2>3, <3>1 DEF HintInv, TypeOK
    <3> QED
      BY <1>1, <2>1, <2>9, <3>1, <3>2 DEF HintInv
  <2>13. CASE UNCHANGED vars
    BY <1>1, <2>2, <2>13 DEF vars, HintInv, Centre, Paired
  <2> QED
    BY <1>3, <2>4, <2>5, <2>7, <2>8, <2>10, <2>11, <2>12, <2>13 DEF Next
<1> QED
  BY <1>2, <1>3

LEMMA WindowLemma == Inv => WindowExact
<1> SUFFICES ASSUME Inv, pc = "scan", NEW i \in 1..Len(merged)
             PROVE  i \in left..(right - 1) <=> Apart(merged[i], Centre) <= HalfWindow
  BY DEF WindowExact
<1>1. /\ centre \in 1..Len(merged)
      /\ left \in 1..(Len(merged) + 1) /\ right \in 1..(Len(merged) + 1)
  BY TimelineDates DEF Inv, TypeOK, HintInv
<1>2. Apart(merged[i], Centre) = Abs(Date(i) - Date(centre))
  BY DEF Apart, Centre, Date
<1>3. Date(i) \in Int /\ Date(centre) \in Int /\ HalfWindow \in Nat
  BY <1>1, TimelineDates
<1>4. Apart(merged[i], Centre) <= HalfWindow <=>
        Date(i) >= Date(centre) - HalfWindow /\ Date(i) <= Date(centre) + HalfWindow
  BY <1>2, <1>3 DEF Abs
<1>5. /\ i < left => Date(i) < Date(centre) - HalfWindow
      /\ i < right => Date(i) <= Date(centre) + HalfWindow
      /\ left <= Len(merged) => Date(left) >= Date(centre) - HalfWindow
      /\ right <= Len(merged) => Date(right) > Date(centre) + HalfWindow
  BY <1>1, TimelineDates DEF Inv, HintInv
<1>6. i >= left => Date(i) >= Date(centre) - HalfWindow
  <2>1. ASSUME i >= left PROVE left \in 1..Len(merged) /\ Date(left) <= Date(i)
    BY <1>1, <2>1, TimelineDates
  <2> QED
    BY <1>3, <1>5, <2>1, TimelineDates
<1>7. i >= right => Date(i) > Date(centre) + HalfWindow
  <2>1. ASSUME i >= right PROVE right \in 1..Len(merged) /\ Date(right) <= Date(i)
    BY <1>1, <2>1, TimelineDates
  <2> QED
    BY <1>3, <1>5, <2>1, TimelineDates
<1> QED
  BY <1>1, <1>3, <1>4, <1>5, <1>6, <1>7, TimelineDates

\* The order of preference among partners is a strict total order.
LEMMA NearerOrder ==
  ASSUME row \in Ledgers, NEW a \in Pool, NEW b \in Pool, NEW c \in Pool, NEW d \in Pool
  PROVE  /\ Nearer(a, b, c) /\ Nearer(a, c, d) => Nearer(a, b, d)
         /\ b = c \/ Nearer(a, b, c) \/ Nearer(a, c, b)
<1>1. \A t \in Pool : t \in Int /\ row[t].account \in Int /\ row[t].date \in Int
  BY RowTypes
<1>2. \A t \in Pool : Apart(a, t) \in Int
  BY <1>1 DEF Apart, Abs
<1> QED
  BY <1>1, <1>2 DEF Nearer, KeyLess

LEMMA ScanStep == ASSUME Inv, [Next]_vars PROVE ScanInv'
<1> USE DEF pools, window
<1>1. ScanInv /\ TypeOK
  BY DEF Inv
<1>2. CASE pc' # "scan"
  BY <1>2 DEF ScanInv
<1>3. ASSUME pc' = "scan" PROVE MoveRight \/ Scan \/ UNCHANGED vars
  BY <1>1, <1>3 DEF Next, vars, MergeCounterpart, MergeProposal, MergeDone, SkipCentre,
                    StartCentre, SweepDone, MoveLeft, Pair
<1>4. ASSUME row' = row, merged' = merged, centre' = centre, pairing' = pairing
      PROVE  /\ \A t : Considered(t)' <=> Considered(t)
             /\ \A b, c : Nearer(Centre, b, c)' <=> Nearer(Centre, b, c)
             /\ Centre' = Centre
  BY <1>4 DEF Considered, Eligible, Compatible, LegCurrency, Paired, Centre, Nearer, Apart,
              KeyLess
<1>5. CASE MoveRight /\ pc' = "scan"
  <2>1. cursor' = left /\ left' = left /\ best' = None
    BY <1>5 DEF MoveRight
  <2>2. \A i \in left..(left - 1) : FALSE
    BY <1>1 DEF TypeOK
  <2> QED
    BY <2>1, <2>2 DEF ScanInv
<1>6. CASE Scan
  <2> DEFINE t == merged[cursor]
  <2>1. /\ row' = row /\ merged' = merged /\ centre' = centre /\ pairing' = pairing
        /\ left' = left /\ pc = "scan" /\ pc' = "scan" /\ cursor' = cursor + 1
        /\ best' = IF Considered(t) /\ (best = None \/ Nearer(Centre, t, best))
                   THEN t ELSE best
    BY <1>6 DEF Scan
  <2>2. left \in Nat /\ cursor \in Nat /\ left <= cursor /\ cursor \in 1..Len(merged)
    BY <1>1, <1>6, TimelineDates DEF Scan, TypeOK, Inv, HintInv
  <2>3. \A i \in left'..(cursor' - 1) : i = cursor \/ i \in left..(cursor - 1)
    BY <2>1, <2>2
  <2>4. /\ cursor \in left'..(cursor' - 1)
        /\ \A i \in left..(cursor - 1) : i \in left'..(cursor' - 1)
    BY <2>1, <2>2
  <2>5. /\ Centre \in Pool /\ t \in Pool /\ t # None
        /\ \A i \in left..(cursor - 1) : merged[i] \in Pool
    <3>1. Centre \in New
      BY <2>1 DEF Inv, HintInv
    <3>2. \A i \in left..(cursor - 1) : i \in 1..Len(merged)
      BY <1>1, <2>2, TimelineDates DEF TypeOK
    <3> QED
      BY <2>2, <3>1, <3>2, TimelineDates, RowTypes DEF Pool, Inv, PoolInv
  <2>6. best # None => best \in Pool
    BY <1>1 DEF TypeOK, Pool
  <2>7. row \in Ledgers
    BY DEF Inv, PoolInv
  <2>8. best' # None => Considered(best') /\ \E i \in left'..(cursor' - 1) : merged[i] = best'
    BY <1>1, <2>1, <2>4 DEF ScanInv
  <2>9. ASSUME NEW i \in left'..(cursor' - 1), Considered(merged[i])
        PROVE  best' # None /\ (best' = merged[i] \/ Nearer(Centre, best', merged[i]))
    <3>1. CASE i = cursor
      BY <2>1, <2>5, <2>6, <2>7, <2>9, <3>1, NearerOrder
    <3>2. CASE i \in left..(cursor - 1)
      <4>1. best # None /\ (best = merged[i] \/ Nearer(Centre, best, merged[i]))
        BY <1>1, <2>1, <2>9, <3>2 DEF ScanInv
      <4> QED
        BY <2>1, <2>5, <2>6, <2>7, <3>2, <4>1, NearerOrder
    <3> QED
      BY <2>3, <3>1, <3>2
  <2> QED
    BY <1>4, <2>1, <2>8, <2>9 DEF ScanInv
<1>7. CASE UNCHANGED vars
  <2>1. /\ row' = row /\ merged' = merged /\ centre' = centre /\ pairing' = pairing
        /\ left' = left /\ cursor' = cursor /\ best' = best /\ pc' = pc
    BY <1>7 DEF vars
  <2> QED
    BY <1>1, <1>4, <2>1 DEF ScanInv
<1> QED
  BY <1>2, <1>3, <1>5, <1>6, <1>7

\* Neither is a candidate of some new row lost when the pool is selected.
LEMMA ClaimableInPool ==
  ASSUME Inv, NEW a \in New, NEW b \in Txns, Claimable(a, b) PROVE b \in Pool
<1>1. CASE b \in New
  BY <1>1 DEF Pool
<1>2. CASE b \in Existing
  <2>1. row[b].pairing = None /\ row[b].account # NoAccount
    BY DEF Claimable, Candidate, Inv, PairInv
  <2>2. row[a].date \in Int /\ row[b].date \in Int
    BY RowTypes DEF Inv, PoolInv, Txns
  <2>3. Apart(b, a) = Apart(a, b)
    BY <2>2 DEF Apart, Abs
  <2>4. TouchesImport(b)
    BY <2>3 DEF TouchesImport, Claimable, Candidate
  <2> QED
    BY <1>2, <2>1, <2>4 DEF Pool, Counterparts
<1> QED
  BY <1>1, <1>2 DEF Txns

\* Nobody is lost in the merge.
LEMMA TimelineComplete ==
  ASSUME Inv, pc # "merge", NEW t \in Pool
  PROVE  \E i \in 1..Len(merged) : merged[i] = t
<1>1. /\ Len(counterparts) \in Nat /\ Len(proposals) \in Nat
      /\ ci = Len(counterparts) + 1 /\ pj = Len(proposals) + 1
  BY DEF Inv, TypeOK, MergeInv
<1>2. CASE t \in Counterparts
  <2>1. PICK k \in 1..Len(counterparts) : counterparts[k] = t
    BY <1>2 DEF Inv, PoolInv
  <2>2. k \in 1..(ci - 1)
    BY <1>1
  <2> QED
    BY <2>1, <2>2 DEF Inv, MergeInv
<1>3. CASE t \in New
  <2>1. PICK k \in 1..Len(proposals) : proposals[k] = t
    BY <1>3 DEF Inv, PoolInv
  <2>2. k \in 1..(pj - 1)
    BY <1>1
  <2> QED
    BY <2>1, <2>2 DEF Inv, MergeInv
<1> QED
  BY <1>2, <1>3 DEF Pool

\* What is known when the scan of a window has ended with a candidate.
LEMMA PairFacts ==
  ASSUME Inv, Pair
  PROVE  /\ Centre \in New /\ Centre \in Pool /\ Centre \in Txns /\ pairing[Centre] = None
         /\ \A t \in Txns : pairing[t] # Centre
         /\ best # None =>
              /\ best \in Pool /\ best \in Txns /\ best # Centre
              /\ pairing[best] = None /\ Candidate(Centre, best)
         /\ \A t \in Pool :
              Claimable(Centre, t) => best # None /\ (best = t \/ Nearer(Centre, best, t))
<1>1. pc = "scan" /\ cursor = right /\ Centre \in New /\ Centre \notin Paired
  BY DEF Pair, Inv, HintInv
<1>2. Centre \in Pool /\ Centre \in Txns /\ pairing[Centre] = None
  BY <1>1 DEF Inv, PairInv, Pool, Txns, Paired
<1>3. ASSUME NEW t \in Txns, pairing[t] = Centre PROVE FALSE
  <2>1. PICK b \in Txns : {u \in Txns : pairing[u] = pairing[t]} = {pairing[t], b}
    BY <1>1, <1>3 DEF Inv, PairInv, PairsAreWhole
  <2>2. pairing[Centre] = Centre
    BY <1>2, <1>3, <2>1
  <2> QED
    BY <1>1, <1>2, <2>2, TransferPairingAssumption
<1>4. WindowExact /\ ScanInv /\ TypeOK
  BY WindowLemma DEF Inv
<1>5. /\ left \in 1..(Len(merged) + 1) /\ right \in 1..(Len(merged) + 1)
      /\ Len(merged) \in Nat
  BY <1>4, TimelineDates DEF TypeOK
<1>6. \A t \in Pool : /\ t \in Txns /\ row[t].account # NoAccount
                      /\ row[t].date \in Int
  BY RowTypes, TransferPairingAssumption DEF Inv, PoolInv
<1>7. \A t \in Pool : Apart(t, Centre) = Apart(Centre, t)
  BY <1>2, <1>6 DEF Apart, Abs
<1>8. ASSUME best # None
      PROVE  /\ best \in Pool /\ best \in Txns /\ best # Centre
             /\ pairing[best] = None /\ Candidate(Centre, best)
  <2>1. best \in Pool /\ best \in Txns
    BY <1>4, <1>6, <1>8 DEF TypeOK, Pool
  <2>2. Considered(best) /\ \E i \in left..(right - 1) : merged[i] = best
    BY <1>1, <1>4, <1>8 DEF ScanInv
  <2>3. best \notin Paired /\ Eligible(Centre, best) /\ best # Centre
    BY <2>2 DEF Considered, Eligible
  <2>4. pairing[best] = None
    BY <2>1, <2>3 DEF Inv, PairInv, Paired
  <2>5. PICK i \in 1..Len(merged) : i \in left..(right - 1) /\ merged[i] = best
    BY <1>5, <2>2
  <2>6. Apart(Centre, best) <= HalfWindow
    BY <1>1, <1>4, <1>7, <2>1, <2>5 DEF WindowExact
  <2> QED
    BY <1>6, <2>1, <2>3, <2>4, <2>6 DEF Candidate
<1>9. ASSUME NEW t \in Pool, Claimable(Centre, t)
      PROVE  best # None /\ (best = t \/ Nearer(Centre, best, t))
  <2>1. PICK i \in 1..Len(merged) : merged[i] = t
    BY <1>1, TimelineComplete
  <2>2. Apart(merged[i], Centre) <= HalfWindow
    BY <1>7, <1>9, <2>1 DEF Claimable, Candidate
  <2>3. i \in left..(right - 1)
    BY <1>1, <1>4, <2>2 DEF WindowExact
  <2>4. Considered(t)
    BY <1>9, TransferPairingAssumption DEF Claimable, Candidate, Considered, Paired
  <2> QED
    BY <1>1, <1>4, <2>1, <2>3, <2>4 DEF ScanInv
<1> QED
  BY <1>1, <1>2, <1>3, <1>8, <1>9

\* The properties of legs do not change.
LEMMA CandidateKept ==
  ASSUME row' = row
  PROVE  \A a, b : /\ Candidate(a, b)' <=> Candidate(a, b)
                   /\ \A c : Nearer(a, b, c)' <=> Nearer(a, b, c)
  BY DEF Candidate, Eligible, Compatible, LegCurrency, Apart, Nearer, KeyLess

LEMMA PairStep == ASSUME Inv, [Next]_vars PROVE PairInv'
<1>1. row' = row /\ Pool' = Pool
  BY PoolsKept
<1>2. TypeOK /\ PairInv
  BY DEF Inv
<1>3. CASE pairing' = pairing
  <2>1. PairsAreWhole'
    BY <1>1, <1>2, <1>3, CandidateKept DEF PairInv, PairsAreWhole
  <2> QED
    BY <1>1, <1>2, <1>3, <2>1 DEF PairInv
<1>4. CASE Pair /\ best # None
  <2>1. /\ Centre \in New /\ Centre \in Pool /\ Centre \in Txns /\ pairing[Centre] = None
        /\ \A t \in Txns : pairing[t] # Centre
        /\ best \in Pool /\ best \in Txns /\ best # Centre
        /\ pairing[best] = None /\ Candidate(Centre, best)
    BY <1>4, PairFacts
  <2>2. /\ pairing'[Centre] = Centre /\ pairing'[best] = Centre
        /\ \A t \in Txns : t # Centre /\ t # best => pairing'[t] = pairing[t]
    BY <1>2, <1>4, <2>1 DEF Pair, TypeOK
  <2>3. Centre # None
    BY <2>1, TransferPairingAssumption
  <2>4. ASSUME NEW t \in Txns, pairing'[t] \in New
        PROVE  \E b \in Txns :
                 /\ {u \in Txns : pairing'[u] = pairing'[t]} = {pairing'[t], b}
                 /\ Candidate(pairing'[t], b)
    <3>1. CASE t = Centre \/ t = best
      <4>1. {u \in Txns : pairing'[u] = Centre} = {Centre, best}
        BY <2>1, <2>2
      <4> QED
        BY <2>1, <2>2, <3>1, <4>1
    <3>2. CASE t # Centre /\ t # best
      <4>1. pairing'[t] = pairing[t] /\ pairing[t] # Centre /\ pairing[t] # None
        BY <2>1, <2>2, <2>4, <3>2, TransferPairingAssumption
      <4>2. PICK b \in Txns : /\ {u \in Txns : pairing[u] = pairing[t]} = {pairing[t], b}
                             /\ Candidate(pairing[t], b)
        BY <1>2, <2>4, <4>1 DEF PairInv, PairsAreWhole
      <4>3. {u \in Txns : pairing'[u] = pairing[t]} = {u \in Txns : pairing[u] = pairing[t]}
        BY <2>1, <2>2, <4>1
      <4> QED
        BY <4>1, <4>2, <4>3
    <3> QED
      BY <3>1, <3>2
  <2>5. PairsAreWhole'
    BY <1>1, <2>4, CandidateKept DEF PairsAreWhole
  <2>6. \A t \in Pool : pairing'[t] \in New \cup {None}
    <3>1. \A t \in Pool : t \in Txns
      BY RowTypes DEF Inv, PoolInv
    <3> QED
      BY <1>2, <2>1, <2>2, <3>1 DEF PairInv
  <2>7. \A t \in Txns : pairing'[t] = None => row[t].pairing = None
    BY <1>2, <2>2, <2>3 DEF PairInv
  <2> QED
    BY <1>1, <2>5, <2>6, <2>7 DEF PairInv
<1> QED
  BY <1>3, <1>4 DEF Next, vars, MergeCounterpart, MergeProposal, MergeDone, SkipCentre,
                    StartCentre, SweepDone, MoveLeft, MoveRight, Scan, Pair

\* A pairing_id is only ever given to a transaction without one.
LEMMA PairingGrows ==
  ASSUME Inv, [Next]_vars, NEW t \in Txns, pairing[t] # None PROVE pairing'[t] = pairing[t]
<1>1. CASE pairing' = pairing
  BY <1>1
<1>2. CASE Pair /\ best # None
  <2>1. t # Centre /\ t # best
    BY <1>2, PairFacts
  <2> QED
    BY <1>2, <2>1 DEF Pair, Inv, TypeOK
<1> QED
  BY <1>1, <1>2 DEF Next, vars, MergeCounterpart, MergeProposal, MergeDone, SkipCentre,
                    StartCentre, SweepDone, MoveLeft, MoveRight, Scan, Pair

LEMMA PassedStep == ASSUME Inv, [Next]_vars PROVE PassedInv'
<1> USE DEF pools, window
<1>1. PassedInv /\ TypeOK
  BY DEF Inv
<1>2. row' = row /\ Pool' = Pool
  BY PoolsKept
<1>3. \A t \in Txns : pairing'[t] = None => pairing[t] = None
  BY PairingGrows
<1>4. \A t \in Pool : t \in Txns
  BY RowTypes DEF Inv, PoolInv
<1>5. ASSUME merged' = merged, pc # "merge", NEW i \in 1..(centre - 1), merged[i] \in New,
             pairing'[merged[i]] = None, NEW t \in Pool
      PROVE  ~Claimable(merged[i], t)'
  <2>1. pairing[merged[i]] = None
    BY <1>3, <1>5 DEF Txns
  <2>2. ~Claimable(merged[i], t)
    BY <1>1, <1>5, <2>1 DEF PassedInv
  <2> QED
    BY <1>2, <1>3, <1>4, <1>5, <2>2, CandidateKept DEF Claimable
<1>6. CASE MergeCounterpart \/ MergeProposal
  BY <1>6 DEF MergeCounterpart, MergeProposal, PassedInv
<1>7. CASE MergeDone
  BY <1>7 DEF MergeDone, PassedInv, Inv, MergeInv
<1>8. CASE centre' = centre /\ merged' = merged /\ (pc # "merge" \/ pc' = "merge")
  <2> SUFFICES ASSUME NEW i \in 1..(centre - 1), pc' # "merge", merged[i] \in New,
                      pairing'[merged[i]] = None, NEW t \in Pool
               PROVE  ~Claimable(merged[i], t)'
    BY <1>2, <1>8 DEF PassedInv
  <2> QED
    BY <1>5, <1>8
<1>9. CASE SkipCentre \/ Pair
  <2>1. /\ centre' = centre + 1 /\ merged' = merged /\ pc # "merge"
        /\ centre \in 1..Len(merged)
    BY <1>1, <1>9, TimelineDates DEF SkipCentre, Pair, TypeOK, Inv, HintInv
  <2> SUFFICES ASSUME NEW i \in 1..centre, merged[i] \in New,
                      pairing'[merged[i]] = None, NEW t \in Pool
               PROVE  ~Claimable(merged[i], t)'
    BY <1>2, <2>1 DEF PassedInv
  <2>2. CASE i \in 1..(centre - 1)
    BY <1>5, <2>1, <2>2
  <2>3. CASE i = centre /\ SkipCentre
    <3>1. pairing[Centre] \in New
      BY <2>3 DEF SkipCentre, Centre, Paired
    <3>2. pairing[Centre] = None
      BY <1>3, <2>3 DEF Centre, Txns
    <3> QED
      BY <3>1, <3>2, TransferPairingAssumption
  <2>4. CASE i = centre /\ Pair
    <3>1. merged[i] = Centre /\ Centre \in New /\ Centre \in Txns
      BY <2>4, PairFacts DEF Centre
    <3>2. best = None
      <4>1. best # None => pairing'[Centre] = Centre
        BY <1>1, <2>4, <3>1 DEF Pair, TypeOK
      <4> QED
        BY <3>1, <4>1, TransferPairingAssumption
    <3>3. ~Claimable(Centre, t)
      BY <2>4, <3>2, PairFacts
    <3>4. ~Claimable(merged[i], t)
      BY <3>1, <3>3
    <3> QED
      BY <1>2, <1>3, <1>4, <2>1, <3>4, CandidateKept DEF Claimable
  <2> QED
    BY <1>9, <2>1, <2>2, <2>3, <2>4
<1> QED
  BY <1>6, <1>7, <1>8, <1>9 DEF Next, vars, StartCentre, SweepDone, MoveLeft, MoveRight, Scan

THEOREM Invariance == Spec => []Inv
<1>1. Inv /\ [Next]_vars => Inv'
  BY TypeStep, PoolStep, MergeStep, HintStep, ScanStep, PairStep, PassedStep DEF Inv
<1> QED
  BY <1>1, InitInv, PTL DEF Spec

-----------------------------------------------------------------------------
(* The properties. *)

\* Indices stay within the timeline and pairing_ids are ids of transactions.
THEOREM TypeCorrect == Spec => []TypeOK
<1>1. Inv => TypeOK
  BY DEF Inv
<1> QED
  BY <1>1, Invariance, PTL

\* Each pairing_id of this run is on two legs that are candidates of each other.
THEOREM PairsWhole == Spec => []PairsAreWhole
<1>1. Inv => PairsAreWhole
  BY DEF Inv, PairInv
<1> QED
  BY <1>1, Invariance, PTL

\* The window found from the hints is the one a fresh search would find.
THEOREM WindowCorrect == Spec => []WindowExact
  BY WindowLemma, Invariance, PTL

\* No pair, earlier or new, is broken up.
THEOREM PairsKept == Spec => PairedForGood
<1> DEFINE Kept == \A t \in Txns : pairing[t] # None => pairing'[t] = pairing[t]
<1>1. Inv /\ [Next]_vars => [Kept]_vars
  BY PairingGrows
<1> QED
  BY <1>1, Invariance, PTL DEF Spec, PairedForGood

\* The row that asks gets the nearest claimable leg of the whole ledger.
THEOREM NearestIsClaimed == Spec => NearestClaimed
<1> DEFINE Claims ==
      \A a \in New, b \in Txns :
         pairing[a] # a /\ pairing'[a] = a /\ pairing'[b] = a /\ b # a =>
             \A c \in Txns : Claimable(a, c) => c = b \/ Nearer(a, b, c)
<1>1. Inv /\ [Next]_vars => [Claims]_vars
  <2> SUFFICES ASSUME Inv, Next,
                      NEW a \in New, NEW b \in Txns, NEW c \in Txns,
                      pairing[a] # a, pairing'[a] = a, pairing'[b] = a, b # a,
                      Claimable(a, c)
               PROVE  c = b \/ Nearer(a, b, c)
    OBVIOUS
  <2>1. Pair /\ best # None
    BY DEF Next, MergeCounterpart, MergeProposal, MergeDone, SkipCentre,
           StartCentre, SweepDone, MoveLeft, MoveRight, Scan, Pair
  <2>2. /\ best \in Txns /\ best # Centre /\ \A t \in Txns : pairing[t] # Centre
        /\ Centre \in Txns /\ pairing[best] = None /\ pairing[Centre] = None
    BY <2>1, PairFacts
  <2>3. pairing' = [pairing EXCEPT ![Centre] = Centre, ![best] = Centre]
        /\ pairing \in [Txns -> Txns \cup {None}]
    BY <2>1 DEF Pair, Inv, TypeOK
  <2>4. a \in Txns /\ a = Centre
    BY <2>2, <2>3 DEF Txns
  <2>5. b = best
    BY <2>2, <2>3, <2>4
  <2>6. c \in Pool
    BY ClaimableInPool
  <2> QED
    BY <2>1, <2>4, <2>5, <2>6, PairFacts
<1> QED
  BY <1>1, Invariance, PTL DEF Spec, NearestClaimed

\* At the end no new row and no claimable leg have missed each other.
THEOREM NobodyLeftOver == Spec => []NoneLeftOver
<1>1. Inv => NoneLeftOver
  <2> SUFFICES ASSUME Inv, pc = "done", NEW a \in New, NEW b \in Txns,
                      pairing[a] = None, Claimable(a, b)
               PROVE  FALSE
    BY DEF NoneLeftOver
  <2>1. b \in Pool
    BY ClaimableInPool
  <2>2. PICK i \in 1..Len(merged) : merged[i] = a
    BY TimelineComplete DEF Pool
  <2>3. i \in 1..(centre - 1)
    BY TimelineDates DEF Inv, HintInv
  <2> QED
    BY <2>1, <2>2, <2>3 DEF Inv, PassedInv
<1> QED
  BY <1>1, Invariance, PTL
=============================================================================
