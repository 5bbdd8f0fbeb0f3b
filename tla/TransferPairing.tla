--------------------------- MODULE TransferPairing --------------------------
(***************************************************************************)
(* Internal transfer detection during an import: computeIngestTransfer-    *)
(* Pairings (backend/src/services/pairing/ingest.ts) and the ordered sweep *)
(* it calls (db/src/transferPairing.ts). Two pools of legs, each sorted by *)
(* date, are merged into one timeline; a sliding window then goes over it  *)
(* once, and every new row claims the nearest unclaimed candidate.         *)
(*                                                                         *)
(* Each action is one iteration of one of the loops. Dates are whole ticks *)
(* and amounts whole cents; HalfWindow and Epsilon are in the same units.  *)
(***************************************************************************)
EXTENDS Integers, Sequences, FiniteSets

CONSTANTS
    New,            \* ids of the rows being imported
    Existing,       \* ids of the transactions of the ledger snapshot
    Ledgers,        \* the possible contents of both
    HalfWindow,     \* windowDays * TRANSFER_PAIRING_DAY_MS
    Epsilon,        \* the largest residual |amount(A) + amount(B)|
    NoAccount,      \* the account of a transaction whose FILE row is missing
    Currencies,     \* the currencies of transactions
    NoCurrency,     \* a leg that carries no currency
    None            \* no leg, or no pairing_id

Txns == New \cup Existing

\* An account is the rank of its id among the account ids. A new pairing_id is
\* named after the row that asked for it, an old one after some existing row.
Rows ==
    [account : Nat \cup {NoAccount}, date : Int, amount : Int,
     currency : Currencies, pairing : Existing \cup {None}]

ASSUME TransferPairingAssumption ==
    /\ New \subseteq Nat /\ Existing \subseteq Nat /\ New \cap Existing = {}
    /\ IsFiniteSet(New) /\ IsFiniteSet(Existing)
    /\ HalfWindow \in Nat /\ Epsilon \in Nat
    /\ NoAccount \notin Nat /\ None \notin Nat
    /\ \A f \in Ledgers :
         /\ f \in [Txns -> Rows]
         /\ \A n \in New : f[n].account # NoAccount /\ f[n].pairing = None

VARIABLES
    row,            \* row[t]: account, date, amount, currency, pairing_id so far
    counterparts,   \* sortedCounterparts
    proposals,      \* sortedProposals
    ci, pj,         \* the next of each to be merged
    merged,         \* the timeline
    pc,             \* the loop that runs
    centre,         \* the leg that seeks a partner
    left, right,    \* the hints, and once found the half-open window
    cursor,         \* the next leg of the window to be looked at
    best,           \* the best candidate so far
    pairing         \* pairing[t]: the pairing_id of transaction t after this run

pools == <<row, counterparts, proposals>>
window == <<left, right>>
vars == <<pools, ci, pj, merged, pc, centre, window, cursor, best, pairing>>

Phases == {"merge", "centre", "left", "right", "scan", "done"}

Abs(n) == IF n < 0 THEN -n ELSE n
Apart(a, b) == Abs(row[a].date - row[b].date)

\* endpointKey, compareStrings.
KeyLess(a, b) ==
    \/ row[a].account < row[b].account
    \/ row[a].account = row[b].account /\ a < b

\* compareLegDateAsc.
Precedes(a, b) ==
    \/ row[a].date < row[b].date
    \/ row[a].date = row[b].date /\ KeyLess(a, b)

-----------------------------------------------------------------------------
(* Who may pair. *)

\* Proposals carry importCurrency; counterpart legs are built without theirs, so
\* that the guard of currenciesCompatible never refuses one (ingest.ts:75-80).
LegCurrency(t) == IF t \in New THEN row[t].currency ELSE NoCurrency

Compatible(a, b) ==
    NoCurrency \in {LegCurrency(a), LegCurrency(b)} \/ LegCurrency(a) = LegCurrency(b)

\* isStructuralEligibleExceptWindow, passesEpsilon.
Eligible(a, b) ==
    /\ a # b
    /\ row[a].account # row[b].account
    /\ Compatible(a, b)
    /\ Abs(row[a].amount + row[b].amount) <= Epsilon

\* betterEligiblePartner, among eligible legs: the residual does not rank them.
Nearer(a, b, c) ==
    \/ Apart(a, b) < Apart(a, c)
    \/ Apart(a, b) = Apart(a, c) /\ KeyLess(b, c)

\* The set `paired` of this run.
Paired == {t \in Txns : pairing[t] \in New}

\* existingTxnTouchesImportDateWindow.
TouchesImport(t) == \E n \in New : Apart(t, n) <= HalfWindow

\* Mutant: rows already paired are offered again.
CounterpartsPairedToo ==
    {t \in Existing : TouchesImport(t) /\ row[t].account # NoAccount}

\* ingestCounterpartLegsNearImport.
Counterparts ==
    {t \in Existing :
        row[t].pairing = None /\ TouchesImport(t) /\ row[t].account # NoAccount}

\* sortLegsByDateAsc.
Sorted(S) ==
    {s \in [1..Cardinality(S) -> S] :
        /\ \A t \in S : \E i \in DOMAIN s : s[i] = t
        /\ \A i, j \in DOMAIN s : i < j => Precedes(s[i], s[j])}

Init ==
    /\ row \in Ledgers
    /\ counterparts \in Sorted(Counterparts)
    /\ proposals \in Sorted(New)
    /\ ci = 1 /\ pj = 1 /\ merged = <<>>
    /\ pc = "merge"
    /\ centre = 1 /\ left = 1 /\ right = 1 /\ cursor = 1
    /\ best = None
    /\ pairing = [t \in Txns |-> row[t].pairing]

-----------------------------------------------------------------------------
(* mergeSortedLegPools. *)

MergeCounterpart ==
    /\ pc = "merge" /\ ci <= Len(counterparts)
    /\ pj <= Len(proposals) => ~Precedes(proposals[pj], counterparts[ci])
    /\ merged' = Append(merged, counterparts[ci])
    /\ ci' = ci + 1
    /\ UNCHANGED <<pools, pj, pc, centre, window, cursor, best, pairing>>

MergeProposal ==
    /\ pc = "merge" /\ pj <= Len(proposals)
    /\ ci <= Len(counterparts) => Precedes(proposals[pj], counterparts[ci])
    /\ merged' = Append(merged, proposals[pj])
    /\ pj' = pj + 1
    /\ UNCHANGED <<pools, ci, pc, centre, window, cursor, best, pairing>>

MergeDone ==
    /\ pc = "merge" /\ ci > Len(counterparts) /\ pj > Len(proposals)
    /\ pc' = "centre"
    /\ UNCHANGED <<pools, ci, pj, merged, centre, window, cursor, best, pairing>>

-----------------------------------------------------------------------------
(* assignPairingsOrderedSweep. *)

Centre == merged[centre]
Date(i) == row[merged[i]].date

\* Only a new row that is still unpaired looks for a partner.
SkipCentre ==
    /\ pc = "centre" /\ centre <= Len(merged)
    /\ Centre \notin New \/ Centre \in Paired
    /\ centre' = centre + 1
    /\ UNCHANGED <<pools, ci, pj, merged, pc, window, cursor, best, pairing>>

StartCentre ==
    /\ pc = "centre" /\ centre <= Len(merged)
    /\ Centre \in New \ Paired
    /\ pc' = "left"
    /\ UNCHANGED <<pools, ci, pj, merged, centre, window, cursor, best, pairing>>

SweepDone ==
    /\ pc = "centre" /\ centre > Len(merged)
    /\ pc' = "done"
    /\ UNCHANGED <<pools, ci, pj, merged, centre, window, cursor, best, pairing>>

(* windowHalfOpen. *)

MoveLeft ==
    /\ pc = "left"
    /\ IF left <= Len(merged) /\ Date(left) < Date(centre) - HalfWindow
       THEN left' = left + 1 /\ UNCHANGED <<pc, right>>
       ELSE /\ right' = IF right < left THEN left ELSE right
            /\ pc' = "right" /\ UNCHANGED left
    /\ UNCHANGED <<pools, ci, pj, merged, centre, cursor, best, pairing>>

\* Mutant: the upper end of the window is exclusive.
MoveRightExclusive ==
    /\ pc = "right"
    /\ IF right <= Len(merged) /\ Date(right) < Date(centre) + HalfWindow
       THEN right' = right + 1 /\ UNCHANGED <<pc, cursor, best>>
       ELSE pc' = "scan" /\ cursor' = left /\ best' = None /\ UNCHANGED right
    /\ UNCHANGED <<pools, ci, pj, merged, centre, left, pairing>>

MoveRight ==
    /\ pc = "right"
    /\ IF right <= Len(merged) /\ Date(right) <= Date(centre) + HalfWindow
       THEN right' = right + 1 /\ UNCHANGED <<pc, cursor, best>>
       ELSE pc' = "scan" /\ cursor' = left /\ best' = None /\ UNCHANGED right
    /\ UNCHANGED <<pools, ci, pj, merged, centre, left, pairing>>

(* bestPartnerInWindow. *)

Considered(t) == t \notin Paired /\ Eligible(Centre, t)

\* Mutant: the first leg that may be considered is kept.
ScanKeepsFirst ==
    /\ pc = "scan" /\ cursor < right
    /\ best' = IF best = None /\ Considered(merged[cursor]) THEN merged[cursor] ELSE best
    /\ cursor' = cursor + 1
    /\ UNCHANGED <<pools, ci, pj, merged, pc, centre, window, pairing>>

Scan ==
    /\ pc = "scan" /\ cursor < right
    /\ LET t == merged[cursor] IN
       best' = IF Considered(t) /\ (best = None \/ Nearer(Centre, t, best)) THEN t ELSE best
    /\ cursor' = cursor + 1
    /\ UNCHANGED <<pools, ci, pj, merged, pc, centre, window, pairing>>

\* Mutant: the pairing_id is written to the root only.
PairRootOnly ==
    /\ pc = "scan" /\ cursor = right
    /\ pairing' = IF best = None THEN pairing ELSE [pairing EXCEPT ![Centre] = Centre]
    /\ centre' = centre + 1
    /\ pc' = "centre"
    /\ UNCHANGED <<pools, ci, pj, merged, window, cursor, best>>

\* Both legs get the same fresh pairing_id.
Pair ==
    /\ pc = "scan" /\ cursor = right
    /\ pairing' = IF best = None THEN pairing
                  ELSE [pairing EXCEPT ![Centre] = Centre, ![best] = Centre]
    /\ centre' = centre + 1
    /\ pc' = "centre"
    /\ UNCHANGED <<pools, ci, pj, merged, window, cursor, best>>

Next ==
    \/ MergeCounterpart \/ MergeProposal \/ MergeDone
    \/ SkipCentre \/ StartCentre \/ SweepDone
    \/ MoveLeft \/ MoveRight \/ Scan \/ Pair

Spec == Init /\ [][Next]_vars

-----------------------------------------------------------------------------
\* Everything has its type, and the indices stay within the timeline.
TypeOK ==
    /\ row \in [Txns -> Rows]
    /\ counterparts \in Seq(Counterparts) /\ proposals \in Seq(New)
    /\ ci \in 1..(Len(counterparts) + 1) /\ pj \in 1..(Len(proposals) + 1)
    /\ merged \in Seq(Counterparts \cup New)
    /\ pc \in Phases
    /\ {centre, left, right, cursor} \subseteq 1..(Len(merged) + 1)
    /\ best \in Counterparts \cup New \cup {None}
    /\ pairing \in [Txns -> Txns \cup {None}]

\* What makes b a candidate partner of the new row a (transferPairing.ts): another
\* account, amounts that cancel out up to Epsilon, both within the window. Against a
\* transaction of the ledger this compares no currencies (LegCurrency): a leg of 10 usd
\* and one of -10 eur are candidates. transferPairing.ts:20 takes a leg that omits
\* its currency for one of the only currency; transfer_matching.md 3.2 asks for the
\* same one, which is not what is checked here.
Candidate(a, b) ==
    /\ Eligible(a, b)
    /\ Apart(a, b) <= HalfWindow
    /\ row[b].account # NoAccount

Claimable(a, b) == Candidate(a, b) /\ pairing[b] = None

\* transfer_matching.md 4.1, 4.2: a pairing_id made in this run is on the row that
\* asked for it and on exactly one other, never on one or three. The two fit each
\* other in account, amount and window; their currencies may differ (Candidate).
PairsAreWhole ==
    \A t \in Txns : pairing[t] \in New =>
        \E b \in Txns :
            /\ {u \in Txns : pairing[u] = pairing[t]} = {pairing[t], b}
            /\ Candidate(pairing[t], b)

\* transfer_matching.md 3.3: "a leg from a committed pair cannot be reused": neither
\* the pairs of earlier imports nor those of this run are ever broken up.
PairedForGood ==
    [][\A t \in Txns : pairing[t] # None => pairing'[t] = pairing[t]]_vars

\* While the window is searched it is exactly the legs within HalfWindow of the centre,
\* although its ends are not searched for afresh but pushed on from the last centre.
WindowExact ==
    pc = "scan" =>
        \A i \in 1..Len(merged) :
            i \in left..(right - 1) <=> Apart(merged[i], Centre) <= HalfWindow

\* transfer_matching.md 4: the row that asks claims the claimable leg closest in time,
\* of several such the first by (account_id, id), among all transactions there are.
NearestClaimed ==
    [][\A a \in New, b \in Txns :
         pairing[a] # a /\ pairing'[a] = a /\ pairing'[b] = a /\ b # a =>
             \A c \in Txns : Claimable(a, c) => c = b \/ Nearer(a, b, c)]_vars

\* In the end no new row is without a partner while it has a claimable one, so the two
\* filters on the way (the pool of counterparts, the window) have lost nothing.
NoneLeftOver ==
    pc = "done" =>
        \A a \in New, b \in Txns : pairing[a] = None => ~Claimable(a, b)
=============================================================================
