------------------------ MODULE PartitionLocksProofs ------------------------
(***************************************************************************)
(* For any number of restore and import requests, and however old the lock *)
(* rows are that their checks read: as long as the user does not abort a   *)
(* restore that is still running (the V1 assumption of api_contract.md 6), *)
(* each kind of request is single-flight. The inductive invariant is that  *)
(* a live holder's own row is in place.                                    *)
(***************************************************************************)
EXTENDS PartitionLocks, TLAPS

LEMMA KindType == \A r \in Requests : Kind(r) \in Kinds /\ Other(Kind(r)) \in Kinds
  BY DEF Kind, Other, Kinds

\* The variables keep their types: the rows name requests, every request is in
\* one of the states of the handlers (all of userPartition.ts and its callers).
THEOREM TypeCorrect == Spec => []TypeOK
<1>1. Init => TypeOK
  BY DEF Init, TypeOK, PcStates
<1>2. TypeOK /\ [Next]_vars => TypeOK'
  <2> SUFFICES ASSUME TypeOK, [Next]_vars PROVE TypeOK'
    OBVIOUS
  <2> USE DEF TypeOK, Goto, DeleteLock, PcStates
  <2>1. ASSUME NEW r \in Requests, ReadOtherLock(r) PROVE TypeOK'
    BY <2>1 DEF ReadOtherLock
  <2>2. ASSUME NEW r \in Requests, PutLock(r) PROVE TypeOK'
    BY <2>2, KindType DEF PutLock
  <2>3. ASSUME NEW r \in Requests, WipePrimary(r) PROVE TypeOK'
    BY <2>3 DEF WipePrimary
  <2>4. ASSUME NEW r \in Requests, Finish(r) PROVE TypeOK'
    BY <2>4, KindType DEF Finish
  <2>5. ASSUME NEW r \in Requests, GiveUp(r) PROVE TypeOK'
    BY <2>5, KindType DEF GiveUp
  <2>6. ASSUME NEW r \in Requests, Stop(r) PROVE TypeOK'
    BY <2>6 DEF Stop
  <2>7. CASE AbortRestore
    BY <2>7 DEF AbortRestore, Kinds
  <2>8. CASE UNCHANGED vars
    BY <2>8 DEF vars
  <2> QED
    BY <2>1, <2>2, <2>3, <2>4, <2>5, <2>6, <2>7, <2>8 DEF Next, Handler
<1> QED
  BY <1>1, <1>2, PTL DEF Spec

LEMMA OwnershipInductive ==
  ASSUME ~AbortLiveRestores, TypeOK, HolderOwnsRow, [Next]_vars
  PROVE  HolderOwnsRow'
<1> USE DEF HolderOwnsRow, TypeOK, Live, Goto, DeleteLock
<1>1. ASSUME NEW r \in Requests, ReadOtherLock(r) PROVE HolderOwnsRow'
  BY <1>1 DEF ReadOtherLock, PcStates
\* The conditional put writes a row only where there was none, so every other
\* live holder of that kind would have had to own an absent row.
<1>2. ASSUME NEW r \in Requests, PutLock(r) PROVE HolderOwnsRow'
  <2>1. CASE lock[Kind(r)] = NoRequest
    <3> SUFFICES ASSUME NEW s \in Requests, Live(s)' PROVE lock'[Kind(s)] = s
      OBVIOUS
    <3>1. CASE s = r
      BY <1>2, <2>1, <3>1, KindType DEF PutLock
    <3>2. CASE s # r
      <4>1. lock[Kind(s)] = s
        BY <1>2, <2>1, <3>2 DEF PutLock
      <4>2. Kind(s) # Kind(r)
        BY <4>1, <2>1, RequestsAssumption DEF Requests
      <4> QED
        BY <1>2, <2>1, <4>1, <4>2, KindType DEF PutLock
    <3> QED
      BY <3>1, <3>2
  <2>2. CASE lock[Kind(r)] # NoRequest
    BY <1>2, <2>2 DEF PutLock
  <2> QED
    BY <2>1, <2>2
\* The wipe spares both rows.
<1>3. ASSUME NEW r \in Requests, WipePrimary(r) PROVE HolderOwnsRow'
  BY <1>3, KindType DEF WipePrimary, OmittedOnPrimary
\* A release by a live holder deletes its own row and nobody else's.
<1>4. ASSUME NEW r \in Requests, Live(r), pc' = [pc EXCEPT ![r] = "done"] \/
             pc' = [pc EXCEPT ![r] = "failed"], DeleteLock(Kind(r))
      PROVE  HolderOwnsRow'
  <2> SUFFICES ASSUME NEW s \in Requests, Live(s)' PROVE lock'[Kind(s)] = s
    OBVIOUS
  <2>1. s # r /\ Live(s)
    BY <1>4
  <2>2. Kind(s) # Kind(r)
    BY <2>1, <1>4
  <2> QED
    BY <1>4, <2>1, <2>2, KindType
<1>5. ASSUME NEW r \in Requests, Finish(r) \/ GiveUp(r) PROVE HolderOwnsRow'
  BY <1>4, <1>5 DEF Finish, GiveUp
<1>6. ASSUME NEW r \in Requests, Stop(r) PROVE HolderOwnsRow'
  BY <1>6 DEF Stop, PcStates
\* An abort deletes the restore row when no restore is live; imports keep theirs.
<1>7. CASE AbortRestore
  BY <1>7 DEF AbortRestore, Kind, Requests, Kinds
<1>8. CASE UNCHANGED vars
  BY <1>8 DEF vars
<1> QED
  BY <1>1, <1>2, <1>3, <1>5, <1>6, <1>7, <1>8 DEF Next, Handler

\* A live holder's row is never taken, deleted or overwritten by anyone else.
THEOREM OwnershipHolds == ~AbortLiveRestores /\ Spec => []HolderOwnsRow
<1> SUFFICES ASSUME ~AbortLiveRestores PROVE Spec => []HolderOwnsRow
  OBVIOUS
<1>1. Init => HolderOwnsRow
  BY DEF Init, HolderOwnsRow, Live
<1>2. TypeOK /\ HolderOwnsRow /\ [Next]_vars => HolderOwnsRow'
  BY OwnershipInductive
<1> QED
  BY <1>1, <1>2, TypeCorrect, PTL DEF Spec

\* Two restores, or two imports, of one user are never under way together.
THEOREM SingleFlightHolds == ~AbortLiveRestores /\ Spec => []SingleFlight
<1>1. HolderOwnsRow => SingleFlight
  BY DEF HolderOwnsRow, SingleFlight
<1> QED
  BY <1>1, OwnershipHolds, PTL
=============================================================================
