-------------------------- MODULE MCStagedReplace ---------------------------
(* Three sort keys. Restores alone: a ledger of two rows and two backup    *)
(* files that overlap in a key and differ in size. With imports: a ledger  *)
(* of one CLUSTER row, which the file r1 also has, and a fresh key per     *)
(* import.                                                                 *)
EXTENDS StagedReplace, TLC

CONSTANTS r1, r2, i1, i2

MCKeys == 1..3
MCClusterKeys == {1}
TwoRows == [k \in MCKeys |-> IF k = 3 THEN Absent ELSE {}]
OneRow == [k \in MCKeys |-> IF k = 1 THEN {} ELSE Absent]
TwoFiles == r1 :> {1, 2} @@ r2 :> {2}
OneFile == r1 :> {1}
FreshKeys == i1 :> 2 @@ i2 :> 3
=============================================================================
