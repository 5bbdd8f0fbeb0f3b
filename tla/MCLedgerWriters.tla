--------------------------- MODULE MCLedgerWriters ---------------------------
(* Instance of LedgerWriters for TLC: two transactions of one file in one   *)
(* cluster, and an import of a second file with one row.                    *)
EXTENDS LedgerWriters, TLC
CONSTANTS t1, t2, t3, f1, f2, c1, n1, i1

MCNewRow == [i \in {i1} |-> t3]
MCFileOf == [t \in {t1, t2, t3} |-> IF t = t3 THEN f2 ELSE f1]
MCRemint == [i \in {i1} |-> [c \in {c1} |-> n1]]
MCFirstCluster == [t \in {t1, t2} |-> c1]

\* The stored rows have the same file and the same cluster.
SameStart == Permutations({t1, t2})

\* A bound: of the five requests any two run together.
TwoTogether == Cardinality(Running(Requests)) <= 2
=============================================================================
