---------------------------- MODULE LedgerOutcome ---------------------------
(***************************************************************************)
(* What the application rows of one user's partition look like after a     *)
(* backup restore or an import. A row is the set of jobs that contributed  *)
(* to its contents: a restore writes rows of its own, an import re-        *)
(* clusters every row there is and adds new ones. A table maps each sort   *)
(* key to a row or to Absent.                                              *)
(***************************************************************************)

CONSTANTS
    Restores,   \* restore jobs
    Imports,    \* import jobs
    Keys,       \* sort keys
    Absent,     \* no item under that key
    Snapshot,   \* Snapshot[r]: the sort keys in the backup file of restore r
    NewKey      \* NewKey[i]: the sort key of the rows import i adds

Jobs == Restores \cup Imports
Rows == SUBSET Jobs
Tables == [Keys -> Rows \cup {Absent}]

\* materializeBackupItems: the file's rows and nothing of the ledger ("no merge").
Restored(r) == [k \in Keys |-> IF k \in Snapshot[r] THEN {r} ELSE Absent]

\* materializeImportPlanToItems: the ledger's rows, each patched, and the new ones.
Imported(i, t) ==
    [k \in Keys |-> IF k = NewKey[i] THEN {i}
                    ELSE IF t[k] = Absent THEN Absent
                    ELSE t[k] \cup {i}]

Outcome(j, t) == IF j \in Restores THEN Restored(j) ELSE Imported(j, t)
=============================================================================
