---------------------------- MODULE AtomicLedger ----------------------------
(***************************************************************************)
(* What a backup restore and a staged import promise about the user's      *)
(* ledger, i.e. the application rows of one USER#<id> partition: the whole *)
(* partition is replaced at once or not at all (data_model.md 8.2, 8.5:    *)
(* "validate, then replace"; import_transaction_files.md 8.7, "now / next").*)
(***************************************************************************)
EXTENDS LedgerOutcome

CONSTANT Initial    \* the ledger before any job

VARIABLES
    ledger,     \* the application rows
    committed   \* the jobs that have replaced them

Init == ledger = Initial /\ committed = {}

Commit(j) ==
    /\ j \notin committed
    /\ committed' = committed \cup {j}
    /\ ledger' = Outcome(j, ledger)

Next == \E j \in Jobs : Commit(j)

Spec == Init /\ [][Next]_<<ledger, committed>>
=============================================================================
