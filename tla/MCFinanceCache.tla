---------------------------- MODULE MCFinanceCache ----------------------------
(* Instance of FinanceCache for TLC: a key that depends on cluster ids, which  *)
(* stands for transactions and metrics too, and one that does not.           *)
EXTENDS FinanceCache
CONSTANTS queue, files

MCShows == [p \in Screens |->
    IF p = "import" THEN {files}
    ELSE IF p = "review" THEN {queue, files}
    ELSE IF p = "dashboard" THEN {queue} ELSE {}]
=============================================================================
