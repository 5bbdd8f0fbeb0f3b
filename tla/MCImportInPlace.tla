-------------------------- MODULE MCImportInPlace ---------------------------
(* Three uploads: two of the same file of one row, and one of a file       *)
(* without rows for a new account; one transaction from before them.       *)
EXTENDS ImportInPlace, TLC

CONSTANTS u1, u2, u3, bank, empty

MCFile == u1 :> bank @@ u2 :> bank @@ u3 :> empty
MCLength == bank :> 1 @@ empty :> 0
=============================================================================
