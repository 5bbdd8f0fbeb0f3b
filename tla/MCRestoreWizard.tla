--------------------------- MODULE MCRestoreWizard ---------------------------
(* A backup, a file that is none, and one restore request at a time.       *)
EXTENDS RestoreWizard

CONSTANTS f1, other, p1
=============================================================================
