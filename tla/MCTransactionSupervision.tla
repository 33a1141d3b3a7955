---------------------- MODULE MCTransactionSupervision ----------------------
(* Two receivers and three copies, so that a copy can arrive after a crash *)
(* and before the restart, and crashes enough to use up the restarts.      *)
EXTENDS TransactionSupervision
============================================================================
