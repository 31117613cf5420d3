---------------------- MODULE MCTransferReconciliation ----------------------
(* TLC instances of TransferReconciliation. *)
EXTENDS TransferReconciliation
=============================================================================
