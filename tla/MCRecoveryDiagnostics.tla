-------------------------- MODULE MCRecoveryDiagnostics ------------------------
(* The real widths: sixteen increments of one counter are enough.          *)
EXTENDS RecoveryDiagnostics
================================================================================
