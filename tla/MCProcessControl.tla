-------------------------- MODULE MCProcessControl --------------------------
(* ProcessControl on one process.                                           *)
EXTENDS ProcessControl, TLC

=============================================================================
