-------------------------- MODULE MCRollingUpdate --------------------------
(* RollingUpdate alone, on one process: MCRollingUpdate.cfg, and a counter- *)
(* example, MCRollingConcurrent.cfg.                                        *)
EXTENDS RollingUpdate, TLC

=============================================================================
