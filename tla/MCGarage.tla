------------------------------ MODULE MCGarage ------------------------------
(* Requests one after the other: MCGarage.cfg; two at once, a counterexample: *)
(* MCGarageShared.cfg.                                                        *)
EXTENDS Garage, TLC

Symmetry == Permutations(Requests)

=============================================================================
