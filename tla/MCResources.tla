---------------------------- MODULE MCResources ----------------------------
(* One resource with two clients: MCResources.cfg, and a counterexample that *)
(* needs one client only, MCResourcesLinked.cfg.                             *)
EXTENDS Resources, TLC

Symmetry == Permutations(Clients) \cup Permutations(Ids) \cup Permutations(Apps)

=============================================================================
