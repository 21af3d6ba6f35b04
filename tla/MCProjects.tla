----------------------------- MODULE MCProjects -----------------------------
EXTENDS Projects, TLC

\* Neither the requests nor the ids of the other projects are told apart.
Symmetry == Permutations(Requests) \cup Permutations(Ids)

=============================================================================
