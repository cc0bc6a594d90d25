------------------------- MODULE MCProjectLifecycle -------------------------
(***************************************************************************)
(* Model values for ProjectLifecycle.                                      *)
(***************************************************************************)
EXTENDS ProjectLifecycle, TLC

CONSTANTS h1, h2, a1, a2

Symmetry == Permutations(Harbor) \union Permutations(Admin)

=============================================================================
