----------------------------- MODULE MCTransfers -----------------------------
(* Instances of Transfers for TLC. *)
EXTENDS Transfers, TLC

Symmetry == Permutations(Target) \union Permutations(Launcher)
            \union Permutations(Syncer)

=============================================================================
