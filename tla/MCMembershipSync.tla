-------------------------- MODULE MCMembershipSync --------------------------
(***************************************************************************)
(* Model values for MembershipSync.                                        *)
(***************************************************************************)
EXTENDS MembershipSync, TLC

CONSTANTS h1, h2, u1, u2, r1, r2, m1, m2

\* The pairs of a Harbor and a person it has no account for.
NoStranger == {}
OneStranger == {<<h1, u1>>}

\* Roles are interchangeable: they are only compared.
Symmetry == Permutations(Role)

=============================================================================
