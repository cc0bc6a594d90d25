---------------------------- MODULE MCIdentities ----------------------------
(***************************************************************************)
(* Model values for Identities.                                            *)
(***************************************************************************)
EXTENDS Identities

CONSTANTS h1, p1, p2, u1, n1, x1, x2, m1

\* The one person's name in the Gateway's directory.
OneName == [u \in {u1} |-> n1]

\* No two accounts differ by case alone.
NoCase == [a \in {n1, x1, x2} |-> a]

=============================================================================
