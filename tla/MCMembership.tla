---------------------------- MODULE MCMembership ----------------------------
(* Instances of Membership for TLC.                                        *)
EXTENDS Membership, TLC

CONSTANTS ann, bob, cat, w1, w2

\* One PATCH for each field.
OneFieldEach == {[f \in {x} |-> 1] : x \in Fields}

\* Users are interchangeable, and so are workers.
Symmetry == Permutations({ann, bob, cat}) \cup Permutations({w1, w2})
=============================================================================
