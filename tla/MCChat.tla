------------------------------- MODULE MCChat -------------------------------
(* Instances of Chat for TLC: two connections, one of each user.           *)
EXTENDS Chat

CONSTANTS ann, bob, a, b

OneEach == [c \in {a, b} |-> IF c = a THEN ann ELSE bob]

\* The users may change places, and their connections with them.
Symmetry ==
  {[x \in {ann, bob, a, b} |-> IF swap
      THEN CASE x = ann -> bob [] x = bob -> ann [] x = a -> b [] x = b -> a
      ELSE x] : swap \in BOOLEAN}
=============================================================================
