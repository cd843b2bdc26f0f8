------------------------------- MODULE MCHub --------------------------------
(* Instances of Hub for TLC: two connections of one group, and a second    *)
(* group whose broadcasts must not reach them.                             *)
EXTENDS Hub

CONSTANTS a, b, g1, g2

SameGroup == [c \in {a, b} |-> g1]
=============================================================================
