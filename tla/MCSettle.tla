------------------------------ MODULE MCSettle ------------------------------
(* Instances of Settle for TLC.                                            *)
EXTENDS Settle, TLC

CONSTANTS ann, bob, cat, dan, eve
=============================================================================
