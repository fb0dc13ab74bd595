-------------------------- MODULE MCSessionResources --------------------------
(* Small instance of SessionResources for TLC. *)
EXTENDS SessionResources, TLC

CONSTANTS c1, c2, alice, bob, q1, b1, b2

Symmetric == Permutations(Calls) \cup Permutations(Owners)
             \cup Permutations(Builds)
=============================================================================
