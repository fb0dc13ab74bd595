--------------------------- MODULE MCAuthIdentity ---------------------------
(* Small instances of AuthIdentity for TLC. *)
EXTENDS AuthIdentity, TLC

Symmetric == Permutations(Tokens) \cup Permutations(Sessions) \cup Permutations(Calls)
=============================================================================
