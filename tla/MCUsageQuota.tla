---------------------------- MODULE MCUsageQuota ----------------------------
(* Small instances of UsageQuota for TLC: days of a few minutes. *)
EXTENDS UsageQuota, TLC

Symmetric == Permutations(Requests)
=============================================================================
