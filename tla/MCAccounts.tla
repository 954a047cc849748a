----------------------------- MODULE MCAccounts -----------------------------
(* The users page alone, for the claim that overlapping edits refute.       *)
EXTENDS AccountScreen, TLC

CONSTANTS a1, a2

MCSymmetry == Permutations({a1, a2})
MCMaxRequests == [accounts |-> 3]
=============================================================================
