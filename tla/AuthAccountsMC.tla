---------------------------- MODULE AuthAccountsMC ----------------------------
(* Two users, and two commands that may run at once. *)
EXTENDS AuthAccounts, TLC

Symmetry == Permutations(Users) \cup Permutations(Processes)
=============================================================================
