---------------------------- MODULE RequestLimiterMC ----------------------------
(***************************************************************************)
(* An instance of RequestLimiter for TLC: three reads and one mutation a   *)
(* minute stand for the 300 and 60 of the broker.                          *)
(***************************************************************************)
EXTENDS RequestLimiter, TLC

MCBudget == [k \in {"read", "mutation"} |-> IF k = "read" THEN 3 ELSE 1]
Symmetry == Permutations(Callers)
=============================================================================
