--------------------------- MODULE CredentialVaultMC ---------------------------
(***************************************************************************)
(* Instances of CredentialVault for TLC: commands, brokers and             *)
(* destinations are interchangeable.                                       *)
(***************************************************************************)
EXTENDS CredentialVault, TLC

Symmetry == Permutations(Commands) \cup Permutations(Brokers) \cup Permutations(Destinations)
=============================================================================
