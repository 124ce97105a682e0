------------------------ MODULE RepositoryObservationMC ------------------------
(***************************************************************************)
(* Instances of RepositoryObservation for TLC: requests and replicas are   *)
(* interchangeable.                                                        *)
(***************************************************************************)
EXTENDS RepositoryObservation, TLC

Symmetry == Permutations(Requests) \cup Permutations(Replicas) \cup Permutations(Issuers)

\* Renames happen in the first lifetime, and after one the clock stops there: a
\* late rename adds nothing to one that finds old rows and entries at now = TTL.
RenamesEarly == github = 0 \/ now <= TTL
=============================================================================
