--------------------------- MODULE MCProfileStore ---------------------------
(* The instance of ProfileStore that TLC checks. *)
EXTENDS ProfileStore, TLC

\* The ids are random and never compared by order.
IdSymmetry == Permutations(Ids)
=============================================================================
