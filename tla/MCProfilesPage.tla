--------------------------- MODULE MCProfilesPage ---------------------------
(* The instance of ProfilesPage that TLC checks. *)
EXTENDS ProfilesPage
Symmetry == Permutations(Ids) \cup Permutations(Slots)
=============================================================================
