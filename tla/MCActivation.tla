---------------------------- MODULE MCActivation ----------------------------
(* The instances of Activation that TLC checks. *)
EXTENDS Activation, TLC

\* Requests and profiles are interchangeable.
Symmetry == Permutations(Requests) \cup Permutations(Profiles)
=============================================================================
