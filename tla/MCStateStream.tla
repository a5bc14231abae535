--------------------------- MODULE MCStateStream ---------------------------
(* The instance of StateStream that TLC checks. *)
EXTENDS StateStream
=============================================================================
