-------------------------- MODULE MCConnectionsPage --------------------------
(* The instance of ConnectionsPage that TLC checks. *)
EXTENDS ConnectionsPage
=============================================================================
