--------------------------- MODULE MCProxiesPage ---------------------------
(* The instance of ProxiesPage that TLC checks. *)
EXTENDS ProxiesPage
CONSTANTS g1, g2, n1, n2
MCAll == (g1 :> <<n1, n2>>) @@ (g2 :> <<n1>>)
MCLayouts == {<<g1, g2>>, <<g2>>}
Symmetry == Permutations(Slots)
=============================================================================
