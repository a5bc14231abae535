SPECIFICATION Spec
CONSTANTS
  g1 = g1
  g2 = g2
  n1 = n1
  n2 = n2
  Groups = {g1, g2}
  All <- MCAll
  Layouts <- MCLayouts
  Heights = {2, 3}
  Slots = {k1, k2}
  Nothing = Nothing
SYMMETRY Symmetry
INVARIANTS
  PageOK
  ShowsTheKernel
PROPERTY KeepsTheGroup
