SPECIFICATION Spec
CONSTANTS
  Ids = {p1, p2}
  Slots = {k1, k2}
  Nobody = Nobody
SYMMETRY Symmetry
INVARIANTS
  SelectsARow
  ShowsTheServer
PROPERTY DeletesWhatWasAsked
