SPECIFICATION Spec
CONSTANTS
  Ids = {p1, p2}
  NoId = NoId
  Gone = Gone
  Absent = Absent
  Cut = Cut
  Minimal = Minimal
  MaxFaults = 1
SYMMETRY IdSymmetry
INVARIANTS
  ListedHasFile
PROPERTIES
  ImplementsRegistry
  FirstFaultKeepsACopy
  ActiveLostOnlyByCascade
