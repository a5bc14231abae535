SPECIFICATION Spec
CONSTANTS
  NetworkFields <- MCNetworkFields
  KeyOf <- MCKeyOf
  Vals = {v1, v2}
  Slots = {k1, k2}
SYMMETRY Symmetry
INVARIANTS
  PageOK
  ShowsTheKernel
PROPERTIES
  EditKeepsTheRest
  LabelLostOnlyByMoving
\* A panic ends the page.
CHECK_DEADLOCK FALSE
