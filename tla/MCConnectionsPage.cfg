SPECIFICATION FairSpec
CONSTANTS
  Conns = {c1, c2}
  NoConn = NoConn
  Slots = {k1, k2}
  MaxTicks = 2
INVARIANTS
  PageOK
PROPERTIES
  ShowsTheConnections
