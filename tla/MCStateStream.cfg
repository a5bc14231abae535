SPECIFICATION FairSpec
CONSTANTS
  StateCap = 1
  WireCap = 1
  Polls = {k1}
  Unknown = Unknown
INVARIANTS
  StreamIsCurrent
PROPERTY Converges
