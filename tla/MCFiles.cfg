SPECIFICATION MCSpec
CONSTANTS
  NoId = NoId
  Gone = Gone
  Nothing = Nothing
  Registries <- MCRegistries
  MaxChanges = 1
  Keys <- MCKeys
  Items <- MCItems
  Jobs <- MCJobs
  p1 = p1
  p2 = p2
  secret0 = secret0
  Compositions <- MCCompositions
  Address = Address
  Secrets = {s1}
  Ports = {p1}
  None = None
  Down = Down
  Panel = Panel
  Dashboard = Dashboard
  MaxBoots = 2
  MaxSpawns = 2
  MaxComposes = 1
  Updates = {u1, u2}
  GeoFiles <- MCGeoFiles
  NoFile = NoFile
  MaxCrashes = 1
INVARIANTS
  RestoredComposesAlike
  ScopesKept
  MergesAsDocumented
  KernelReadsConfig
  GeoWholeUnlessShared
PROPERTIES
  RunningKernelAnswers
\* Nobody needs to ask for anything.
CHECK_DEADLOCK FALSE
