SPECIFICATION MCSpec
CONSTANTS
  MaxSpawns = 3
  MaxServed = 2
  MaxRestarts = 2
  AutoRestart = TRUE
  Handlers = {h1}
  MaxDue = 1
  Boot = Boot
  Tick = Tick
  Main = Main
  Nobody = Nobody
INVARIANTS
  SettledWhenIdle
  OneKernelUnlessOverlap
  QuietShutdownLeavesNoKernel
  NoTickAfterStop
PROPERTIES
  SpawnOnlyWhenWanted
  RunningWithoutKernelOnlyLate
  ImplementsKernelStatus
\* The process may have exited.
CHECK_DEADLOCK FALSE
