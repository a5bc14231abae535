SPECIFICATION Spec
CONSTANTS
  MaxSpawns = 3
  MaxRestarts = 2
  AutoRestart = TRUE
INVARIANT AtMostOneKernel
