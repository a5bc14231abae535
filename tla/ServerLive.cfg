SPECIFICATION MCLive
CONSTANTS
  MaxSpawns = 1
  MaxServed = 1
  MaxRestarts = 1
  AutoRestart = TRUE
  Handlers = {h1}
  MaxDue = 1
  Boot = Boot
  Tick = Tick
  Main = Main
  Nobody = Nobody
PROPERTIES
  SignalEnds
  RequestsAnswered
  CrashIsRetried
\* The process may have exited.
CHECK_DEADLOCK FALSE
