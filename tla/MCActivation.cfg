SPECIFICATION Spec
CONSTANTS
  Requests = {r1, r2}
  Profiles = {p1, p2}
  NoProfile = NoProfile
  Absent = Absent
  Watchdog = Watchdog
  Nobody = Nobody
  Calls = {"activate", "save", "scheduled", "rollback", "recover", "restart", "edit"}
  Verdicts = {TRUE, FALSE}
SYMMETRY Symmetry
INVARIANTS
  ActiveMatchesId
  
  ChoiceKept
