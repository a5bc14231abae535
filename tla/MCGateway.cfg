SPECIFICATION MCSpec
CONSTANTS
  Tabs = {t1, t2}
  FirstPassword = w1
  Pages = {Home, p1}
  Home = Home
  Favicon = Favicon
  Links = {"own", "site", "unnamed"}
  NoPage = NoPage
  NoSession = NoSession
  NoWord = NoWord
  Passwords = {w1, w2}
  Verbatim = {w1}
  SessionAge = 1
  MaxNow = 2
  MaxStarts = 2
INVARIANTS
  LoginLeadsBack
PROPERTIES
  StaysIn
  LetIn
CHECK_DEADLOCK FALSE
