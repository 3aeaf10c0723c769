SPECIFICATION FairSpec
CONSTANTS
  j1 = j1
  j2 = j2
  p1 = p1
  s1 = s1
  s2 = s2
  Idle = Idle
  Jobs = {j1, j2}
  Unhandled = {}
  Procs = {p1}
  Slots = {s1, s2}
  MaxAttempts = 2
  StaleAfter = 2
  MaxLag = 0
  MaxRun = 1
  Timely = TRUE
  Faults <- Crashes
PROPERTY OnlyRunnableClaimed
PROPERTY EventuallySettled
