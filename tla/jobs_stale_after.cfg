SPECIFICATION Spec
CONSTANTS
  j1 = j1
  j2 = j2
  p1 = p1
  s1 = s1
  Idle = Idle
  Jobs = {j1, j2}
  Unhandled = {}
  Procs = {p1}
  Slots = {s1}
  MaxAttempts = 2
  StaleAfter = 3
  MaxLag = 0
  MaxRun = 2
  Timely = TRUE
  Faults <- NoFaults
INVARIANT NeverReapedMidFlight
