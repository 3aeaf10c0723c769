SPECIFICATION Spec
CONSTANTS
  j1 = j1
  j2 = j2
  p1 = p1
  p2 = p2
  s1 = s1
  Idle = Idle
  Jobs = {j1, j2}
  Unhandled = {}
  Procs = {p1, p2}
  Slots = {s1}
  MaxAttempts = 2
  StaleAfter = 2
  MaxLag = 0
  MaxRun = 1
  Timely = TRUE
  Faults <- AllFaults
INVARIANT NoDoubleRun
INVARIANT NeverReapedMidFlight
PROPERTY ImplementsContract
