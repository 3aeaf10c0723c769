SPECIFICATION Spec
CONSTANTS
  j1 = j1
  j2 = j2
  p1 = p1
  s1 = s1
  s2 = s2
  Idle = Idle
  Jobs = {j1, j2}
  Unhandled = {j2}
  Procs = {p1}
  Slots = {s1, s2}
  MaxAttempts = 2
  StaleAfter = 1
  MaxLag = 0
  MaxRun = 0
  Timely = FALSE
  Faults <- AllFaults
SYMMETRY Symmetry
INVARIANT TypeOK
INVARIANT RunningIsRecoverable
INVARIANT SettledHonestly
INVARIANT InFlightIsBacked
