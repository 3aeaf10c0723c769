SPECIFICATION FairSpec
CONSTANTS
  p1 = p1
  p2 = p2
  Procs = {p1, p2}
  Modes = {"serve", "browse", "testserve"}
  ExclusiveLock = TRUE
  BufferSize = 1
  BatchSize = 2
  MaxLines = 2
  MaxCrashes = 1
INVARIANT TypeOK
INVARIANT OneOwner
INVARIANT LogAccounted
INVARIANT TidyExit
PROPERTY StopsEventually
CHECK_DEADLOCK FALSE
