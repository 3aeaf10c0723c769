SPECIFICATION FairSpec
CONSTANTS
  q1 = q1
  q2 = q2
  google = google
  bing = bing
  t1 = t1
  t2 = t2
  u1 = u1
  u2 = u2
  Requests = {q1, q2}
  Terms <- Asked
  Engines <- Order
  Typed = {google}
  Finds <- Found
  UseMemory = {q2}
  UseCache = {q1, q2}
  Scrapes = {q2}
  Patient = {q2}
  MaxErrors = 1
INVARIANT TypeOK
INVARIANT NoBurst
INVARIANT RowsWhole
INVARIANT AnswerAccounted
INVARIANT CacheIsSearched
INVARIANT RunsFinished
PROPERTY ImplementsContract
PROPERTY RequestsReturn
CHECK_DEADLOCK FALSE
