SPECIFICATION Spec
CONSTANTS
  f1 = f1
  q1 = q1
  mA = mA
  mB = mB
  Facts = {f1}
  Queries = {q1}
  Models = {mA, mB}
  None = None
  MaxAttempts = 1
  MayErr = FALSE
  MaxBoots = 2
CHECK_DEADLOCK FALSE
INVARIANT EmbeddedQueriesSearchable
