SPECIFICATION FairSpec
CONSTANTS
  f1 = f1
  q1 = q1
  mA = mA
  mB = mB
  Facts = {f1}
  Queries = {q1}
  Models = {mA, mB}
  None = None
  MaxAttempts = 2
  MayErr = TRUE
  MaxBoots = 2
CHECK_DEADLOCK FALSE
INVARIANT TypeOK
INVARIANT ActiveTableExists
INVARIANT NoSearchableRowLost
INVARIANT VectorsMatchModel
INVARIANT DegradedWhileMigrating
INVARIANT OneTableWhenSettled
PROPERTY MigrationEnds
