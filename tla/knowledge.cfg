SPECIFICATION FairSpec
CONSTANTS
  ShortTTL = 1
  LongTTL = 2
  PromoteAfterHits = 2
  q1 = q1
  q2 = q2
  f1 = f1
  c1 = c1
  c2 = c2
  Queries = {q1, q2}
  Facts = {f1}
  Scopes <- Separately
  Clients = {c1, c2}
  QueryIds = {s1}
  FactIds = {m1}
  s1 = s1
  m1 = m1
  Remember = {"absent", "permanent"}
  MayErr = TRUE
  Prompt = FALSE
INVARIANT TypeOK
INVARIANT TiersEarned
INVARIANT SearchableOrQueued
PROPERTY NoResurrection
PROPERTY ExpiredRowsLeave
