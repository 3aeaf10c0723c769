SPECIFICATION FairSpec
CONSTANTS
  k1 = k1
  k2 = k2
  a1 = a1
  a2 = a2
  b1 = b1
  x1 = x1
  Calls = {k1, k2}
  Urls = {a1, a2, b1, x1}
  Wants <- Wanted
  HostOf <- Hosted
  NoHost = "no host"
  Disallowed = {a2}
  LeadsTo <- Leading
  UseCache = {k1}
  Patient = {k2}
  MaxURLs = 3
  MaxDomains = 1
  MaxBrowserTabs = 1
  MaxIds = 3
  MaxLosses = 1
INVARIANT TypeOK
INVARIANT SlotsBalanced
INVARIANT RobotsRespected
INVARIANT EveryUrlAnswered
PROPERTY OnlySavesCreate
PROPERTY CallsReturn
