CONSTANTS
  Processes = {p1, p2}
  Grants = {g1, g2}
  Commands = {c1, c2}
  None = None
  MaxEvents = 3
  MaxDenials = 2
  MaxCorrections = 1
  MaxCrashes = 1
  Root = root
  Awaiting = {g2}
  UseLimits = {1}
  HostKeys = {"host"}
  NotBefore = 0
  ExpiresAt = 2
  MaxTime = 2
  MaxSourceDenials = 1
  MaxMismatches = 1
SPECIFICATION AdoptionSpec
INVARIANTS
  TypeOK
  OneUsePerGrant
  MarkerNamesItsUse
  FactTablesReplay
  SupersessionIsAcyclic
  SourceHistoryReplays
  DisputeReachesDependents
PROPERTIES
  ContactIsAuthorized
  CommittedIsMarked
CHECK_DEADLOCK FALSE
