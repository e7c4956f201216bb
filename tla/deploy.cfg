\* Either provider, two restarts, an operator who starts and stops; one crash.
CONSTANTS
  Providers = {"docker", "local-process"}
  Limit = 2
  ApiThreads = {o1}
  ApiKinds = {"start", "stop"}
  MaxRequests = 3
  MaxCrashes = 1
SPECIFICATION FairSpec
INVARIANTS
  TypeOK
  RestartsBounded
PROPERTIES
  RecoversOrReports
