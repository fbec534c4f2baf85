\* Three requests to the codesearch process for two repositories, one pipeline
\* and one indexer process; one checkout with three searches and purges; two
\* requests for one sandbox; two sandboxes in an organization; two hydrates.
SPECIFICATION Spec
CONSTANTS
  Calls = {c1, c2, c3}
  Repos = {r1, r2}
  Cap = 1
  Slots = 1
  MaxCalls = 3
  MaxBuild = 2
  Attempts = {a1, a2}
  Lease = 2
  Nobody = Nobody
  b1 = b1
  b2 = b2
  Boxes = {b1, b2}
  Orgs <- MCOrgs
  MaxFaults = 1
  Hydrates = {h1, h2}
  MaxLosses = 2
INVARIANTS
  ServicesTypeOK
  PurgeIsAlone
  SlotsAreBounded
  CapHolds
  ScipRunsOnce
  ServedIsFresh
  OneOwner
  ResultIsExclusive
  RunningIsBounded
  MarkerMeansWhole
PROPERTIES
  PurgeIsNotOvertaken
  EveryCallEnds
  StaleUnloadSparesPin
  IdleIsUnloaded
  AttemptEnds
  UsedIsKept
  SlotIsGivenBack
  LostGraphIsRebuilt
\* The requests of the instance, its searches and its purges come to an end.
CHECK_DEADLOCK FALSE
