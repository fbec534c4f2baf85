\* A Workspace without access is tried again, and its index lags.
\* The system comes to rest when no bound leaves room.
SPECIFICATION CalmSpec
CONSTANTS
  Urls = {u1}
  Roots = {r1}
  HomeUrl = u1
  HomeRoot = r1
  Callers = {"tip", "api"}
  Hydrates = {h1}
  Relinkers = {}
  Stores = {"index"}
  Upsets = {"access"}
  None = None
  MaxGen = 1
  MaxTip = 1
PROPERTIES
  BecomesReady
CHECK_DEADLOCK FALSE
