\* All derived stores, one hydrate at a time; upsets end at some point.
\* The system comes to rest when no bound leaves room.
SPECIFICATION CalmSpec
CONSTANTS
  Urls = {u1}
  Roots = {r1}
  HomeUrl = u1
  HomeRoot = r1
  Callers = {"tip"}
  Hydrates = {h1}
  Relinkers = {}
  Stores = {"graph", "index"}
  Upsets = {"error", "crash", "stop", "loss"}
  None = None
  MaxGen = 1
  MaxTip = 2
PROPERTIES
  TipIsServed
CHECK_DEADLOCK FALSE
