\* Two requests change the root folder at the same time.
\* The system comes to rest when no bound leaves room.
SPECIFICATION Spec
CONSTANTS
  Urls = {u1}
  Roots = {r1, r2}
  HomeUrl = u1
  HomeRoot = r1
  Callers = {"api"}
  Hydrates = {h1}
  Relinkers = {p1, p2}
  Stores = {}
  Upsets = {}
  None = None
  MaxGen = 2
  MaxTip = 1
INVARIANTS
  ServedFromRoot
CHECK_DEADLOCK FALSE
