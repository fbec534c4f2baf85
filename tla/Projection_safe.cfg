\* Two hydrate runs, the tip check and requests, one relink at a time.
\* The system comes to rest when no bound leaves room.
SPECIFICATION Spec
CONSTANTS
  Urls = {u1}
  Roots = {r1}
  HomeUrl = u1
  HomeRoot = r1
  Callers = {"tip", "api"}
  Hydrates = {h1, h2}
  Relinkers = {p1}
  Stores = {"emb"}
  Upsets = {"access", "error"}
  None = None
  MaxGen = 2
  MaxTip = 2
SYMMETRY SlotSymmetry
INVARIANTS
  TypeOK
  ReadyIsServed
  FailedIsUnserved
PROPERTIES
  KeepsPromise
CHECK_DEADLOCK FALSE
