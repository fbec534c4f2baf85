\* One push or request, one more push, a connector sync, a rebind or a deletion,
\* with lost calls, errors and crashes.
SPECIFICATION CalmSpec
CONSTANTS
  Producers = {p1}
  Connectors = {c1}
  Bindings = {b1, b2}
  HomeBinding = b1
  Upsets = {"error", "crash", "loss"}
  None = None
  MaxAsk = 1
  MaxId = 4
  MaxTip = 2
  MaxStir = 2
INVARIANTS
  TypeOK
  IndexesAlone
  CompletedIsFollowed
PROPERTIES
  PublishedAdvances
  SupersededLeavesRow
  Settles
\* All runs end, and no bound leaves room for another call.
CHECK_DEADLOCK FALSE
