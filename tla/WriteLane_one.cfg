\* One executor per run: leases are never lost to a live worker. The Workspace
\* may be relinked to another repository while its job is under way.
\* The lane comes to rest when every job is over and no bound leaves room.
SPECIFICATION Spec
CONSTANTS
  Jobs = {j1}
  Kinds = {"ui_file_edit", "semantic_merge"}
  Execs = {e1}
  Urls = {u1, u2}
  HomeUrl = u1
  None = None
  Admitters = {"api"}
  StepAttempts = 1
  Rounds = 2
  Upsets = {"access", "error", "crash", "stop"}
  MaxGen = 2
  MaxLog <- ThreeCommits
INVARIANTS
  TypeOK
  AtMostOneCommitPerJob
  CompletedIsPublished
  NoChangesIsTrue
  CompletedIsServed
  RunAgreesWithRow
PROPERTIES
  KeepsLedger
CHECK_DEADLOCK FALSE
