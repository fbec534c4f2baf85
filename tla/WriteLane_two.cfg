\* Two executors may be inside the same run: a lease ran out.
\* The lane comes to rest when every job is over and no bound leaves room.
SPECIFICATION Spec
CONSTANTS
  Jobs = {j1}
  Kinds = {"ui_file_edit"}
  Execs = {e1, e2}
  Urls = {u1}
  HomeUrl = u1
  None = None
  Admitters = {"api"}
  StepAttempts = 1
  Rounds = 1
  Upsets = {"access"}
  MaxGen = 1
  MaxLog <- ThreeCommits
INVARIANTS
  FileEditIsPublished
PROPERTIES
  PublishedIsFinal
CHECK_DEADLOCK FALSE
