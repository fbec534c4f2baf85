\* Upsets end at some point; then every job must settle.
\* The lane comes to rest when every job is over and no bound leaves room.
SPECIFICATION CalmSpec
CONSTANTS
  Jobs = {j1}
  Kinds = {"ui_file_edit"}
  Execs = {e1}
  Urls = {u1}
  HomeUrl = u1
  None = None
  Admitters = {"api", "tip"}
  StepAttempts = 1
  Rounds = 1
  Upsets = {"access", "error", "crash", "stop"}
  MaxGen = 2
  MaxLog <- TwoCommits
PROPERTIES
  JobSettles
CHECK_DEADLOCK FALSE
