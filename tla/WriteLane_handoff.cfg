\* One executor and no upset but commits of people: the handoff is refused.
SPECIFICATION Spec
CONSTANTS
  Jobs = {j1}
  Kinds = {"ui_file_edit"}
  Execs = {e1}
  Urls = {u1}
  HomeUrl = u1
  None = None
  Admitters = {"api"}
  StepAttempts = 1
  Rounds = 2
  Upsets = {}
  MaxGen = 1
  MaxLog <- FourCommits
INVARIANTS
  MovedTipIsReplayed
CHECK_DEADLOCK FALSE
