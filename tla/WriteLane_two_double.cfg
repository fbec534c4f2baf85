\* Two executors inside the same run: the job is committed twice.
SPECIFICATION Spec
CONSTANTS
  Jobs = {j1}
  Kinds = {"ui_file_edit"}
  Execs = {e1, e2}
  Urls = {u1}
  HomeUrl = u1
  None = None
  Admitters = {"api"}
  StepAttempts = 1
  Rounds = 1
  Upsets = {}
  MaxGen = 1
  MaxLog <- ThreeCommits
SYMMETRY ExecSymmetry
INVARIANTS
  AtMostOneCommitPerJob
CHECK_DEADLOCK FALSE
