\* The link is lost between a restore and its callback.
CONSTANTS
  Messages = {m1}
  Replies = {}
  ClientMode = TRUE
  LinkJobs = {l1, l2}
  AppJobs = {}
  MaxLocks = 0
  MaxCrashes = 0
  Env = {"link"}
SPECIFICATION Spec
SYMMETRY MCSymmetry
CHECK_DEADLOCK FALSE
INVARIANTS
  LateKept
