\* The lock is taken and released twice.
CONSTANTS
  Messages = {m1}
  Replies = {}
  ClientMode = FALSE
  LinkJobs = {}
  AppJobs = {}
  MaxLocks = 2
  MaxCrashes = 0
  Env = {"lock"}
SPECIFICATION Spec
SYMMETRY MCSymmetry
CHECK_DEADLOCK FALSE
INVARIANTS
  RecordedOnce
