\* Client mode: the link comes up, is lost and comes up again; the program
\* may be stopped at any time.
CONSTANTS
  Messages = {m1, m2}
  Replies = {}
  ClientMode = TRUE
  LinkJobs = {l1, l2}
  AppJobs = {}
  MaxLocks = 0
  MaxCrashes = 0
  Env = {"link", "suspend", "stop"}
SPECIFICATION ClientSpec
CHECK_DEADLOCK FALSE
INVARIANTS
  LossOnlyInWindows
PROPERTIES
  CallsReturn
  OutageReplayed
