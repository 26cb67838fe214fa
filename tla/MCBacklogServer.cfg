\* Server mode with everything an application and the environment can do: locks,
\* rotates, restores, suspension, a stop and a restart. The last call and restore
\* end a behaviour.
CONSTANTS
  Messages = {m1, m2, r1}
  Replies = {r1}
  ClientMode = FALSE
  LinkJobs = {}
  AppJobs = {j1, j2}
  MaxLocks = 2
  MaxCrashes = 1
  Env = {"suspend", "lock", "rotate", "restore", "cancel", "stop", "crash"}
SPECIFICATION Spec
SYMMETRY MCSymmetry
CHECK_DEADLOCK FALSE
INVARIANTS
  TypeOK
  Retained
  Durable
  WriteAhead
  ReplayComplete
