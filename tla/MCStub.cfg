CONSTANTS
  Requests = {r1, r2}
  Notifies = {n1}
  Calls = {c1}
  Ids = {i1}
  Confs <- MCConfs
  Env = {"suspend", "reconfigure", "close"}
SPECIFICATION FairSpec
INVARIANTS TypeOK OneAnswer StoppedWereAnswered AnsweredInAdvance
PROPERTY EventuallyAnswered
