\* Two threads, everything the environment can do. Once every message has come
\* and gone the system stops. A notification differs from an outgoing message in
\* nothing that is modelled.
CONSTANTS
  Requests = {r1, r2}
  Notifies = {}
  Outgoing = {o1}
  Clients = {c1}
  Workers = {w1, w2}
  Capacity = 1
  CallbackCapacity = 1
  Tracking = TRUE
  Env = {"suspend", "reconfigure", "disconnect"}
SPECIFICATION FairSpec
CHECK_DEADLOCK FALSE
INVARIANTS
  TypeOK
  OneFate
  InOrder
PROPERTIES
  RequestsOfTheLiving
  EventuallyAnswered
  KeepsPromise
