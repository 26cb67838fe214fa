\* Synchronous answers on the IO thread and asynchronous ones on two workers.
CONSTANTS
  MaxItems = 4
  Runners = {io, w1, w2}
  IoThread = io
SPECIFICATION FairSpec
INVARIANTS
  TypeOK
  RepliesAreFull
  NoLostReply
PROPERTY
  KeepsPromise
