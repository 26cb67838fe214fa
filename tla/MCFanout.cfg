CONSTANTS
  Messages = {m1, m2}
  Requests = {m1, m2}
  Responses = {}
  Members = {c1, c2}
  Hub = hub
  other = other
  Lists <- MCLists
  MaxRestarts = 1
  MaxChanges = 1
  Env = {"suspend"}
SYMMETRY Symmetry
SPECIFICATION Spec
CONSTRAINT FewChanges
INVARIANTS TypeOK HeardOnce WholeList UniqueIds SameOrder
