CONSTANTS
  Calls = {c1, c2}
  Kinds = {"request", "notify", "other"}
  Methods = {get}
  MaxEvents = 3
SPECIFICATION Spec
INVARIANTS CacheCoherent MetersFit
