CONSTANTS
  Items = {i1}
  Formats = {f1, f2}
  Options = {o1, o2}
  Chunks = {1}
  Workers = {w1}
  Clients = {c1}
  None = None
  MaxEvents = 2
SPECIFICATION Spec
CHECK_DEADLOCK FALSE
INVARIANTS QueueInv ReadyPlays IntakeInv
PROPERTIES DeletedStays JobsEnd KeepsPromise
