CONSTANTS
  Inputs = {i1}
  Roles = {"video"}
  Keyers = {k1}
  Flows = {f1}
  Moving = {f1}
  Times = {1}
  Clients = {c1}
  AtOnce = 1
  None = None
SPECIFICATION Spec
INVARIANTS PlaneInv SavedWhenQuiet ScheduleIsArmed
PROPERTIES WaitingEnds
