CONSTANTS
  Inputs = {i1}
  Keyers = {k1}
  Panels = {p1}
  Roles = {"video"}
  Outputs = {"video"}
  Nobody = Nobody
  MaxChanges = 2
  MaxFaults = 2
SPECIFICATION RegistrationSpec
CHECK_DEADLOCK FALSE
INVARIANTS TreeInv RegistryAgrees
PROPERTIES StaysDeregistered CatchesUp
