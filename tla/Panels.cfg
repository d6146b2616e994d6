CONSTANTS
  Sources = {s1, s2, s3}
  Levers = {l1, l2}
  Calls = {c1}
  Full = 2
  TbarSources = 1
  Types = {"mix", "stinger"}
  None = None
  Uses <- AllOrLevers
  MaxEvents = 1
SPECIFICATION Spec
CONSTRAINT Together
SYMMETRY Symmetry
CHECK_DEADLOCK FALSE
INVARIANTS PanelInv AirIsRed
PROPERTIES LeverMoved DriverKeepsCounting
