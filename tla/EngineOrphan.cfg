CONSTANTS
  Runs = {r1}
  Clients = {c1}
  Autostart = none
  MaxSpawns = 3
  None = none
SPECIFICATION Spec
INVARIANT StopEndsEngine
