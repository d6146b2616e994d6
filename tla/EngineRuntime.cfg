CONSTANTS
  Runs = {r1}
  Clients = {auto, c1, c2}
  Autostart = auto
  MaxSpawns = 3
  None = none
SPECIFICATION FairSpec
INVARIANTS Supervised UsedIsNotStopped ReadyHasState
PROPERTIES CallsAndRestartsEnd
