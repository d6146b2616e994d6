CONSTANTS
  Full = 2
  MeCount = 2
  InputCount = 1
  PlayerCount = 0
  Keys = {k1}
  KeyMe <- OnMe1
  Upstream = {k1}
  StingerWait = 2
  DefaultRate = 2
  Ops = {"auto", "position", "keyAuto", "ftb", "takeAt", "preview", "keySettings"}
  Chosen = {"swap", "fades", "holds"}
  Picked <- InputOrMe2
  Rates = {2}
  Types = {"mix", "stinger"}
  TakeArgs <- Reentries
  RunLengths = {2}
  KeyframeCounts = {1, 2}
  MaxIn = 1
  MaxStep = 2
SPECIFICATION FairUsesSpec
INVARIANTS NoRenderLoop
PROPERTIES HeldTakesAreKept AllSettles
