CONSTANTS
  Full = 2
  MeCount = 1
  InputCount = 2
  PlayerCount = 0
  Keys = {k1}
  KeyMe <- OnMe1
  Upstream = {k1}
  StingerWait = 2
  DefaultRate = 2
  Ops = {"take", "cut", "auto", "position", "program", "preview", "transition", "ftb",
         "keySet", "keyAuto", "keyKeyframes", "keyRun", "keyStop"}
  Chosen = {"buses", "ties", "swap", "rest", "fades"}
  Picked <- TwoInputs
  Rates = {2}
  Types = {"mix", "stinger"}
  TakeArgs <- UsedTakes
  RunLengths = {0, 2}
  KeyframeCounts = {1, 2}
  MaxIn = 0
  MaxStep = 2
SPECIFICATION UsesSpec
INVARIANTS KeysAreDriven EndsInTime
PROPERTIES ShownIsKept SwapsAndRests
