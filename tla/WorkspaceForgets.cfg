SPECIFICATION Spec
CONSTANTS
  Cams <- FourCams
  Registrable <- OneMore
  Rekinds <- TwoRekinds
  Counts = {3, 4}
  MeCounts = {1, 2, 3}
  KeyCounts = {0, 1}
  RenderMes = 0
  Chosen = {"cam-2", "me-2", "me-3"}
  Keyed <- Keys4
  Requests <- Starts
  Numbers = {1}
  Docs <- OneDoc
  None = None
  MaxChanges = 4
PROPERTY RestartKeepsInputs
