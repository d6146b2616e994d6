SPECIFICATION Spec
CONSTANTS
    Clip = Clip
    Cam = Cam
    None = None
    Length = 5
    Rate = 2
    StingFrames = 3
    CutFrame = 1
    Margin = 1
    StingWait = 2
    Poll = 1
    Horizon = 6
    Lead = 3
    Late = 7
    Lag = 1
    PlayOnCut = TRUE
    MaxGrain = 12
    MaxCalls = 2
CHECK_DEADLOCK FALSE
INVARIANTS  NoEndMissed
PROPERTIES TakesAreDue
