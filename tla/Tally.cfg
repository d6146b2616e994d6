SPECIFICATION Spec
CONSTANTS
    Sources = {a, b}
    First = a
    Key = k
    Receivers = {r1}
    None = None
    MixTicks = 1
    FadeTicks = 1
    Refresh = 2
    Backoff = 3
    MaxCalls = 2
    MaxFails = 1
    MaxRacing = 1
INVARIANTS TallyInv
PROPERTIES EndsSilent ExportSettles
