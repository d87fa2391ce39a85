CONSTANTS
    Grid = 2
    WalkUp = TRUE
    EscStep = 2
    DownStep = 4
    Interval = 2
    Cooldown = 3
    Overpay = 0
    FixedCap = 10
    Premium <- NotSet
    DynamicCapOn = TRUE
    FeePct = 0
    Buffer = 0
    Grace = 1
    SettleTime = 1
    SettleFallback = 1
    MaxLatency = 1
    MaxUpsets = 1
    StartPrices = {0, 12}
    Anchors = {3}
    Hashprices = {8}
    Reads = {"full", "nomarket", "blind"}
    Modes = {"LIVE", "PAUSED"}
    AdoptedStart = FALSE
    FirstPrices = {12}
    ClearingPrices = {6, 16}
SPECIFICATION StillSpec
PROPERTY KeepsReachingClearing
PROPERTY KeepsProbingDown
PROPERTY ClimbsToCap
PROPERTY SettlesOnFloor
