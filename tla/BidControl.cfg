CONSTANTS
    Grid = 2
    WalkUp = TRUE
    EscStep = 3
    DownStep = 4
    Interval = 2
    Cooldown = 3
    Overpay = 1
    FixedCap = 9
    Premium <- NotSet
    DynamicCapOn = TRUE
    FeePct = 25
    Buffer = 1
    Grace = 1
    SettleTime = 1
    SettleFallback = 2
    MaxLatency = 1
    MaxUpsets = 2
    StartPrices = {8}
    Anchors = {2, 5}
    Hashprices <- McHashprices
    Reads = {"full", "nomarket", "blind"}
    Modes = {"LIVE", "PAUSED"}
    AdoptedStart = TRUE
SPECIFICATION Spec
INVARIANT CeilingRespected
INVARIANT RaiseOnlyWhenStarved
INVARIANT ClockCovers
PROPERTY OneProbePerDisagreement
PROPERTY RaisesArePaced
