CONSTANTS
    NotSet = NotSet
    Overpay = 2
    MaxBid = 6
    MaxOverHashprice = 1
    TickSize = 1
    DeadbandPct = 50
    MinSpeed = 1
    TargetPh = 1
    CheapTargetPh = 2
    CheapPct = 100
    Sustained = FALSE
    Bids = {1, 2}
    Ticks = {"loop", "now"}
    Books <- McBooks
    Hashprices <- McHashprices
    BootModes = {"ALWAYS_LIVE", "LAST_MODE"}
    Datum = TRUE
    DatumDown = 2
    Modes = {"LIVE", "PAUSED"}
    Prices = {4}
    Speeds = {1}
    MaxUpsets = 1
SPECIFICATION FairSpec
INVARIANT BidsInv
INVARIANT TwinsHaveExcuse
PROPERTY NoFalseAlarm
PROPERTY DecreasesPaced
PROPERTY StrangersStopTrading
PROPERTY ExtrasGo
