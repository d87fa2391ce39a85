CONSTANTS
    Ids = {1, 2, 3, 4}
    Workers = {alice, bob}
    NoWorker = none
    Budget = 2
    RefillAmount = 2
    MinAmount = 1
    LowEscrow = 1
    StartBalance = 6
    MaxUpsets = 2
SPECIFICATION FairSpec
INVARIANT OrdersInv
INVARIANT DuplicatesNeedUpset
PROPERTY SettlesOnOne
