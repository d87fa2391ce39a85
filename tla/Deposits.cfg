CONSTANTS
    Txs = {1, 2}
    Polls = {1, 2}
    MaxUpsets = 1
SPECIFICATION FairSpec
INVARIANT AlertedOnce
INVARIANT SilenceIsForBacklog
PROPERTY NoCreditAfterReturn
PROPERTY ReturnsAreTold
