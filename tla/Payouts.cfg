CONSTANTS
    Outs = {1, 2, 3}
    PaysTo <- McPaysTo
    TxOf <- McTxOf
    History = {1}
    Scans = {"main"}
    Addresses = {"a", "b"}
    NotSet = NotSet
    Evals = {e1, e2}
    MaxUpsets = 1
SPECIFICATION FairSpec
INVARIANT LedgerInv
INVARIANT ToldOnce
PROPERTY EveryPayoutRecorded
PROPERTY PayoutsAreTold
