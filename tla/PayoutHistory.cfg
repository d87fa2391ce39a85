CONSTANTS
    Outs = {1, 2, 3}
    PaysTo <- McPaysTo
    TxOf <- McTxOf
    History = {1}
    Scans = {"main", "side"}
    Addresses = {"a", "b"}
    NotSet = NotSet
    Evals = {e1, e2}
    MaxUpsets = 1
SPECIFICATION Spec
INVARIANT HistoryIsSilent
