CONSTANTS
    Evals = {e1, e2}
    Sweeps = {s1, s2}
    Threshold = 1
    Retry = 1
    MaxAttempts = 2
    MaxOutages = 2
    MaxUpsets = 2
SPECIFICATION FairSpec
INVARIANT AlertsInv
PROPERTY EveryAlertSettles
PROPERTY LastingOutageAlerts
PROPERTY RecoveryFollows
