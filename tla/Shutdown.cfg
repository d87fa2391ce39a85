CONSTANTS
    Fence = 8
    Nap = 15
    Backoff = 2
    MaxBackoff = 60
    Configured = FALSE
SPECIFICATION PromptSpec
INVARIANT CleanExit
CHECK_DEADLOCK FALSE
