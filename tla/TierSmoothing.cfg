CONSTANTS
    r1 = r1
    r2 = r2
    r3 = r3
    r4 = r4
    r5 = r5
    Rows = {r1, r2, r3, r4, r5}
    Dust = {r5}
    PriceOf <- MCPriceOf
    Readings <- MCReadings
    ConfirmReads = 2
    ConfirmTicks = 2
    MaxSame = 4
SPECIFICATION NoisySpec
INVARIANT TiersInv
INVARIANT FlickerIgnored
PROPERTY RisesAreConfirmed
