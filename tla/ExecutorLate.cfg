SPECIFICATION Spec
CONSTANTS
    r1 = r1
    r2 = r2
    r3 = r3
    Symbols <- TwoSymbols
    Scale = 100
    MaxGross = 200
    MaxPosition = 15
    MinOrder = 6
    ShortMultiples = {3, 6, 7, 12, 14}
    LowDeltas <- NoLow
    Runs <- TwoRuns
    Modes <- LiveOnly
    Books <- LateBooks
    Markets <- OneMarket
    InitPositions <- FlatPositions
    Faults <- LateFaults
    MaxFaults = 1
INVARIANT NeverPastTarget
CHECK_DEADLOCK FALSE
