SPECIFICATION Spec
CONSTANTS
    r1 = r1
    r2 = r2
    r3 = r3
    Symbols <- TwoSymbols
    Scale = 100
    MaxGross = 200
    MaxPosition = 15
    MinOrder = 6
    ShortMultiples = {3, 6, 7, 12, 14}
    LowDeltas <- NoLow
    Runs <- OneRun
    Modes <- LiveOnly
    Books <- GrowBooks
    Markets <- OneMarket
    InitPositions <- GrowPositions
    Faults = {}
    MaxFaults = 0
INVARIANT PositionWithinLimit
CHECK_DEADLOCK FALSE
