SPECIFICATION FairSpec
CONSTANTS
    r1 = r1
    r2 = r2
    r3 = r3
    Symbols <- ThreeSymbols
    Scale = 100
    MaxGross = 200
    MaxPosition = 15
    MinOrder = 6
    ShortMultiples = {3, 6, 7, 12, 14}
    LowDeltas <- SerialLow
    Runs <- ThreeRuns
    Modes <- LiveOnly
    Books <- SerialBooks
    Markets <- SerialMarkets
    InitPositions <- SerialPositions
    Faults <- SerialFaults
    MaxFaults = 2
INVARIANTS NeverPastTarget CleanRunSettles
PROPERTY FinishesWhatWasLeft
CHECK_DEADLOCK FALSE
