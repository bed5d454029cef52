SPECIFICATION Spec
CONSTANTS
    r1 = r1
    r2 = r2
    r3 = r3
    Symbols <- TwoSymbols
    Scale = 100
    MaxGross = 200
    MaxPosition = 15
    MinOrder = 6
    ShortMultiples = {3, 6, 7, 12, 14}
    LowDeltas <- NoLow
    Runs <- TwoRuns
    Modes <- BothModes
    Books <- OverlapBooks
    Markets <- OverlapMarkets
    InitPositions <- OverlapPositions
    Faults <- OverlapFaults
    MaxFaults = 1
SYMMETRY RunSymmetry
INVARIANTS TypeOK AuditTrail OneOrderPerSymbol AllOrNothing ClosesFirst
PROPERTIES KillSwitchHolds ImplementsAllowance
CHECK_DEADLOCK FALSE
