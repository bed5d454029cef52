SPECIFICATION FairSpec
CONSTANTS
    Symbols <- TwoSymbols
    Kinds <- AllKinds
    Step = 2
    Limit = 2
    Starts <- SomeStarts
    Spans <- SomeSpans
    Now = 2
    MaxTime = 4
    MaxFaults = 1
INVARIANTS BehindCursor PanelComplete
PROPERTY Finishes
CHECK_DEADLOCK FALSE
