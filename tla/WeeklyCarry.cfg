SPECIFICATION Spec
CONSTANTS
    btc = btc
    eth = eth
    Coins <- TwoCoins
    Majors <- TwoCoins
    Payments = 2
    LastSlot = 8
    MaxGap = 4
    Fresh = 3
    Critical = 4
    Week = 2
    Restarts = 1
    LocalEnd = 0
    Books <- OneBook
    Faults = {}
    MaxFaults = 0
INVARIANT CarryInFull
CHECK_DEADLOCK FALSE
