SPECIFICATION FairSpec
CONSTANTS
    btc = btc
    eth = eth
    Coins <- TwoCoins
    Majors <- TwoCoins
    Payments = 2
    LastSlot = 13
    MaxGap = 4
    Fresh = 3
    Critical = 4
    Week = 2
    Restarts = 1
    LocalEnd = 1
    Books <- OneBook
    Faults <- AllFaults
    MaxFaults = 2
INVARIANTS TypeOK CreditedOnce EarnedOnly RefusedWhenBroken SuccessMeansMarked
PROPERTIES HistoryIntact RestartsSaveTheWeek
CHECK_DEADLOCK FALSE
