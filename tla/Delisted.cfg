SPECIFICATION ResearchSpec
CONSTANTS
  Coins <- ThreeCoins
  NBars = 12
  Liquidity <- Thin
  Jobs <- SomeJobs
  Studies <- SomeStudies
  Markets <- SomeMarkets
  Length = 5
  Fast = 1
  Slow = 3
  Asked <- SomeAsked
  Prices <- ThreePrices
  MaxQty = 2
  MaxOps = 4
  HalfSpreads <- SomeSpreads
  Moves <- SomeMoves
  Steps = 3
  MaxOrders = 3
  LastRow = 7
  MaxCalls = 2
  Lags <- SomeLags
  Forward = 1
  BenchBars = 4
  ReportBars = 3
  Span = 3
  Symbols <- TwoSymbols
  LastDay = 2
  Workers = 2
INVARIANT DelistedIsExited
CHECK_DEADLOCK FALSE
