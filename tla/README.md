# VFund in TLA+

VFund is a research platform for systematic crypto trading: it fetches market
data, backtests strategies on it, marks two paper accounts forward once a week,
and can turn its target book into orders on Binance. This directory models the
parts of it in which order, failure and time decide whether the result is right,
checks the models with TLC on small instances and proves what can be proved for
every instance with TLAPS. References are to `src/`, paths and lines as at the
modelled commit; `execute.py` and its like stand for `src/vfund/live/execute.py`.

`PROJECT.json` lists every component, run, broken variant ("mutant"), mapped
definition, divergence ("finding"), hazard and theorem; this file says what they
amount to.

## 1. The system

| Component | State it keeps | Operations | Talks to |
|---|---|---|---|
| **Order executor** (`live/execute.py`) | none between runs but `execution_log.jsonl`; it reads the file `KILLSWITCH` | `run`: read the account, `reconcile`, `preflight`, `execute_plan` | the exchange client, the signal |
| **Exchange client** (`live/exchange.py`) | none | one HTTP request per method, 15 s timeout; rounding of quantities | Binance |
| **Paper account** (`live/paper.py`) | a JSON state file per account | `load`, `save`, `record`, `record_two_engine`, the gap guard | the signal, the carry sleeve |
| **Carry sleeve** (`live/carry.py`) | none | `carry_sleeve`, `realised_carry` | spot, perp and funding panels |
| **Account health** (`live/health.py`) | none | `check_account`, `exit_code` | the state files |
| **Weekly task** (`scripts/*.ps1`) | the data files, a log | fetch, mark both accounts, ask for their health; restarts | all of the above through the command line |
| **Ingestion** (`data/ingest.py`, `universe.py`, `deriv_alpha/collector.py`) | none | paginated fetches | Binance, DefiLlama |
| **Research downloads** (`deriv_alpha/vision.py`, `data/onchain.py`) | none | one file per symbol and day by a pool of threads; one history per protocol | Binance, DefiLlama |
| **Panels and alignment** (`data/panel.py`, `onchain.py`, `collector.py`, `vision.py`) | none | joins, forward fills and lags onto a timeline | backtesters, signal |
| **Single-asset backtester** (`backtest/engine.py`, `broker.py`, `portfolio.py`) | cash, position, the pending target | one loop over the bars | a strategy's `on_bar` |
| **Strategies** (`strategy/`, `deriv_alpha/`) | none | `scores` at a bar, from the panel cut there | panels |
| **Cross-sectional backtester** (`backtest/cross_sectional.py`, `construct.py`, `sim.py`, `rust/src/lib.rs`) | weights, equity, drawdown peak | one loop, written twice in Python and once in Rust | a strategy's `scores` |
| **Live signal** (`live/signal.py`) | none | the target weights of the last bar, sleeve by sleeve | the cross-sectional backtester, the executor, the paper accounts |
| **Walk-forward** (`research/splits.py`, `walkforward.py`) | the best parameters, the stitched curve | windows, selection, stitching | the cross-sectional backtester |
| **Formulaic alphas** (`factors/`, `research/ic.py`) | the registry | the purity gate, the operators, the bench, the reports | the cross-sectional backtester |
| **Order book and market maker** (`microstructure/`, `rust/src/lib.rs`) | resting quantity per price; quotes, fills | `add`, `cancel`, `match_market`; the quoting loop | - |
| Statistics, storage | none | array arithmetic, I/O | - |

What is hard in each, and what makes it correct:

* **Order executor.** Nothing locks the account: two runs may overlap. It works
  from a snapshot read in four requests. It may die between any two requests; an
  order's answer may never come, and the order may be executed all the same,
  later, in part or never. The kill switch is a file somebody creates at any
  moment. Correct means: the log accounts for every order that went out; no run
  sends an order twice; nothing is sent unless the whole plan passed the checks;
  closes come first; no position moves by more than the runs decided; runs one
  after the other bring the account to its target and not past it.
* **Paper account and weekly task.** A forward record is spoilt by one update
  that counts a price move twice, misses one, or restarts the record. The task is
  killed, restarted, missed, run by hand; a fetch leaves out symbols; a market is
  halted. Correct means: each move and each payment is credited once, only while
  held; a history is never rewritten; the task never reports a success it did not
  have; what the health check says is, but for a day, what the tracker will do.
* **Ingestion.** Page boundaries, empty and short pages, error replies that look
  like the end. Correct means: every bar once, none missing inside a fetch.
* **Backtesters.** No decision may depend on a later bar, and the data come with
  different delays: a close is known at its bar's end, an on-chain value a day after
  its day, a daily metric when its day is over. A coin may be missing for a bar or
  for good, while some of its data are filled forward. Two implementations of the
  loop must agree.
* **Live signal.** Whatever the engine would hold is ordered, so a coin that stopped
  trading must not be in it.
* **Walk-forward.** Training never reaches into the test segment; each bar is
  tested once.
* **Formulaic alphas.** What the gate lets through must not look ahead; a score must
  not be an artefact of where the panel begins, nor exist for a coin that does not.
* **Order book, market maker.** Quantity is conserved, no empty level stays, the best
  prices go first; a quote is filled once.
* **Downloads.** Answers come in any order, some not at all; what is returned must be
  all there is.

The rest is float arithmetic on arrays in one pass: there is no order or state
in it for a model checker to explore, and a model would repeat its formulas.

## 2. Modules

| Module | What it is |
|---|---|
| `ExecPlan` | the arithmetic of the executor as operators: `Reconcile`, `Preflight`, the order of the orders, rounding |
| `Executor` | the state machine: any number of runs, the exchange, the operator; its properties |
| `Allowance` | abstract specification: what the executor promises of the account |
| `ExecutorMC` | instances of `Executor` for TLC |
| `ExecutorProofs` | TLAPS proofs about `Executor` |
| `ExecutorRefinement` | TLAPS proof that `Executor` implements `Allowance`, and what runs one after the other bring about |
| `PaperTracker` | one paper account as operators: what an update credits, when it is refused, how healthy it is |
| `WeeklyTask` | the state machine of the task that marks two accounts; its properties |
| `WeeklyTaskMC` | instances of `WeeklyTask` for TLC |
| `Pagination` | the loops that fetch a history page by page and symbol by symbol; their properties |
| `PaginationMC` | an instance of `Pagination` for TLC |
| `PaginationProofs` | TLAPS proofs about `Pagination` |
| `WeeklyTaskProofs` | TLAPS proofs about `WeeklyTask` |
| `Panel` | panels, timelines, forward fills and lags as operators: when each cell of a matrix became known |
| `Strategies` | the scores of every cross-sectional strategy, as operators on a panel |
| `CrossSection` | the state machine of the cross-sectional backtester, its native loop beside it; its properties |
| `WalkForward` | the study that drives `CrossSection`; its property |
| `Signal` | the live books, from the target weights of `CrossSection`; its property |
| `Engine` | the single-asset backtester; its properties |
| `OrderBook`, `MarketMaker` | the two microstructure experiments; their properties |
| `Formulas` | the vocabulary of the formulaic alphas, the purity gate, the bench and the reports; its property |
| `Zoo` | the alphas of `zoo.py`, followed row by row; its properties |
| `Download` | the pool of threads that fetches metrics, and the TVL and fee panels; its property |
| `Research` | composes the research modules above: one command, then its component |
| `ResearchMC` | an instance of `Research` for TLC |
| `CrossSectionProofs` | TLAPS proofs about `CrossSection`: the two loops agree, and look back only |
| `PortfolioProofs` | TLAPS proofs about what is built on it: prices of what is held, `Signal`, `WalkForward` |
| `SimulatorProofs` | TLAPS proofs about `Engine`, `MarketMaker` and `OrderBook` |
| `ResearchProofs` | TLAPS proofs about `Formulas`, `Zoo` and `Download`, and about `Research` as a whole |

A definition headed `\* Broken:` is a variant of the one that follows it, with a
plausible mistake; no specification uses it. Each property has one that it
catches.

### Executor

| Model | Code |
|---|---|
| `pos`, `market`, `wire`, `capped` | the account at the exchange: positions; equity, prices and listings; orders accepted and not yet executed; leverage caps |
| `kill`, `log` | the files `KILLSWITCH` and `execution_log.jsonl`, by event and symbol |
| `pc`, `view`, `todo`, `uncapped`, `cur` | the locals of `run` and `execute_plan`: where it is, what it read, `plan.orders` not yet sent, those without leverage cap, the order it waits for |
| `posts`, `armed`, `faults` | history: orders posted, runs already cleared when the kill switch was engaged, faults so far |
| `Start`, `StartKilled` | `run` up to the first look at the kill switch |
| `ReadAccount` ... `ReadPositions`, `ReadRaises` | the four requests, and one of them failing (only the first is caught and logged) |
| `MakePlan` | `reconcile` and the sort that puts closes first |
| `CheckBlocks`, `CheckDryRun`, `CheckNothingToDo`, `CheckClears` | `preflight` and the three ways out of `run` after it |
| `SetLeverage`, `SetLeverageRaises` | one leverage request per order |
| `TakeOrder`, `Post` | the quantity sent, the `order_placed` line, the request |
| `OrderReturns`, `OrderRejected`, `OrderTimesOut` | the three outcomes the loop knows |
| `Complete`, `Crash` | the end of `run`; the process dying anywhere |
| `Execute`, `ExecutePart`, `Lose` | what becomes of an order on its way, at any moment, whether or not somebody waits for it |
| `MarketMoves`, `TouchKill`, `RemoveKill` | the world |

Quantities are integers, in units of the exchange's precision; money is integer
USDT and weights integers over `Scale`, so that `reconcile`'s divisions are exact
rationals. The one float effect that changes what is ordered is kept:
`round_step_down` floors a float quotient, and a multiple of the step whose quotient
lies just below an integer loses one step. It is called twice, in `reconcile` on the
distance to the target and in `fmt_qty` on the planned quantity, and both may lose one:
closing `0.7` at a step of `0.1` plans `0.6` and sends `0.5`. `ShortMultiples` is the
set of multiples of the step this happens to; `LowDeltas` says for which targets,
positions, prices and steps it happens to the difference `reconcile` computes.

`Allowance` says in fifty lines what that comes to for the account: a run is
granted, once, a signed quantity per symbol; each grant is used at most once and
in its direction; nothing else moves a position.

### Paper accounts

| Model | Code |
|---|---|
| `now`, `began` | time, in slots: the periods between two funding payments; the slot in which the script began |
| `EndDate`, `Today`, `LocalEnd` | the `--end` of every fetch, the local date when the script began; the UTC date of the health check; the time zone |
| `spot`, `perp`, `fund` | the data files of the task, reduced to the last bar and when it closed, the slot of each close, the last payment |
| `files` | the two state files: absent, cut off, or readable |
| `pc`, `tries` | the task's step; restarts used up |
| `halted` | majors whose series end |
| `FetchSpot`, `FetchPerp`, `FetchFunding`, `FetchFails` | the fetch steps; a symbol that raises is left out, a step that fails stops the script |
| `MarkAlpha`, `MarkTwo`, `AlphaRaises`, `TwoRaises` | `vfund paper` on either account |
| `Status` | `vfund status`, whose exit code is the script's |
| `Killed`, `KilledInSave` | the task dies; it dies between truncating a state file and writing it |
| `Start`, `Restart`, `Miss`, `StartByHand`, `Tick` | the scheduler, which starts a missed run late; the operator; time |
| `Slow` | a slot, and perhaps the day, ends while an attempt runs or waits for its restart |
| `Archive` | the operator does what the gap guard's message asks for |

The equity of an account is a product of returns; what can be wrong with it is
which returns are in it. So a price is represented by the slot it was taken in,
and a state file holds, for each coin and slot, how often the move of that slot
was credited, and likewise for funding payments. Two prices `a` and `b` give the
moves between `a` and `b`, as their quotient does in the code. Turnover cost,
sizes of weights, the basis and the split of capital between the pots do not
affect which moves are counted and are left out.

Three clocks meet in the task. The script dates its fetches by the local date of the
moment it began (update_paper.ps1:23), klines read that date as UTC and `fetch-funding`
as local time, and the health check asks for the UTC date of the moment it runs
(health.py:87). `LocalEnd` is the offset between the first two, in whole slots. An
attempt takes less than a slot, since its time limit is two hours, and so crosses at
most one boundary; two scripts at a time are left out.

### Paginated fetches

The loop is written four times: `fetch_klines` and `fetch_funding` inside the
loops of `fetch_universe` and `fetch_funding_universe`, and `fetch_funding` and
`fetch_oi` of the collector. `kind` tells them apart where they differ.

| Model | Code |
|---|---|
| `records`, `clock` | the exchange: the times of the records of each symbol, up to now |
| `kind`, `start`, `until` | which loop, `--start`, `--end` or none |
| `symbol`, `waiting`, `cursor`, `end`, `rows` | the locals: the symbol and those to come, `cursor`, `end_ms`, what the pages held |
| `panel` | what is kept of each symbol |
| `ends`, `seen`, `cut`, `faults` | history: `end_ms` of each symbol, when its last page was served, symbols an error reply ended, faults so far |
| `Begin` | the start of a symbol's loop, which without `--end` looks at the clock |
| `FullPage`, `LastPage`, `ReachesEnd` | a page of `limit` records; a short or empty one; `cursor >= end_ms` |
| `RequestRaises` | a timeout or a refused status: the symbol is skipped; the collector stops |
| `ErrorReply` | a JSON object in place of a list, which the collector takes for the end |
| `Finish` | the panel, or the exception that nothing was fetched |
| `Tick` | time passes; the exchange publishes |

What a record says is left out. With an `--end` in the future the exchange publishes
records of the range while its pages are fetched. The `unique` after each loop has
nothing to remove, which is what `BehindCursor` says.

### Research

What can be wrong with a backtest is what its numbers depend on, so in `Panel`,
`Strategies`, `CrossSection`, `WalkForward`, `Signal` and `Engine` a value is the set
of the times at which the observations it was computed from became known. `{}` is NaN
or null and `{0}` a constant the code fills in. NumPy arithmetic is `Strict` (one NaN
makes NaN), the nan-functions are `Skip`. Bar `b` opens at time `b` and closes at
`b + 1`; a day is a number of bars, so that a daily record can be stamped long before
it is known. Whether a comparison of two numbers comes out one way or the other is
not modelled: a rank depends on all that is ranked, and the order of the scores is
any fixed one that turns with the rows.

| Model | Code |
|---|---|
| `Timeline`, `PanelBars`, `Matrix` | `pivot_to_wide`, ragged or not |
| `FundingEvent`, `FundingPrevailing`, `AlignTvl`, `AlignOI`, `AlignMetrics`, `ShiftRows` | the alignments, their forward fills and the lag |
| `Strategies!Scores` | `scores` of every strategy, by name |
| `job`, `p` | the arguments of `CrossSectionalBacktester`, and what its constructor built |
| `t`, `book`, `earning`, `equity`, `trades` | the loop: the next row, `w_active`, the weights that earned the last row, what the equity depends on, the trade log |
| `native` | the same in `simulate`, whose schedule was planned before the loop |
| `Begin`, `Hold`, `Rebalance`, `Finish` | the constructor, a row without and with a rebalance, the end |
| `TargetWeights` | `_target_weights`: weights, short floor, volatility target, capacity; `Derisked` and `PartFilled` are the two overlays of the loop |
| `stage`, `study`, `start`, `trial`, `best`, `curve` | the locals of `walk_forward` |
| `StartStudy`, `TryParams`, `Judge`, `TestBest`, `Stitch`, `TooShort` | its steps; between them `CrossSection` runs a segment |
| `MakeCombined`, `MakeAlpha` | `combined_book`; `alpha_book`, with or without fees |
| `pending`, `current`, `position`; `Step` | the locals of `Backtester.run`; one bar |
| `worth`, `EquityAtOpen` | the sign of `portfolio.equity` when a target is executed |
| `resting`; `Add`, `Cancel`, `MatchMarket` | the two sides of `LimitOrderBook`; its methods |
| `move`, `orders`, `quotes`, `filled`; `NextStep`, `Order` | a step of the market maker; one order of it |

A formula is written as in the code, a call of an operator on columns: a column is a
function from the rows of a panel, and its value at a row the set of rows it was
computed from. What depends on the order of two numbers takes either way, the same for
the whole panel.

| Model | Code |
|---|---|
| `draft`; `Draft` | the body of an alpha as somebody may write it, call by call on the values that have names by then, including constructs from outside the vocabulary; its value on every panel |
| `gate`; `Register` | the `alpha` decorator and the purity gate |
| `judged`; `InformationCoefficient`, `ICReport`, `DecileSpread` | the bench on the whole panel; the reports of `ic.py`, one visible panel a bar |
| `Arith`, `Where`, `Rolling`, `Delay` | what an operator reads, and when it is NaN; every operator of `operators.py` is one of these |
| `OutOfRange` | the `ValueError` of a window or a lag below its least |
| `Score` | `FormulaicStrategy`: the last row of the visible panel, after the warmup |
| `alpha101_001` ... `academic_volume_trend` | `zoo.py`, alpha by alpha |

| Model | Code |
|---|---|
| `todo`, `waiting`, `running`, `answer`, `taken`, `rows` | the locals of `fetch_metrics`: symbols to list, futures not started, running and done, results read, rows |
| `BeginMetrics`, `SkipSymbol`, `AvailableFrom`, `OpenPool` | the listing, symbol by symbol |
| `StartDay`, `FetchDay` | a worker takes up a file; `_fetch_day` ends |
| `Take`, `LeavePool` | `as_completed` and `fut.result()`; the end of the `with`, which waits for all |
| `BeginPanel`, `SkipProtocol`, `AddProtocol`, `Concat` | `fetch_tvl_panel`, `fetch_fee_panel` |

Left out, beside the numbers: NaN from a division by zero or from a constant window;
the five fields of a bar, which are there or not together; the number of coins a
cross-sectional operator needs; and the names of the module around an alpha, which the
gate lets a body read. What the gate lets through besides calls, arithmetic and
comparisons of whole columns is in the vocabulary of drafts as `Uncaught`: subscripts,
attributes (`.T`), the operator `@`, iteration, and the size of the panel.

A single-asset position is its side. A target is a share of what the account is worth,
`Portfolio.equity`, which has no floor: a short that more than doubles against the
account leaves it below zero, and a target of +1 then sells. The model keeps the sign of
that value, and not how large it is.

In `CrossSection` the Python loop and the native one share the operators for what a row
does to the weights (`Earn`, `Drift`, `TargetWeights`): the model translates one body,
and compares when each loop rebalances. That the two bodies do the same arithmetic is
left to the repository's own test of it.

## 3. Runs

Each property below is described where it is defined.

**executor_overlap** - two runs, live or dry, that overlap in every way, over two
symbols, two books (one breaks the gross or the position limit), a market in
which a coin is delisted, a kill switch that comes and goes, and one fault of any
kind. `AuditTrail`, `OneOrderPerSymbol`, `AllOrNothing`, `ClosesFirst`,
`KillSwitchHolds`, and `ImplementsAllowance`: every behaviour of the executor is
one of `Allowance`. Two runs are enough because a run touches another only
through the exchange, the kill switch and the log, and the properties speak of
one run or of one run and the account; the theorems need no bound. Symmetry in
the runs is used; the run has no liveness property.

**executor_serial** - three runs one after the other over three symbols (one to
reduce by a quantity that `reconcile` cuts, one to turn from short to long, one to
close whose quantity both roundings cut), each started only when the orders of earlier
ones have settled, with up to two faults. `NeverPastTarget`: a run never takes a
position past its target. `CleanRunSettles`: after a run without a fault, another would
order at most the two steps that rounding can lose, and nothing where it loses none.
`FinishesWhatWasLeft`: the account comes that close to its target and stays there. Three
runs and two faults: two may be spoilt and the third must finish.

**weekly_task** - seven days of two slots, a run every second day, one restart,
two faults, two coins which are also the majors; the ladder is scaled to Fresh 3,
Critical 4, MaxGap 4 days, so that two missed runs exceed the gap and one reaches
it exactly. The time zone is half a day west of UTC, so that the local date lags behind
the other for half of each day, and a late or slow run crosses either midnight.
`CreditedOnce`, `EarnedOnly`, `SuccessMeansMarked`, `HistoryIntact`,
`RestartsSaveTheWeek`; and `RefusedWhenBroken`: the tracker refuses no account that is
not BROKEN and every account that was BROKEN the day before as well. On the day between,
either may happen.

**pagination** - the three kinds of loop over two symbols, pages of two records,
every history of up to five records, ends before, at and after the present or none, and
one fault; the clock ticks twice.
`BehindCursor`: a loop holds exactly what the exchange has from the start to the
cursor. `PanelComplete`: what is kept of a symbol is complete. `Finishes`: the
fetch ends. Five records make two full pages and a short one, and two full pages
and an empty one; two symbols, because one is kept while another is skipped; the
theorems need no bound.

**research** - the commands of the research side, each by itself, since they share no
state. For the backtester every strategy over six panels of three coins (every coin
throughout; one delisted on the last bar; late and delisted; halted; a bar nobody
has; too short to run), two feeds, five pairs of day length and lag, and nine sets of
overlays on a third of the strategies. `NoLookAhead`: the book after a row depends on
nothing later than its close, the row's return on nothing later than the close before,
provided the lag covers the delay of the data. `SameResult`: the native loop agrees
with the Python one wherever the build decides which runs. `PricedOrFilledIn`: only
strategies on filled or averaged data hold a coin that has no price. `OutOfSample`:
over five shapes of window, tiling, overlapping, with gaps, too long and too short.
`LivePriced`: the live books of every pair of panels. `EngineCausal`,
`HoldsLastTarget`: the one bar of delay, a None that leaves the target alone, and the side
that comes of it for an account worth something, nothing or less.
`BookConserved`, `BestPricesFirst`: every sequence of four operations at three prices.
`MakerPaysInformed`. `NoPeek`: every draft of two calls over eight rows that the
gate lets through. `Settled`: every alpha of the zoo from the first row to three past
its warmup. `DownloadComplete`: two symbols, two days, two workers.

The bounds: twelve bars are enough for the longest trailing statistic a strategy has
here (ten observations) to be full and to slide; three coins for a rank with one coin
missing; lags from a bar too little to a bar too many for the day; two calls for a
peek inside a window, a lag inside a lag and a branch on NaN; a rebalance every one,
two or three rows for rows that hold between those that trade. The theorems below do
not need them. Four operations on an order book are enough to fill a level twice and
exhaust it, or to sweep two levels. About 83 000 states.

### Where the code does not do what is said of it

Each of these runs checks one property that states a sentence of the
documentation, and TLC finds a behaviour of the code against it.

| Run | Sentence | What the code does |
|---|---|---|
| `executor_kill` | "halts all execution instantly" (README.md:458) | looks at the kill switch twice before the first order and not again |
| `executor_late` | "run it again after a crash and it finishes whatever was left" (execute.py:19-20) | orders again what an earlier order, still pending, is about to do |
| `executor_grow` | "max single position (15%)" (README.md:460) | limits each order, not the position |
| `weekly_lost` | "marks the held book forward by the price move since the last update" (paper.py:3) | drops the move of a held coin that one fetch left out |
| `weekly_carry` | "marked forward by realised funding - basis change" (paper.py:99-100) | credits the day of an update as far as it has come, and never the rest of it |
| `research_delisted` | "a held coin that delists simply stops contributing and is exited" (cross_sectional.py:133-135) | exits it at the bar, and buys it again at the next rebalance if the strategy's data are filled forward |
| `formulas_unlisted` | "NaN propagates. Nothing is silently filled with zero" (operators.py:28-32) | sums an empty window to 0.0, so that coins not listed yet are scored |

Met while modelling, and left without a run:

* The warmups of `alpha101_024` (110 bars, reads 199) and `alpha101_043` (30, reads
  38) end before their windows are full: their first scores depend on where the panel
  begins. `Settled` excepts the two.
* "Cannot express look-ahead" (operators.py:36-39), but the purity gate has rules for
  calls, names, dunder attributes and negative slices only (purity.py:98-140). So
  `p.close[-1]`, `rank(p.close.T).T`, `np.full(...) @ p.close` and a loop over the rows
  pass, and in the bench, which evaluates the whole panel at once, every row then reads
  later ones. On the visible panel of a strategy or a report it is harmless. `NoPeek`
  speaks of the bodies that stay within calls, arithmetic and comparisons of whole
  columns.
* A BROKEN account is one that "the tracker will refuse to advance" (health.py:20-22),
  but the two measure from different dates: run in the evening west of UTC, or across
  midnight, the tracker still accepts what `vfund status` calls BROKEN, for one day
  (`RefusedWhenBroken`).
* With the account below zero, `equity` is negative and a target takes the opposite side
  (engine.py:141-142).
* A lag of one bar covers a daily value only on daily bars: on hourly ones the
  alignment of TVL, metrics and open interest looks ahead (`Covered` in
  `CrossSection`). Funding is joined on the exact bar, so on a daily timeline the
  payments of 08:00 and 16:00 are dropped.
* Strategies that hold a coin without a price, besides FundingCarry: TVLMomentum,
  FundingMomentum, LiquidationBounce (also before the listing), those on open
  interest (forever), on exchange metrics (three bars), IlliquidReversal (one bar)
  and whatever averages its score over bars (`FilledIn`). The sleeves of the live
  books are none of these.
* In `FormulaicStrategy` the volume of an unlisted coin is 0, not NaN, and so ranked;
  and a panel without opens, highs and lows takes the closes, on which alphas on the
  bar's range are constant or NaN.
* `walk_forward` with a step shorter than the test segment stitches bars twice, the
  first bar of each test segment is dropped, and a grid on which every score is NaN
  yields its first parameters.
* `FlowConfirmation` computes its returns once and the strategies on open interest
  index it by the row of the slice, so that a run on a segment reads other bars' data.
* A metrics file that is there but unreadable raises out of its future and ends the
  whole download, after all the other files were fetched, although it "must not be
  killable by one" (vision.py:190-192); a failed request leaves a day out silently.
* `LimitOrderBook.add` never matches, so that the sides may cross, and leaves an empty
  level when it is given a quantity of zero.
* "Sets exchange-side max leverage to 3× on every symbol before any order"
  (README.md:461), but a leverage request that raises is only logged and
  the orders go out (execute.py:327-328).
* "Reducing orders execute before opening orders" (README.md:463), but the sort
  moves only full closes to the front; an order that reduces a position keeps
  its place (execute.py:437).
* "Every order, fill, skip, and error is written" (README.md:462), but
  `reconcile`'s skips are only counted (execute.py:422), a held coin without a
  price is dropped without a word (206-209), and a failure of the second to
  fourth request is not logged.
* `order_filled` is written for any answer without an error, also one that says
  `NEW` with nothing executed.
* A position above 15% of equity cannot be closed: its closing order breaks the
  limit and blocks the run; so does an equity of zero, for every order.
* With a `quantityPrecision` coarser than the step, the final `round` of
  `round_step_down` (exchange.py:69-75) could round up. The model takes the
  precision to be as fine as the step, as on Binance.
* A major that stops trading ends the carry sleeve for all majors, silently
  (carry.py:137).
* The collector "Paginates automatically" (collector.py:76), but an error reply in
  the middle, such as a rate limit, ends the symbol with what it has and without
  a word (collector.py:97-98): `PanelComplete` has to except those symbols.
* Without `--end` each symbol's fetch ends when it began, so that in one panel the
  later symbols may have a bar more than the earlier; and a bar that opens at
  `--end` is fetched or not, depending on where a page ends.
* A gap guard that refuses 46 days ahead accepts any panel older than the
  account (paper.py:156).

### Fairness

`Executor!FairSpec`: weak fairness of each run's own next step, since every
request has a timeout and nothing in the loop waits otherwise, and of starting
the next run, since "run it again" is the premise of the claim; and of the
exchange settling what it has. Faults, the market and the operator are never
forced. `WeeklyTask!FairSpec`: weak fairness of the script's steps (they have
timeouts and the task a limit) and of the scheduler. The operator is not fair:
nobody is assumed to run anything by hand or to archive a file.
`Pagination!FairSpec`: weak fairness of the loop, which waits for nothing but
requests with a timeout; neither time nor faults are forced.

### Deadlock

Every run sets `CHECK_DEADLOCK FALSE`: the invocations of `vfund execute` are
finitely many and end, the calendar of the weekly task ends, and so does a fetch. That nothing
gets stuck before is what the liveness properties say. A backtest, a study, a
download or a draft ends likewise.

## 4. Proofs

`ExecutorProofs` proves, for any set of runs, symbols, books, markets, initial
positions and faults:

* `TypeCorrect`: `Spec => []TypeOK`. The work is in `PlanTyped` and what it rests
  on: rounding down yields a natural number of at most what was intended
  (`RoundsDown`), so every planned order is one (`PlannedOrderTyped`), with at
  most one per symbol (`PlanFunctional`).
* `Inductive`: `Spec => []IInv`. None of the safety properties is inductive. That
  no order is sent twice rests on `Unsent`: what is left to send was never posted.
  That only checked plans are traded rests on `NothingYet` and
  `TradesPassedPlan`, which tie what was posted to the stage of the run. That the
  log accounts for every order rests on `OrderInHand`: which line may be missing
  at each stage, and that the order placed is the next to be posted. That the
  kill switch holds rests on `KnownToKill`. `IInv` is their conjunction with
  `TypeOK`; a step of a run keeps its own part, and the other runs' parts read
  nothing it changes (`Frame`).
* `AuditTrailHolds`, `OneOrderPerSymbolHolds`, `AllOrNothingHolds`,
  `ClosesFirstHolds`, `KillSwitchHoldsAlways`: the five properties of
  executor_overlap, from `IInv`.

`ExecutorRefinement` proves `ExecutorImplementsAllowance`: `Spec =>
ImplementsAllowance`. The mapping gives each run and symbol the order on its way,
or else the one still in the plan, as its allowance. That this is well defined is
`WireInv`: an order on its way belongs to a granted run, is the only one of its
run and symbol, and has none left in the plan beside it (by `Unsent`). Then a step
before the pre-flight checks is a stutter or grants nothing; passing the checks
grants the plan; dropping, rounding down, a refusal, a loss or a crash gives up
part of the grant; an execution, in part or in full, uses it.

`ExecutorRefinement` also proves `SerialRunsNeverPastTarget`: if runs come one after the other and
each order settles before the next run, no run takes a position past its target,
whatever else fails. By `SerialInv`, the run between reading the account and its last
order is alone: all orders on their way are its own, what it read of the positions is
what they are until it is cleared, and from then on what it has moved, and that
together with what it may still move, lie within its plan (`OnTheWay`). A step keeps
this because it is one of the four steps of `Allowance` (`AloneStep`): the refinement
does the work. That a plan does not overshoot is arithmetic on `RoundsDown`.

And `CleanRunSettlesSteady`: while equity, prices and listings stand still (`Steady`:
the market does not move, which the run `executor_serial` does not let it do either, for
a target is a number of units only at one price), `CleanRunSettles` holds for any
symbols, books, steps, precisions and prices. It is a balance: of a run that is alone
and meets no fault, a position is what was read, plus what has been executed, and what
is on its way or still to be sent makes up the rest of its plan (`CleanInv`). When the run
has ended nothing is pending, so each position is off its target by less than a step, and
by the two more that `reconcile` and `fmt_qty` may lose; that a second `reconcile` orders
at most two steps, and none where no quotient falls short, is arithmetic on `RoundsDown`. It needs that `MIN_ORDER_USDT`
is positive: with zero, an order for nothing would be planned.

`PaginationProofs` proves, for any list of symbols, page size, bar length and
history: `BehindCursorHolds` and `PanelCompleteHolds`. The invariant adds to them
what makes them inductive: what the exchange still publishes is later than all there is
(`Dated`), and the cursor is at most one grid step past a record that was there, so that
nothing new falls behind it, even with an end in the future (`CursorPast`); and a symbol is
fetched once (`InTurn`). The other step that matters is a full page: no record lies between
its last one and the next cursor, for bars because two of them are at least a step apart
(`GridGap`). A page is what the exchange's documentation says of it: the oldest
records asked for, all of them if it is not full.

The assumptions are those on the constants, which TLC evaluates in every run:
symbols are positive integers (in the order the code takes them), limits and
prices natural numbers, steps and pages positive.

`WeeklyTaskProofs` proves, for any calendar, coins, ladder, number of restarts and
faults, `WeeklyTypesCorrect`, `CreditedOnceAlways`, `EarnedOnlyAlways`,
`HistoryIntactAlways`, `RefusedWhenBrokenAlways` and `SuccessMeansMarkedAlways`. The
invariant `WeeklyInv` says of each readable file (`Sound`) that its newest update is
not in the future, its prices are of that update or missing, and what it has credited
lies at or before it; so what an update adds lies after all that is there
(`CreditedOnce`), and between two entries of the history (`EarnedOnly`). `Fetched`
ties the last bar of a running task's panel to the slots in which the task began and
is: it is of today or the day before, in UTC, without which the health check and the gap
guard could drift further apart; `MarkedSoFar` says what the steps behind have achieved.

`CrossSectionProofs` proves, for any coins, history, jobs, lags and overlays:

* `SameResultAlways`. The native loop follows a schedule computed beforehand:
  `SameInv` says that its pointer counts the rows of the schedule behind the loop, so
  the planned row is `t` exactly on a rebalance row (`Advance`).
* `NoLookAheadAlways`. From the cells up: what an operator reads is known by when
  (`Known`, `UpTo`), hence every strategy's score (`ScoresKnown`), every overlay
  (`TargetKnown`) and the drift. That row `i` of a matrix is known by the close of row
  `i` needs that rows follow each other in time (`TimelineOrder`, by counting the
  bars before a bar), that a forward fill looks back only (`FfillWithin`) and that a
  lag of `k` rows is at least `k` bars (`ShiftWithin`), which is where the premise on
  the lag comes in. `CausalInv` carries it along the run.

`PortfolioProofs` proves, under the assumptions that the jobs, studies and markets are
such as the command line can make (`JobsAssumption`, `StudiesAssumption` and the
like):

* `PricedOrFilledInAlways`, by `PricedInv`: the scores of a strategy that is strict in
  the last close are missing where it is (`ScoresPriced`), an overlay never adds a coin
  (`NoMore`), and the drift drops those without a price.
* `LivePricedAlways`, since the live sleeves are such strategies and the last row of a
  timeline is its last bar (`TimelineLast`). Trying to prove it showed that strategies
  that average their score hold such a coin too, which the bounds of the run had been
  too small to show; they were raised.
* `BacktesterInStudy`: the three invariants of the backtester hold inside a walk-forward
  study. The cut of a panel is a panel again (`SegmentJob` yields one of `Backtests`),
  and each step of a study is a step of the backtester or leaves it alone
  (`WalkDriven`), so that its invariants need not be proved again.
* `OutOfSampleAlways`, for grids of strategies that read only prices, volumes and funding
  (`ContextOnly`; no study of the repository has another), by `WalkInv`, which adds
  which segment is being run with which parameters (`InWindow`), that the choice rests on
  nothing after the last training bar, and that the stitched curve ends before the next
  test segment (`Stitched`).

`SimulatorProofs` proves `EngineCausalHolds` and `HoldsLastTargetAlways` for every
strategy that decides from what the context shows and whatever the account is worth at
each open, by `EngineInv`, which adds that an order waits unless the last bar's target changes nothing; `MakerPaysInformedAlways`, by
`MakerInv`: the fills of a step are the quotes that are gone, and what they earned is
what those quotes earn; and `BookConservedAlways` and `BestPricesFirstAlways`. The depth
of a book is a sum over a finite set of prices, and that a sum may be taken apart at any
price (`SumSplit`) is an induction. The library's induction rules take an operator,
which no prover here can instantiate; `SubsetInduction` says the same of a set in its
place, and follows from the well-foundedness of the strict subsets of a finite set.

`ResearchProofs` proves:

* `NoPeekAlways`, for bodies of any number of calls over any lags, on panels of any
  length, that stay within calls, arithmetic and comparisons of whole columns. Two columns, of a panel and of what is visible of it at a row, are `Prefix` of
  each other when they agree up to the row and read nothing later than the row they
  write; every operator keeps this (`CalledPrefix`), with one lemma for arithmetic, one
  for branches, one for lags and one for windows. `DraftInv` says that a body the gate
  has nothing against has only such values (`LooksBack`). A body is, as in Python,
  the values of its calls; a syntax tree would take a recursive operator to evaluate,
  about which nothing could be proved here.
* `SettledAlways`. For each of the 39 alphas a lemma (`alpha101_001_ready` ...) says from
  which row of a young panel it has a value and the same as on a panel that began 600
  rows before (`Agree`), operator by operator; that row is its lookback, and at most its
  warmup. So the theorem checks every `warmup=` of `zoo.py` against the formula beside
  it, for rows as far as one likes; the 600 rows are those of the model.
* `DownloadCompleteAlways`, by `DownloadInv`: every record of a symbol that was not
  skipped is waiting, running, answered or taken, and in one of these at a time.
* `CommandsRunComponents`: a behaviour of `ResearchSpec` is one of the live books, the
  engine, the order book, the market maker, the drafts, the zoo and the downloads, each
  by itself; `BacktestsSound` says the same of the backtester, which two commands drive,
  in terms of its invariants; and with them `ResearchSound`: all thirteen invariants of
  the run `research`, of the very specification it checks, for every value of its
  constants.

Only model-checked: liveness, `FinishesWhatWasLeft`, `RestartsSaveTheWeek` and
`Finishes`, which is out of the prover's reach here; and the properties of the runs that
TLC finds violated.

## 5. What is left

Worth doing next, in this order:

1. Two invocations of `vfund paper` on one account at a time (paper.py:174): the
   later save drops the other's update. The weekly task would become two processes,
   with `load` and `save` apart.
2. The state `FlowConfirmation` and the strategies on open interest, positioning and
   dollar volume keep over a walk-forward study: their rows are those of the whole panel,
   and on a segment they read other bars. Nor does a study cut TVL to the segment. The studies of the model take strategies
   without such state (`ContextOnly`), and `StudiesAssumption` says so.

### Not modelled

* Storage, schemas, synthetic data, yahoo.py, plotting: I/O and data.
* Robustness, seasonality, volatility premia, performance ratios: statistics
  computed in one pass on float arrays.
* How large a weight, a return or a cost is, in the backtesters and the signal; the
  carry sleeve's basket and basis; turnover cost in the paper accounts.
* `markets.py`, whose adapters are half unimplemented; the choice of the universe by
  volume; `train_test_split`; stablecoin supply, which no strategy reads.
* The six hazards of `PROJECT.json` without a property: what the code does there is
  modelled or described above, and nothing is promised of it that could be checked, or
  (the account marked with an older panel, and two invocations at a time) it takes a
  call by hand that the scheduled task never makes.
