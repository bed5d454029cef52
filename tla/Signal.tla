-------------------------------- MODULE Signal --------------------------------
(***************************************************************************)
(* The live books (live/signal.py): the engine's own target weights at the *)
(* last bar of each sleeve's panel, added up.  How much each sleeve gets   *)
(* is left out; every sleeve gets something.                               *)
(***************************************************************************)
EXTENDS CrossSection

CONSTANT Markets       \* pairs of panels: a broad one and one of protocols

ASSUME MarketsAssumption ==
  \A m \in Markets : \A data \in {m.broad, m.defi} :
    /\ data.listed \in [Coins -> SUBSET Bars]
    /\ \E c \in Coins : data.listed[c] # {}

VARIABLE live          \* the Book the command made: from what, asof, its coins

NoBook == [kind |-> "none"]
Raised == [kind |-> "raised"]

\* Target weights at the engine's final bar.
EngineWeights(j) == LET q == Load(j) IN TargetWeights(j, q, Rows(q) - 1)
LastBar(j) == LET q == Load(j) IN q.ts[Rows(q) - 1]

Sleeve(strategy, data) ==
  [strategy |-> strategy, every |-> 7, turn |-> 0, topk |-> 0, neutral |-> TRUE,
   floor |-> 0, vol |-> FALSE, capacity |-> FALSE, derisk |-> FALSE, maker |-> FALSE,
   ragged |-> TRUE, listed |-> data.listed, feed |-> data.feed, day |-> 1, lag |-> 1]

\* The horizons of the live sleeves, cut down to the bars of the model.
TrendHorizon == 1
SizeHorizon == 2
ChainHorizon == 3
Horizon(name, k) == [name |-> name, k |-> k, window |-> 0, smooth |-> 0]

TrendSleeve(data, floor) ==
  [Sleeve(Horizon("ensemble", TrendHorizon), data) EXCEPT
     !.neutral = FALSE, !.vol = TRUE, !.floor = floor]
SizeSleeve(data, floor) ==
  [Sleeve(Horizon("size", SizeHorizon), data) EXCEPT !.topk = 1, !.floor = floor]
ChainSleeve(data, k) ==
  [Sleeve(Horizon("tvldivergence", k), data) EXCEPT !.topk = 1]

InSleeves(sleeves) == UNION {Held(EngineWeights(j)) : j \in sleeves}

CombinedBook(m, floor, capacity) ==
  LET sleeves == {[j EXCEPT !.capacity = capacity] :
                    j \in {TrendSleeve(m.broad, floor), SizeSleeve(m.broad, floor)}}
  IN  [kind |-> "combined", market |-> m, asof |-> LastBar(TrendSleeve(m.broad, floor)),
       coins |-> InSleeves(sleeves)]

\* A fourth sleeve when protocol fees are given; asof is the last sleeve's.
AlphaBook(m, floor, fees) ==
  LET chain == {ChainSleeve(m.defi, ChainHorizon)} \cup
               (IF fees THEN {ChainSleeve(m.defi, ChainHorizon - 1)} ELSE {})
  IN  [kind |-> "alpha", market |-> m, asof |-> LastBar(ChainSleeve(m.defi, ChainHorizon)),
       coins |-> InSleeves({TrendSleeve(m.broad, floor), SizeSleeve(m.broad, floor)} \cup chain)]

MakeCombined ==
  /\ live = NoBook
  /\ \E m \in Markets, floor \in {0, 1}, capacity \in BOOLEAN :
       live' = CombinedBook(m, floor, capacity)

\* A sleeve's backtest, run for its volatility, needs three bars.
TooFewBars(m) ==
  \E data \in {m.broad, m.defi} : Cardinality(PanelBars(data.listed, TRUE)) < 3

MakeAlpha ==
  /\ live = NoBook
  /\ \E m \in Markets, floor \in {0, 1}, fees \in BOOLEAN :
       live' = IF TooFewBars(m) THEN Raised ELSE AlphaBook(m, floor, fees)

LiveInit == live = NoBook
LiveNext == MakeCombined \/ MakeAlpha
LiveSpec == LiveInit /\ [][LiveNext]_live

-----------------------------------------------------------------------------
\* Every coin of a live book has a price on the last bar of a panel the book
\* was made from, so a delisted coin never reaches the order list, although
\* the strategies behind the book do not ask whether a coin is tradable.
\* (signal.py:38-50, cross_sectional.py:154-171)
LivePriced ==
  live \notin {NoBook, Raised} =>
    \A c \in live.coins : \E data \in {live.market.broad, live.market.defi} :
      LET bars == PanelBars(data.listed, TRUE)
      IN  \E b \in data.listed[c] : \A x \in bars : x <= b
=============================================================================
