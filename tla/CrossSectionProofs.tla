-------------------------- MODULE CrossSectionProofs --------------------------
(***************************************************************************)
(* Proofs about the cross-sectional backtester: SameResult and             *)
(* NoLookAhead, for any coins, any history and any job.                    *)
(***************************************************************************)
EXTENDS CrossSection, FiniteSetTheorems, TLAPS

\* What a step of the loop is, whoever drives it.
Driven ==
  \/ Hold \/ Rebalance \/ Finish
  \/ \E j \in Backtests : Begin(j)
  \/ ~Begun' \/ UNCHANGED vars

LEMMA NextDriven == [Next]_vars => Driven
BY JobsAssumption DEF Next, Driven

\* How many rows of the schedule are behind the loop.
Behind == Cardinality({h \in RebalanceRows(job, p) : h < t})

\* The native loop holds what the Python loop holds, and its pointer counts
\* the rows of the schedule that it has been through.
SameInv ==
  Begun =>
    /\ t \in Nat \ {0} /\ Rows(p) \in Nat
    /\ Eligible4Native(job) =>
         native = [book |-> book, equity |-> equity, trades |-> trades, ptr |-> Behind]

-----------------------------------------------------------------------------
LEMMA FiniteCoins == IsFiniteSet(Coins)
BY CoinsAssumption

LEMMA FiniteBars == IsFiniteSet(Bars)
BY BarsAssumption, FS_Interval DEF Bars

\* A panel has a finite number of bars.
LEMMA PanelBarsFinite ==
  ASSUME NEW listed \in [Coins -> SUBSET Bars], NEW ragged
  PROVE  PanelBars(listed, ragged) \subseteq Bars /\ IsFiniteSet(PanelBars(listed, ragged))
<1>1. PanelBars(listed, ragged) \subseteq Bars
  BY DEF PanelBars
<1> QED
  BY <1>1, FiniteBars, FS_Subset

LEMMA TimelineRows ==
  ASSUME NEW S, IsFiniteSet(S)
  PROVE  Cardinality(DOMAIN Timeline(S)) \in Nat
<1>1. Cardinality(S) \in Nat
  BY FS_CardinalityType
<1>2. DOMAIN Timeline(S) = 0 .. Cardinality(S) - 1
  BY DEF Timeline
<1> HIDE DEF Timeline
<1>3. IsFiniteSet(0 .. Cardinality(S) - 1)
  BY <1>1, FS_Interval
<1>4. Cardinality(0 .. Cardinality(S) - 1) \in Nat
  BY <1>3, FS_CardinalityType
<1> QED
  BY <1>2, <1>4

\* What the arguments of a backtest are.
LEMMA JobFields ==
  ASSUME NEW j \in Backtests
  PROVE  /\ j.listed \in [Coins -> SUBSET Bars] /\ j.feed \in [Coins -> SUBSET Bars]
         /\ j.strategy.name \in StrategyNames
         /\ j.strategy.k \in Nat /\ j.strategy.smooth \in Nat
         /\ j.day \in Nat \ {0} /\ j.lag \in Nat
BY DEF Backtests

LEMMA LoadRows == ASSUME NEW j \in Backtests PROVE Rows(Load(j)) \in Nat
<1>1. j.listed \in [Coins -> SUBSET Bars]
  BY JobFields
<1>2. Load(j).ts = Timeline(PanelBars(j.listed, j.ragged))
  BY DEF Load
<1> QED
  BY <1>1, <1>2, PanelBarsFinite, TimelineRows DEF Rows

LEMMA ScheduleFinite ==
  ASSUME NEW j, NEW q, Rows(q) \in Nat
  PROVE  IsFiniteSet(RebalanceRows(j, q)) /\ RebalanceRows(j, q) \subseteq Int
<1>1. RebalanceRows(j, q) \subseteq 1 .. Rows(q) - 1
  BY DEF RebalanceRows
<1>2. IsFiniteSet(1 .. Rows(q) - 1)
  BY FS_Interval
<1> QED
  BY <1>1, <1>2, FS_Subset

\* The rows of a schedule before the next row: one more when this row is one.
LEMMA Advance ==
  ASSUME NEW j, NEW q, Rows(q) \in Nat, NEW i \in Nat
  PROVE  Cardinality({h \in RebalanceRows(j, q) : h < i + 1}) =
           Cardinality({h \in RebalanceRows(j, q) : h < i}) +
             (IF i \in RebalanceRows(j, q) THEN 1 ELSE 0)
<1> DEFINE R == RebalanceRows(j, q)
           Before == {h \in R : h < i}
<1>1. IsFiniteSet(R) /\ R \subseteq Int
  BY ScheduleFinite
<1>2. IsFiniteSet(Before) /\ i \notin Before
  BY <1>1, FS_Subset
<1>3. Cardinality(Before) \in Nat
  BY <1>2, FS_CardinalityType
<1> HIDE DEF R
<1>4. \A h \in R : h < i + 1 <=> h < i \/ h = i
  BY <1>1
<1>5. CASE i \in R
  <2>1. {h \in R : h < i + 1} = Before \cup {i}
    BY <1>4, <1>5
  <2> HIDE DEF Before
  <2>2. Cardinality(Before \cup {i}) = Cardinality(Before) + 1
    BY <1>2, FS_AddElement
  <2>3. Cardinality({h \in R : h < i + 1}) = Cardinality(Before) + 1
    BY <2>1, <2>2
  <2> QED
    BY <1>5, <2>3 DEF R, Before
<1>6. CASE i \notin R
  <2>1. {h \in R : h < i + 1} = Before
    BY <1>4, <1>6
  <2>2. Cardinality({h \in R : h < i + 1}) = Cardinality(Before) + 0
    BY <1>3, <2>1
  <2> QED
    BY <1>6, <2>2 DEF R
<1> QED
  BY <1>5, <1>6 DEF R

LEMMA BehindType ==
  ASSUME Rows(p) \in Nat PROVE Behind \in Nat
<1>1. IsFiniteSet({h \in RebalanceRows(job, p) : h < t})
  BY ScheduleFinite, FS_Subset
<1> QED
  BY <1>1, FS_CardinalityType DEF Behind

LEMMA SameBegin == ASSUME NEW j \in Backtests, Begin(j) PROVE SameInv'
<1>1. p' = Load(j) /\ t' = 1 /\ native' = Fresh
  BY DEF Begin
<1>2. Rows(p') \in Nat
  BY <1>1, LoadRows
<1>3. Behind' = 0
  <2>1. \A h \in RebalanceRows(job', p') : h \in Int /\ h >= 1
    BY <1>2 DEF RebalanceRows
  <2>2. {h \in RebalanceRows(job', p') : h < 1} = {}
    BY <2>1
  <2> QED
    BY <1>1, <2>2, FS_EmptySet DEF Behind
<1>4. book' = Flat /\ equity' = {} /\ trades' = {}
  BY DEF Begin
<1> QED
  BY <1>1, <1>2, <1>3, <1>4 DEF SameInv, Fresh

LEMMA SameHold == ASSUME SameInv, Hold PROVE SameInv'
<1>1. /\ Begun /\ t < Rows(p) /\ t' = t + 1 /\ job' = job /\ p' = p
      /\ ~Rebalances(job, t)
      /\ book' = Drift(p, t, book) /\ equity' = equity \cup Earn(p, t, book) /\ trades' = trades
      /\ native' = IF Eligible4Native(job) THEN Simulate ELSE native
  BY DEF Hold, Row, Begun
<1>2. t \in Nat \ {0} /\ Rows(p) \in Nat
  BY <1>1 DEF SameInv
<1>3. t \notin RebalanceRows(job, p)
  BY <1>1 DEF RebalanceRows
<1>4. Behind' = Behind
  <2>1. Behind' = Cardinality({h \in RebalanceRows(job, p) : h < t + 1})
    BY <1>1 DEF Behind
  <2>2. Behind' = Behind + 0
    BY <1>2, <1>3, <2>1, Advance DEF Behind
  <2> QED
    BY <1>2, <2>2, BehindType
<1>5. ASSUME Eligible4Native(job)
      PROVE  native' = [book |-> book', equity |-> equity', trades |-> trades', ptr |-> Behind]
  <2>1. native = [book |-> book, equity |-> equity, trades |-> trades, ptr |-> Behind]
    BY <1>1, <1>5 DEF SameInv
  <2>2. t \notin Planned(job, p, native.ptr)
    BY <1>3 DEF Planned
  <2>3. native' = [native EXCEPT !.book = Drift(p, t, native.book),
                                 !.equity = native.equity \cup Earn(p, t, native.book)]
    BY <1>1, <1>5, <2>2 DEF Simulate
  <2> QED
    BY <1>1, <2>1, <2>3
<1> QED
  BY <1>1, <1>2, <1>4, <1>5 DEF SameInv, Eligible4Native

LEMMA SameRebalance == ASSUME SameInv, Rebalance PROVE SameInv'
<1> DEFINE earned == equity \cup Earn(p, t, book)
           drifted == Drift(p, t, book)
           target == TargetWeights(job, p, t)
<1>1. /\ Begun /\ t < Rows(p) /\ t' = t + 1 /\ job' = job /\ p' = p
      /\ Rebalances(job, t)
      /\ native' = IF Eligible4Native(job) THEN Simulate ELSE native
  BY DEF Rebalance, Row, Begun
<1>2. t \in Nat \ {0} /\ Rows(p) \in Nat
  BY <1>1 DEF SameInv
<1>3. t \in RebalanceRows(job, p)
  BY <1>1, <1>2 DEF RebalanceRows
<1>4. Behind' = Behind + 1
  <2>1. Behind' = Cardinality({h \in RebalanceRows(job, p) : h < t + 1})
    BY <1>1 DEF Behind
  <2> QED
    BY <1>2, <1>3, <2>1, Advance DEF Behind
<1>5. ASSUME Eligible4Native(job)
      PROVE  native' = [book |-> book', equity |-> equity', trades |-> trades', ptr |-> Behind + 1]
  <2>1. native = [book |-> book, equity |-> equity, trades |-> trades, ptr |-> Behind]
    BY <1>1, <1>5 DEF SameInv
  <2>2. t \in Planned(job, p, native.ptr)
    BY <1>3, <2>1 DEF Planned, Behind
  <2>3. native' = [book |-> target, ptr |-> native.ptr + 1,
                   equity |-> earned \cup DependsOn(drifted) \cup DependsOn(target),
                   trades |-> IF Traded(drifted, target) THEN trades \cup {t} ELSE trades]
    BY <1>1, <1>5, <2>1, <2>2 DEF Simulate, Rebalanced
  <2>4. /\ book' = target
        /\ equity' = earned \cup DependsOn(drifted) \cup DependsOn(target)
        /\ trades' = IF Traded(drifted, target) THEN trades \cup {t} ELSE trades
    BY <1>5 DEF Rebalance, Eligible4Native, PartFilled, Derisked
  <2> HIDE DEF earned, drifted, target
  <2> QED
    BY <2>1, <2>3, <2>4
<1> QED
  BY <1>1, <1>2, <1>4, <1>5 DEF SameInv, Eligible4Native

LEMMA SameDriven == SameInv /\ Driven => SameInv'
<1> SUFFICES ASSUME SameInv, Driven PROVE SameInv'
  OBVIOUS
<1>1. CASE Hold
  BY <1>1, SameHold
<1>2. CASE Rebalance
  BY <1>2, SameRebalance
<1>3. CASE Finish
  <2>1. Begun /\ UNCHANGED <<job, p, t, book, equity, trades, native>>
    BY <1>3 DEF Finish, Begun
  <2> QED
    BY <2>1 DEF SameInv, Behind
<1>4. CASE \E j \in Backtests : Begin(j)
  BY <1>4, SameBegin
<1>5. CASE UNCHANGED vars
  BY <1>5 DEF vars, SameInv, Begun, Behind
<1>6. CASE ~Begun'
  BY <1>6 DEF SameInv
<1> QED
  BY <1>1, <1>2, <1>3, <1>4, <1>5, <1>6 DEF Driven

\* The native loop and the Python loop agree after every row, for any schedule
\* and any job that may use either.  (cross_sectional.py:143-149, lib.rs:3-4)
THEOREM SameResultAlways == Spec => []SameResult
<1>1. Init => SameInv
  BY DEF Init, SameInv, Begun
<1>2. SameInv => SameResult
  BY DEF SameInv, SameResult
<1>3. SameInv /\ [Next]_vars => SameInv'
  BY SameDriven, NextDriven
<1> QED
  BY <1>1, <1>2, <1>3, PTL DEF Spec
-----------------------------------------------------------------------------
(* What is known from which times, from the cells of a matrix up.          *)

\* A vector of values that come from the given times alone.
Known(x, times) == \A c \in Coins : x[c] \subseteq times

\* Every row of m up to row i does.
UpTo(m, i, times) == 0 .. i \subseteq DOMAIN m /\ \A r \in 0 .. i : Known(m[r], times)

\* What strategy s reads of p at row i does.
DataKnown(s, p0, i, times) ==
  /\ UpTo(p0.close, i, times) /\ UpTo(p0.volume, i, times)
  /\ UpTo(p0.prevailing, i, times) /\ UpTo(p0.adv, i, times)
  /\ Reads(s.name) = "tvl" => UpTo(p0.tvl, i, times)
  /\ Reads(s.name) = "oi" => UpTo(p0.oi, i, times) /\ UpTo(p0.metric, i, times)
  /\ Reads(s.name) = "metric" => UpTo(p0.metric, i, times)

LEMMA StrictWithin == \A S, times : (\A x \in S : x \subseteq times) => Strict(S) \subseteq times
BY DEF Strict, Missing

LEMMA SkipWithin == \A S, times : (\A x \in S : x \subseteq times) => Skip(S) \subseteq times
BY DEF Skip

LEMMA NanKnown == \A times : Known(Nan, times)
BY DEF Known, Nan, Missing

LEMMA OverKnown ==
  ASSUME NEW m, NEW i, NEW times, UpTo(m, i, times), NEW R \in SUBSET (0 .. i)
  PROVE  Known(Over(m, R), times) /\ Known(OverSkip(m, R), times)
<1> SUFFICES ASSUME NEW c \in Coins
             PROVE  Over(m, R)[c] \subseteq times /\ OverSkip(m, R)[c] \subseteq times
  BY DEF Known
<1>1. \A x \in {m[r][c] : r \in R} : x \subseteq times
  BY DEF UpTo, Known
<1> QED
  BY <1>1, StrictWithin, SkipWithin DEF Over, OverSkip

LEMMA BothKnown ==
  ASSUME NEW x, NEW y, NEW times, Known(x, times), Known(y, times)
  PROVE  Known(Both(x, y), times)
<1> SUFFICES ASSUME NEW c \in Coins PROVE Both(x, y)[c] \subseteq times
  BY DEF Known
<1>1. \A v \in {x[c], y[c]} : v \subseteq times
  BY DEF Known
<1> QED
  BY <1>1, StrictWithin DEF Both

LEMMA RankKnown ==
  ASSUME NEW x, NEW times, Known(x, times), NEW least
  PROVE  Known(RankOf(x, least), times)
BY DEF RankOf, Known, Valid, Missing

LEMMA ChangeKnown ==
  ASSUME NEW m, NEW i \in Nat, NEW times, UpTo(m, i, times), NEW k \in Nat, k <= i
  PROVE  Known(Change(m, i, k), times)
<1>1. {i - k, i} \in SUBSET (0 .. i)
  OBVIOUS
<1> QED
  BY <1>1, OverKnown DEF Change

LEMMA LastRows == ASSUME NEW i \in Nat, NEW n PROVE Last(i, n) \in SUBSET (0 .. i)
BY DEF Last

LEMMA ZKnown ==
  ASSUME NEW m, NEW i \in Nat, NEW times, UpTo(m, i, times), NEW window, NEW least
  PROVE  Known(Z(m, i, window, least), times)
<1> SUFFICES ASSUME NEW c \in Coins PROVE Z(m, i, window, least)[c] \subseteq times
  BY DEF Known
<1>1. \A r \in Last(i, window) : m[r][c] \subseteq times
  BY LastRows DEF UpTo, Known
<1> QED
  BY <1>1 DEF Z, Missing

LEMMA UpToEarlier ==
  ASSUME NEW m, NEW i \in Nat, NEW times, UpTo(m, i, times), NEW h \in 0 .. i
  PROVE  UpTo(m, h, times)
<1>1. 0 .. h \subseteq 0 .. i
  OBVIOUS
<1> QED
  BY <1>1 DEF UpTo

LEMMA ChangesKnown ==
  ASSUME NEW m, NEW i \in Nat, NEW times, UpTo(m, i, times), NEW k \in Nat
  PROVE  UpTo(Changes(m, k), i, times)
<1>1. 0 .. i \subseteq DOMAIN Changes(m, k)
  BY DEF Changes, UpTo
<1>2. ASSUME NEW h \in 0 .. i PROVE Known(Changes(m, k)[h], times)
  <2>1. h \in DOMAIN m /\ h \in Nat
    BY DEF UpTo
  <2>2. CASE h < k
    BY <2>1, <2>2, NanKnown DEF Changes
  <2>3. CASE ~(h < k)
    <3>1. Known(Change(m, h, k), times)
      BY <2>1, <2>3, UpToEarlier, ChangeKnown
    <3> QED
      BY <2>1, <2>3, <3>1 DEF Changes
  <2> QED
    BY <2>2, <2>3
<1> QED
  BY <1>1, <1>2 DEF UpTo

LEMMA SmoothedKnown ==
  ASSUME NEW raw, NEW i \in Nat, NEW times, \A h \in 0 .. i : Known(raw[h], times), NEW n
  PROVE  Known(Smoothed(raw, i, n), times)
<1> SUFFICES ASSUME NEW c \in Coins PROVE Smoothed(raw, i, n)[c] \subseteq times
  BY DEF Known
<1>1. \A x \in {raw[h][c] : h \in Last(i, n)} : x \subseteq times
  BY LastRows DEF Known
<1> QED
  BY <1>1, SkipWithin DEF Smoothed

-----------------------------------------------------------------------------
(* The strategies.                                                         *)

\* Prices and volumes alone.
LEMMA PriceScores ==
  ASSUME NEW s, NEW p0, NEW i \in Nat, NEW times, s.k \in Nat,
         UpTo(p0.close, i, times), UpTo(p0.volume, i, times)
  PROVE  /\ Known(Reversal(s, p0, i), times) /\ Known(Momentum(s, p0, i), times)
         /\ Known(Trend(s, p0, i), times) /\ Known(TrendEnsemble(s, p0, i), times)
         /\ Known(LowVol(s, p0, i), times) /\ Known(MaxReturn(s, p0, i), times)
         /\ Known(Value(s, p0, i), times) /\ Known(Size(s, p0, i), times)
         /\ Known(ResidualMomentum(s, p0, i), times) /\ Known(Illiquidity(s, p0, i), times)
<1>1. /\ Known(Reversal(s, p0, i), times) /\ Known(Momentum(s, p0, i), times)
      /\ Known(Trend(s, p0, i), times)
  <2>1. i < s.k \/ s.k <= i
    OBVIOUS
  <2> QED
    BY <2>1, NanKnown, ChangeKnown DEF Reversal, Momentum, Trend
<1>2. Known(TrendEnsemble(s, p0, i), times)
  <2> DEFINE ready == {k \in {s.k, 2 * s.k} : i >= k}
             R == {i} \cup {i - k : k \in ready}
  <2>1. R \in SUBSET (0 .. i)
    OBVIOUS
  <2>2. TrendEnsemble(s, p0, i) = IF ready = {} THEN Nan ELSE Over(p0.close, R)
    BY DEF TrendEnsemble
  <2> HIDE DEF ready, R
  <2> QED
    BY <2>1, <2>2, NanKnown, OverKnown
<1>3. Known(LowVol(s, p0, i), times) /\ Known(MaxReturn(s, p0, i), times)
  <2>1. i <= s.k \/ (i - s.k) .. i \in SUBSET (0 .. i)
    OBVIOUS
  <2> QED
    BY <2>1, NanKnown, OverKnown DEF LowVol, MaxReturn
<1>4. Known(Value(s, p0, i), times)
  BY NanKnown, OverKnown, LastRows DEF Value
<1>5. Known(Size(s, p0, i), times)
  <2>1. Known(Over(p0.close, Last(i, s.k)), times) /\ Known(Over(p0.volume, Last(i, s.k)), times)
    BY OverKnown, LastRows
  <2> QED
    BY <2>1, NanKnown, BothKnown DEF Size
<1>6. Known(Illiquidity(s, p0, i), times)
  <2>1. CASE i <= s.k
    BY <2>1, NanKnown DEF Illiquidity
  <2>2. CASE ~(i <= s.k)
    <3>1. (i - s.k) .. i \in SUBSET (0 .. i)
      BY <2>2
    <3>2. Known(Over(p0.close, (i - s.k) .. i), times) /\ Known(Over(p0.volume, Last(i, s.k)), times)
      BY <3>1, OverKnown, LastRows
    <3> QED
      BY <2>2, <3>2, BothKnown DEF Illiquidity
  <2> QED
    BY <2>1, <2>2
<1>7. Known(ResidualMomentum(s, p0, i), times)
  <2>1. CASE i <= s.k
    BY <2>1, NanKnown DEF ResidualMomentum
  <2>2. CASE ~(i <= s.k)
    <3> DEFINE cells == {p0.close[r][d] : r \in (i - s.k) .. i, d \in Coins}
    <3>1. (i - s.k) .. i \subseteq 0 .. i
      BY <2>2
    <3>2. \A x \in cells : x \subseteq times
      BY <3>1 DEF UpTo, Known
    <3>3. Strict(cells) \subseteq times
      BY <3>2, StrictWithin
    <3>4. ResidualMomentum(s, p0, i) = [c \in Coins |-> Strict(cells)]
      BY <2>2 DEF ResidualMomentum
    <3> QED
      BY <3>3, <3>4 DEF Known
  <2> QED
    BY <2>1, <2>2
<1> QED
  BY <1>1, <1>2, <1>3, <1>4, <1>5, <1>6, <1>7

\* Funding.
LEMMA FundingScores ==
  ASSUME NEW s, NEW p0, NEW i \in Nat, NEW times, s.k \in Nat, UpTo(p0.prevailing, i, times)
  PROVE  Known(FundingCarry(s, p0, i), times) /\ Known(FundingMomentum(s, p0, i), times)
<1>1. Known(Over(p0.prevailing, Last(i, s.k)), times)
  BY OverKnown, LastRows
<1>2. CASE i < s.k
  BY <1>1, <1>2, NanKnown DEF FundingCarry, FundingMomentum
<1>3. CASE ~(i < s.k)
  <2>1. Last(i - s.k, s.k) \in SUBSET (0 .. i)
    BY <1>3 DEF Last
  <2>2. Known(Over(p0.prevailing, Last(i - s.k, s.k)), times)
    BY <2>1, OverKnown
  <2> QED
    BY <1>1, <1>3, <2>2, BothKnown DEF FundingCarry, FundingMomentum
<1> QED
  BY <1>2, <1>3

\* Value locked in a coin's protocol.
LEMMA TvlScores ==
  ASSUME NEW s, NEW p0, NEW i \in Nat, NEW times, s.k \in Nat,
         UpTo(p0.close, i, times), UpTo(p0.tvl, i, times)
  PROVE  Known(TVLMomentum(s, p0, i), times) /\ Known(TVLDivergence(s, p0, i), times)
<1>1. CASE i < s.k
  BY <1>1, NanKnown DEF TVLMomentum, TVLDivergence
<1>2. CASE ~(i < s.k)
  <2>1. Known(Change(p0.tvl, i, s.k), times) /\ Known(Change(p0.close, i, s.k), times)
    BY <1>2, ChangeKnown
  <2> QED
    BY <1>2, <2>1, BothKnown DEF TVLMomentum, TVLDivergence
<1> QED
  BY <1>1, <1>2

\* Trader tiers, and the churn of positions.
LEMMA TierScores ==
  ASSUME NEW s, NEW p0, NEW i \in Nat, NEW times, s.k \in Nat, UpTo(p0.metric, i, times)
  PROVE  /\ Known(TierDivergence(s, p0, i), times) /\ Known(CrowdExtremity(s, p0, i), times)
         /\ Known(TakerImbalance(s, p0, i), times) /\ Known(PositionChurn(s, p0, i), times)
         /\ Known(TierDivergenceDelta(s, p0, i), times) /\ Known(SmartMoneyFlow(s, p0, i), times)
<1>1. \A window, least : Known(Z(p0.metric, i, window, least), times)
  BY ZKnown
<1>2. /\ Known(TierDivergence(s, p0, i), times) /\ Known(CrowdExtremity(s, p0, i), times)
      /\ Known(TakerImbalance(s, p0, i), times) /\ Known(PositionChurn(s, p0, i), times)
  BY <1>1, RankKnown DEF TierDivergence, CrowdExtremity, TakerImbalance, PositionChurn, RankCS
<1>3. Known(Z(Changes(p0.metric, s.k), i, s.window, TierObs(s.window)), times)
  BY ChangesKnown, ZKnown
<1>4. Known(SmartMoneyFlow(s, p0, i), times)
  BY <1>3, NanKnown, RankKnown DEF SmartMoneyFlow, RankCS
<1>5. Known(TierDivergenceDelta(s, p0, i), times)
  <2>1. CASE i < s.k
    BY <2>1, NanKnown DEF TierDivergenceDelta
  <2>2. CASE ~(i < s.k)
    <3>1. Known(Change(p0.metric, i, s.k), times)
      BY <2>2, ChangeKnown
    <3> DEFINE z == Z(Changes(p0.metric, s.k), i, s.window, TierObs(s.window))
    <3>2. Known(Both(Change(p0.metric, i, s.k), z), times)
      BY <1>3, <3>1, BothKnown
    <3>3. TierDivergenceDelta(s, p0, i) = RankOf(Both(Change(p0.metric, i, s.k), z), 2)
      BY <2>2 DEF TierDivergenceDelta, RankCS
    <3> QED
      BY <3>2, <3>3, RankKnown
  <2> QED
    BY <2>1, <2>2
<1> QED
  BY <1>2, <1>4, <1>5

\* Open interest.
LEMMA OIScores ==
  ASSUME NEW s, NEW p0, NEW i \in Nat, NEW times, s.k \in Nat, 0 \in times,
         UpTo(p0.close, i, times), UpTo(p0.prevailing, i, times), UpTo(p0.oi, i, times)
  PROVE  /\ Known(OIPriceDivergence(s, p0, i), times) /\ Known(CrowdingPressure(s, p0, i), times)
         /\ Known(LiquidationBounce(s, p0, i), times) /\ Known(OIAcceleration(s, p0, i), times)
<1>1. CASE i < s.k
  <2>1. i < 2 * s.k
    BY <1>1
  <2> QED
    BY <1>1, <2>1, NanKnown DEF OIPriceDivergence, CrowdingPressure, LiquidationBounce, OIAcceleration
<1>2. CASE ~(i < s.k)
  <2>1. Known(Change(p0.oi, i, s.k), times) /\ Known(Change(p0.close, i, s.k), times)
    BY <1>2, ChangeKnown
  <2>2. Known(OIPriceDivergence(s, p0, i), times)
    BY <1>2, <2>1, RankKnown, BothKnown DEF OIPriceDivergence, RankAny
  <2>3. Known(CrowdingPressure(s, p0, i), times)
    <3>1. Known(Over(p0.prevailing, Last(i, s.k)), times)
      BY OverKnown, LastRows
    <3> QED
      BY <1>2, <2>1, <3>1, RankKnown, BothKnown DEF CrowdingPressure, RankAny
  <2>4. Known(LiquidationBounce(s, p0, i), times)
    <3> DEFINE drop == Both(Change(p0.oi, i, s.k), Change(p0.close, i, s.k))
    <3>1. Known(drop, times)
      BY <2>1, BothKnown
    <3>2. LiquidationBounce(s, p0, i) = [c \in Coins |-> IF drop[c] = Missing THEN Zero ELSE drop[c]]
      BY <1>2 DEF LiquidationBounce
    <3> HIDE DEF drop
    <3>3. Zero \subseteq times
      BY DEF Zero
    <3> QED
      BY <3>1, <3>2, <3>3 DEF Known
  <2>5. Known(OIAcceleration(s, p0, i), times)
    <3>1. i < 2 * s.k \/ {i - 2 * s.k, i - s.k, i} \in SUBSET (0 .. i)
      OBVIOUS
    <3> QED
      BY <3>1, NanKnown, OverKnown DEF OIAcceleration
  <2> QED
    BY <2>2, <2>3, <2>4, <2>5
<1> QED
  BY <1>1, <1>2

\* Open interest beside tiers: the divergence weighted by it.
LEMMA OIWeightedKnown ==
  ASSUME NEW s, NEW p0, NEW i \in Nat, NEW times, UpTo(p0.oi, i, times), UpTo(p0.metric, i, times)
  PROVE  Known(OIWeighted(s, p0, i), times)
<1> DEFINE d == Z(p0.metric, i, s.window, TierObs(s.window))
           o == Z(p0.oi, i, s.window, TierObs(s.window))
           x == [c \in Coins |-> IF d[c] = Missing THEN Missing ELSE d[c] \cup o[c]]
<1>1. Known(d, times) /\ Known(o, times)
  BY ZKnown
<1>2. OIWeighted(s, p0, i) = RankOf(x, 2)
  BY DEF OIWeighted, RankCS
<1> HIDE DEF d, o
<1>3. Known(x, times)
  BY <1>1 DEF Known, Missing
<1> QED
  BY <1>2, <1>3, RankKnown

LEMMA CrowdingAccelerationKnown ==
  ASSUME NEW s, NEW p0, NEW i \in Nat, NEW times, s.k \in Nat, 0 \in times,
         UpTo(p0.close, i, times), UpTo(p0.prevailing, i, times), UpTo(p0.oi, i, times)
  PROVE  Known(CrowdingAcceleration(s, p0, i), times)
<1> DEFINE raw == [h \in 0 .. i |-> OIAcceleration(s, p0, h)]
<1>1. \A h \in 0 .. i : Known(OIAcceleration(s, p0, h), times)
  BY UpToEarlier, OIScores
<1>2. \A h \in 0 .. i : Known(raw[h], times)
  BY <1>1
<1>3. CrowdingAcceleration(s, p0, i) = RankOf(Smoothed(raw, i, s.smooth), 2)
  BY DEF CrowdingAcceleration, RankCS
<1> HIDE DEF raw
<1>4. Known(Smoothed(raw, i, s.smooth), times)
  BY <1>2, SmoothedKnown
<1> QED
  BY <1>3, <1>4, RankKnown

\* Returns and open-interest changes against their history.
LEMMA FlowKnown ==
  ASSUME NEW s, NEW p0, NEW i \in Nat, NEW times, s.k \in Nat,
         UpTo(p0.close, i, times), UpTo(p0.metric, i, times)
  PROVE  /\ Known(Flow(s, p0, i).ret, times) /\ Known(Flow(s, p0, i).doi, times)
         /\ Known(Flow(s, p0, i).change, times)
<1> DEFINE ret == Changes(p0.close, s.k)
           doi == Changes(p0.metric, s.k)
<1>1. UpTo(ret, i, times) /\ UpTo(doi, i, times)
  BY ChangesKnown
<1>2. /\ Flow(s, p0, i).ret = Both(ret[i], Z(ret, i, s.window, FlowObs))
      /\ Flow(s, p0, i).doi = Both(doi[i], Z(doi, i, s.window, FlowObs))
      /\ Flow(s, p0, i).change = doi[i]
  BY DEF Flow
<1> HIDE DEF ret, doi
<1>3. Known(ret[i], times) /\ Known(doi[i], times)
  BY <1>1 DEF UpTo
<1>4. Known(Z(ret, i, s.window, FlowObs), times) /\ Known(Z(doi, i, s.window, FlowObs), times)
  BY <1>1, ZKnown
<1> QED
  BY <1>2, <1>3, <1>4, BothKnown

LEMMA FlowScores ==
  ASSUME NEW s, NEW p0, NEW i \in Nat, NEW times, s.k \in Nat,
         UpTo(p0.close, i, times), UpTo(p0.metric, i, times)
  PROVE  Known(FlowConfirmation(s, p0, i), times) /\ Known(ForcedFlowReversal(s, p0, i), times)
<1>1. \A h \in 0 .. i : /\ Known(Flow(s, p0, h).ret, times) /\ Known(Flow(s, p0, h).doi, times)
                       /\ Known(Flow(s, p0, h).change, times)
  BY UpToEarlier, FlowKnown
<1>2. Known(FlowConfirmation(s, p0, i), times)
  <2> DEFINE raw == [h \in 0 .. i |-> Both(Flow(s, p0, h).ret, Flow(s, p0, h).doi)]
  <2>1. \A h \in 0 .. i : Known(raw[h], times)
    BY <1>1, BothKnown
  <2>2. FlowConfirmation(s, p0, i) = RankOf(Smoothed(raw, i, s.smooth), 2)
    BY DEF FlowConfirmation, RankCS
  <2> HIDE DEF raw
  <2> QED
    BY <2>1, <2>2, SmoothedKnown, RankKnown
<1>3. Known(ForcedFlowReversal(s, p0, i), times)
  <2> DEFINE forced == [h \in 0 .. i |-> Forced(Flow(s, p0, h), h)]
  <2>1. \A f, h : Known(f.ret, times) /\ Known(f.doi, times) /\ Known(f.change, times)
                  => Known(Forced(f, h), times)
    BY DEF Known, Missing, Forced
  <2>2. ForcedFlowReversal(s, p0, i) = RankOf(Smoothed(forced, i, s.smooth), 2)
    BY DEF ForcedFlowReversal, RankCS
  <2>3. \A h \in 0 .. i : Known(forced[h], times)
    BY <1>1, <2>1
  <2> HIDE DEF forced
  <2> QED
    BY <2>2, <2>3, SmoothedKnown, RankKnown
<1> QED
  BY <1>2, <1>3

\* The thin half: past returns, and the volumes they are ranked within.
LEMMA IlliquidKnown ==
  ASSUME NEW s, NEW p0, NEW i \in Nat, NEW times, s.k \in Nat,
         UpTo(p0.close, i, times), UpTo(p0.adv, i, times)
  PROVE  Known(IlliquidReversal(s, p0, i), times)
<1> DEFINE past == Change(p0.close, i - SkipBars, s.k)
           x == [c \in Coins |->
                   IF c \in Eligible(p0, i) /\ past[c] # Missing
                   THEN past[c] \cup UNION {p0.adv[i][d] : d \in Coins} ELSE Missing]
<1>1. CASE i - SkipBars < s.k
  BY <1>1, NanKnown DEF IlliquidReversal
<1>2. CASE ~(i - SkipBars < s.k)
  <2>1. i - SkipBars \in 0 .. i /\ i - SkipBars \in Nat /\ s.k <= i - SkipBars
    BY <1>2 DEF SkipBars
  <2>2. Known(past, times)
    BY <2>1, UpToEarlier, ChangeKnown
  <2>3. IlliquidReversal(s, p0, i) = RankOf(x, 2)
    BY <1>2 DEF IlliquidReversal, RankCS
  <2> HIDE DEF past
  <2>4. \A d \in Coins : p0.adv[i][d] \subseteq times
    BY DEF UpTo, Known
  <2>5. Known(x, times)
    BY <2>2, <2>4 DEF Known, Missing
  <2> QED
    BY <2>3, <2>5, RankKnown
<1> QED
  BY <1>1, <1>2

\* The composer: five views, and the regime they are weighted by.
LEMMA ComposerKnown ==
  ASSUME NEW s, NEW p0, NEW i \in Nat, NEW times, s.k \in Nat, 0 \in times,
         UpTo(p0.close, i, times), UpTo(p0.prevailing, i, times), UpTo(p0.oi, i, times)
  PROVE  Known(Composer(s, p0, i), times)
<1> DEFINE factors == {OIPriceDivergence(s, p0, i), CrowdingPressure(s, p0, i),
                       LiquidationBounce(s, p0, i), FundingMomentum(s, p0, i),
                       OIAcceleration(s, p0, i)}
           views == {RankAny(f) : f \in factors}
           mean == [c \in Coins |-> Skip({v[c] : v \in views})]
           seen == Regime(s, p0, i)
<1>1. \A f \in factors : Known(f, times)
  BY OIScores, FundingScores
<1>2. \A v \in views : Known(v, times)
  <2> HIDE DEF factors
  <2> QED
    BY <1>1, RankKnown DEF RankAny
<1>3. Composer(s, p0, i) =
        [c \in Coins |-> IF mean[c] = Missing THEN Missing ELSE mean[c] \cup seen]
  BY DEF Composer
<1> HIDE DEF factors, views
<1>4. Known(mean, times)
  <2> SUFFICES ASSUME NEW c \in Coins PROVE Skip({v[c] : v \in views}) \subseteq times
    BY DEF Known
  <2>1. \A x \in {v[c] : v \in views} : x \subseteq times
    BY <1>2 DEF Known
  <2> QED
    BY <2>1, SkipWithin
<1>5. seen \subseteq times
  <2>1. \A r \in Last(i, s.window), c \in Coins : p0.prevailing[r][c] \subseteq times
    BY LastRows DEF UpTo, Known
  <2> QED
    BY <2>1 DEF Regime
<1> HIDE DEF mean, seen
<1> QED
  BY <1>3, <1>4, <1>5 DEF Known, Missing

\* Whatever the strategy, its scores are known when what it reads is.
LEMMA ScoresKnown ==
  ASSUME NEW s, NEW p0, NEW i \in Nat, NEW times, 0 \in times,
         s.name \in StrategyNames, s.k \in Nat, DataKnown(s, p0, i, times)
  PROVE  Known(Scores(s, p0, i), times)
<1>1. /\ UpTo(p0.close, i, times) /\ UpTo(p0.volume, i, times)
      /\ UpTo(p0.prevailing, i, times) /\ UpTo(p0.adv, i, times)
  BY DEF DataKnown
<1>2. CASE s.name \in {"reversal", "momentum", "trend", "ensemble", "lowvol", "maxreturn", "value", "size", "residual", "illiquidity"}
  <2>1. /\ Known(Reversal(s, p0, i), times)
        /\ Known(Momentum(s, p0, i), times)
        /\ Known(Trend(s, p0, i), times)
        /\ Known(TrendEnsemble(s, p0, i), times)
        /\ Known(LowVol(s, p0, i), times)
        /\ Known(MaxReturn(s, p0, i), times)
        /\ Known(Value(s, p0, i), times)
        /\ Known(Size(s, p0, i), times)
        /\ Known(ResidualMomentum(s, p0, i), times)
        /\ Known(Illiquidity(s, p0, i), times)
    BY <1>1, PriceScores
  <2> QED
    BY <1>2, <2>1 DEF Scores
<1>3. CASE s.name \in {"carry", "fundingmomentum"}
  <2>1. /\ Known(FundingCarry(s, p0, i), times)
        /\ Known(FundingMomentum(s, p0, i), times)
    BY <1>1, FundingScores
  <2> QED
    BY <1>3, <2>1 DEF Scores
<1>4. CASE s.name \in {"illiquidreversal"}
  <2>1. /\ Known(IlliquidReversal(s, p0, i), times)
    BY <1>1, IlliquidKnown
  <2> QED
    BY <1>4, <2>1 DEF Scores
<1>5. CASE s.name \in {"tvlmomentum", "tvldivergence"}
  <2>1. Reads(s.name) = "tvl"
    BY <1>5 DEF Reads
  <2>2. UpTo(p0.tvl, i, times)
    BY <2>1 DEF DataKnown
  <2>3. /\ Known(TVLMomentum(s, p0, i), times)
        /\ Known(TVLDivergence(s, p0, i), times)
    BY <1>1, <2>2, TvlScores
  <2> QED
    BY <1>5, <2>3 DEF Scores
<1>6. CASE s.name \in {"tier", "crowd", "taker", "tierdelta", "smartmoney", "churn"}
  <2>1. Reads(s.name) = "metric"
    BY <1>6 DEF Reads
  <2>2. UpTo(p0.metric, i, times)
    BY <2>1 DEF DataKnown
  <2>3. /\ Known(TierDivergence(s, p0, i), times)
        /\ Known(CrowdExtremity(s, p0, i), times)
        /\ Known(TakerImbalance(s, p0, i), times)
        /\ Known(TierDivergenceDelta(s, p0, i), times)
        /\ Known(SmartMoneyFlow(s, p0, i), times)
        /\ Known(PositionChurn(s, p0, i), times)
    BY <1>1, <2>2, TierScores
  <2> QED
    BY <1>6, <2>3 DEF Scores
<1>7. CASE s.name \in {"flow", "forcedflow"}
  <2>1. Reads(s.name) = "metric"
    BY <1>7 DEF Reads
  <2>2. UpTo(p0.metric, i, times)
    BY <2>1 DEF DataKnown
  <2>3. /\ Known(FlowConfirmation(s, p0, i), times)
        /\ Known(ForcedFlowReversal(s, p0, i), times)
    BY <1>1, <2>2, FlowScores
  <2> QED
    BY <1>7, <2>3 DEF Scores
<1>8. CASE s.name \in {"oidivergence", "crowding", "bounce", "oiacceleration"}
  <2>1. Reads(s.name) = "oi"
    BY <1>8 DEF Reads
  <2>2. UpTo(p0.oi, i, times) /\ UpTo(p0.metric, i, times)
    BY <2>1 DEF DataKnown
  <2>3. /\ Known(OIPriceDivergence(s, p0, i), times)
        /\ Known(CrowdingPressure(s, p0, i), times)
        /\ Known(LiquidationBounce(s, p0, i), times)
        /\ Known(OIAcceleration(s, p0, i), times)
    BY <1>1, <2>2, OIScores
  <2> QED
    BY <1>8, <2>3 DEF Scores
<1>9. CASE s.name \in {"oiweighted"}
  <2>1. Reads(s.name) = "oi"
    BY <1>9 DEF Reads
  <2>2. UpTo(p0.oi, i, times) /\ UpTo(p0.metric, i, times)
    BY <2>1 DEF DataKnown
  <2>3. /\ Known(OIWeighted(s, p0, i), times)
    BY <1>1, <2>2, OIWeightedKnown
  <2> QED
    BY <1>9, <2>3 DEF Scores
<1>10. CASE s.name \in {"crowdacceleration"}
  <2>1. Reads(s.name) = "oi"
    BY <1>10 DEF Reads
  <2>2. UpTo(p0.oi, i, times) /\ UpTo(p0.metric, i, times)
    BY <2>1 DEF DataKnown
  <2>3. /\ Known(CrowdingAcceleration(s, p0, i), times)
    BY <1>1, <2>2, CrowdingAccelerationKnown
  <2> QED
    BY <1>10, <2>3 DEF Scores
<1>11. CASE s.name \in {"composer"}
  <2>1. Reads(s.name) = "oi"
    BY <1>11 DEF Reads
  <2>2. UpTo(p0.oi, i, times) /\ UpTo(p0.metric, i, times)
    BY <2>1 DEF DataKnown
  <2>3. /\ Known(Composer(s, p0, i), times)
    BY <1>1, <2>2, ComposerKnown
  <2> QED
    BY <1>11, <2>3 DEF Scores
<1> QED
  BY <1>2, <1>3, <1>4, <1>5, <1>6, <1>7, <1>8, <1>9, <1>10, <1>11 DEF StrategyNames

-----------------------------------------------------------------------------
(* Weights.                                                                *)

\* A position, and a book, decided from what was known at those times.
PositionsBy(times) == [side : Int, from : SUBSET times]
BooksBy(times) == [Coins -> PositionsBy(times)]

LEMMA LaterBook ==
  ASSUME NEW times, NEW later, times \subseteq later, NEW w \in BooksBy(times)
  PROVE  w \in BooksBy(later)
BY DEF BooksBy, PositionsBy

LEMMA FlatBook == ASSUME NEW times PROVE Flat \in BooksBy(times)
BY DEF Flat, Out, BooksBy, PositionsBy

LEMMA BookKnown ==
  ASSUME NEW time, NEW times, times \subseteq 0 .. time, NEW w \in BooksBy(times)
  PROVE  KnownBy(w, time)
BY DEF KnownBy, BooksBy, PositionsBy

LEMMA DependsOnKnown ==
  ASSUME NEW times, NEW w \in BooksBy(times) PROVE DependsOn(w) \subseteq times
BY DEF DependsOn, BooksBy, PositionsBy

LEMMA OutBy == ASSUME NEW times PROVE Out \in PositionsBy(times)
BY DEF Out, PositionsBy

LEMMA NeedsBy ==
  ASSUME NEW times, NEW w \in BooksBy(times), NEW c \in Coins, NEW S, S \subseteq times
  PROVE  Needs(w, c, S) \in PositionsBy(times)
<1>1. w[c] \in PositionsBy(times)
  BY DEF BooksBy
<1>2. w[c].side \in Int /\ w[c].from \cup S \subseteq times
  BY <1>1 DEF PositionsBy
<1>3. Needs(w, c, S) = [side |-> w[c].side, from |-> w[c].from \cup S]
  BY <1>1 DEF PositionsBy, Needs
<1> QED
  BY <1>2, <1>3 DEF PositionsBy

LEMMA SideIsInt == ASSUME NEW j, NEW i, NEW V, NEW c PROVE SideOf(j, i, V, c) \in Int
BY DEF SideOf

LEMMA WeightsKnown ==
  ASSUME NEW j, NEW i, NEW x, NEW times, Known(x, times)
  PROVE  ScoresToWeights(j, i, x) \in BooksBy(times)
<1>1. UNION {x[d] : d \in Valid(x)} \subseteq times
  BY DEF Known, Valid
<1> DEFINE weight(c) == [side |-> SideOf(j, i, Valid(x), c), from |-> UNION {x[d] : d \in Valid(x)}]
<1>2. \A c : weight(c) \in PositionsBy(times)
  BY <1>1, SideIsInt DEF PositionsBy
<1>3. ScoresToWeights(j, i, x) =
        [c \in Coins |-> IF \/ Cardinality(Valid(x)) < 2 \/ c \notin Valid(x)
                            \/ SideOf(j, i, Valid(x), c) = 0
                         THEN Out ELSE weight(c)]
  BY DEF ScoresToWeights
<1> HIDE DEF weight
<1> QED
  BY <1>2, <1>3, OutBy DEF BooksBy

LEMMA DollarVolumeKnown ==
  ASSUME NEW q, NEW i \in Nat, NEW times, UpTo(q.close, i, times), UpTo(q.volume, i, times)
  PROVE  Known(DollarVolume(q, i), times)
<1> SUFFICES ASSUME NEW c \in Coins PROVE DollarVolume(q, i)[c] \subseteq times
  BY DEF Known
<1> DEFINE cells == {Strict({q.close[r][c], q.volume[r][c]}) : r \in Last(i, VolumeLookback)}
<1>1. \A r \in Last(i, VolumeLookback) : q.close[r][c] \subseteq times /\ q.volume[r][c] \subseteq times
  BY LastRows DEF UpTo, Known
<1>2. \A r \in Last(i, VolumeLookback) : Strict({q.close[r][c], q.volume[r][c]}) \subseteq times
  BY <1>1, StrictWithin
<1>3. \A x \in cells : x \subseteq times
  BY <1>2
<1>4. DollarVolume(q, i)[c] = Skip(cells)
  BY DEF DollarVolume
<1> QED
  BY <1>3, <1>4, SkipWithin

LEMMA ReturnKnown ==
  ASSUME NEW q, NEW i \in Nat, NEW times, 0 \in times, UpTo(q.close, i, times), NEW c \in Coins
  PROVE  Return(q, i, c) \subseteq times
<1>1. Zero \subseteq times
  BY DEF Zero
<1>2. CASE i = 0
  BY <1>1, <1>2 DEF Return
<1>3. CASE i # 0
  <2>1. Known(Change(q.close, i, 1), times)
    BY <1>3, ChangeKnown
  <2> QED
    BY <1>1, <1>3, <2>1 DEF Return, Known
<1> QED
  BY <1>2, <1>3

\* The target of a rebalance row: scores, weights and overlays.
LEMMA TargetKnown ==
  ASSUME NEW j \in Backtests, NEW q, NEW i \in Nat, NEW times, 0 \in times, DataKnown(j.strategy, q, i, times)
  PROVE  TargetWeights(j, q, i) \in BooksBy(times)
<1>1. UpTo(q.close, i, times) /\ UpTo(q.volume, i, times)
  BY DEF DataKnown
<1>2. Known(DollarVolume(q, i), times)
  BY <1>1, DollarVolumeKnown
<1>3. ScoresToWeights(j, i, Scores(j.strategy, q, i)) \in BooksBy(times)
  BY JobFields, ScoresKnown, WeightsKnown
<1>4. \A w \in BooksBy(times) : Shortable(j, q, i, w) \in BooksBy(times)
  <2> SUFFICES ASSUME NEW w \in BooksBy(times) PROVE Shortable(j, q, i, w) \in BooksBy(times)
    OBVIOUS
  <2>1. \A c \in Coins : /\ w[c] \in PositionsBy(times) /\ Out \in PositionsBy(times)
                         /\ Needs(w, c, DollarVolume(q, i)[c]) \in PositionsBy(times)
    BY <1>2, NeedsBy, OutBy DEF BooksBy, Known
  <2> QED
    BY <2>1 DEF Shortable, BooksBy
<1>5. \A w \in BooksBy(times) : VolScaled(j, q, i, w) \in BooksBy(times)
  <2> SUFFICES ASSUME NEW w \in BooksBy(times) PROVE VolScaled(j, q, i, w) \in BooksBy(times)
    OBVIOUS
  <2> DEFINE R == Larger(1, i - VolLookback + 1) .. i
             S == UNION {Return(q, r, d) : r \in R, d \in Coins}
  <2>1. \A r \in R : r \in 0 .. i
    BY DEF Larger, VolLookback
  <2>2. \A r \in R, d \in Coins : Return(q, r, d) \subseteq times
    BY <1>1, <2>1, UpToEarlier, ReturnKnown
  <2>3. S \subseteq times
    BY <2>2
  <2>4. \A c \in Coins : Needs(w, c, S) \in PositionsBy(times) /\ Out \in PositionsBy(times)
    BY <2>3, NeedsBy, OutBy
  <2>5. VolScaled(j, q, i, w) =
          IF ~j.vol \/ Cardinality(R) < MinVolRows THEN w
          ELSE [c \in Coins |-> IF w[c].side = 0 THEN Out ELSE Needs(w, c, S)]
    BY DEF VolScaled
  <2> HIDE DEF R, S
  <2> QED
    BY <2>4, <2>5 DEF BooksBy
<1>6. \A w \in BooksBy(times) : Capped(j, q, i, w) \in BooksBy(times)
  <2> SUFFICES ASSUME NEW w \in BooksBy(times) PROVE Capped(j, q, i, w) \in BooksBy(times)
    OBVIOUS
  <2>1. \A c \in Coins : /\ Out \in PositionsBy(times)
                         /\ Needs(w, c, DollarVolume(q, i)[c]) \in PositionsBy(times)
    BY <1>2, NeedsBy, OutBy DEF Known
  <2> QED
    BY <2>1 DEF Capped, BooksBy
<1> QED
  BY <1>3, <1>4, <1>5, <1>6 DEF TargetWeights

\* What a row's returns do to a book.
LEMMA DriftKnown ==
  ASSUME NEW q, NEW i \in Nat, NEW times, 0 \in times, UpTo(q.close, i, times), NEW w \in BooksBy(times)
  PROVE  Drift(q, i, w) \in BooksBy(times)
<1> DEFINE S == UNION {Return(q, i, d) : d \in Held(w)}
<1>1. S \subseteq times
  BY ReturnKnown DEF Held
<1>2. \A c \in Coins : Needs(w, c, S) \in PositionsBy(times) /\ Out \in PositionsBy(times)
  BY <1>1, NeedsBy, OutBy
<1>3. Drift(q, i, w) =
        [c \in Coins |-> IF w[c].side = 0 \/ ~Tradable(q, i, c) THEN Out ELSE Needs(w, c, S)]
  BY DEF Drift
<1> HIDE DEF S
<1> QED
  BY <1>2, <1>3 DEF BooksBy

LEMMA EarnKnown ==
  ASSUME NEW q, NEW i \in Nat, NEW times, 0 \in times, NEW w \in BooksBy(times),
         UpTo(q.close, i, times), Known(q.event[i], times)
  PROVE  Earn(q, i, w) \subseteq times
<1>1. \A c \in Held(w) : /\ c \in Coins /\ w[c].from \subseteq times
                         /\ Return(q, i, c) \subseteq times /\ q.event[i][c] \subseteq times
  BY ReturnKnown DEF Held, BooksBy, PositionsBy, Known
<1> QED
  BY <1>1 DEF Earn

LEMMA DeriskedKnown ==
  ASSUME NEW j, NEW times, NEW w \in BooksBy(times), NEW eq, eq \subseteq times
  PROVE  Derisked(j, w, eq) \in BooksBy(times)
<1>1. \A c \in Coins : Needs(w, c, eq) \in PositionsBy(times) /\ Out \in PositionsBy(times)
  BY NeedsBy, OutBy
<1> QED
  BY <1>1 DEF Derisked, BooksBy

LEMMA PartFilledKnown ==
  ASSUME NEW j, NEW times, NEW drifted \in BooksBy(times), NEW w \in BooksBy(times)
  PROVE  PartFilled(j, drifted, w) \in BooksBy(times)
<1>1. \A c \in Coins : /\ drifted[c].side \in Int /\ w[c].side \in Int
                       /\ w[c].from \cup drifted[c].from \in SUBSET times
  BY DEF BooksBy, PositionsBy
<1> QED
  BY <1>1 DEF PartFilled, BooksBy, PositionsBy

-----------------------------------------------------------------------------
(* The timeline and the matrices.                                          *)

\* How many elements of S are below b.
RowsBefore(S, b) == Cardinality({x \in S : x < b})

LEMMA RankType ==
  ASSUME NEW S \in SUBSET Int, IsFiniteSet(S), NEW b
  PROVE  IsFiniteSet({x \in S : x < b}) /\ RowsBefore(S, b) \in Nat
<1>1. IsFiniteSet({x \in S : x < b})
  BY FS_Subset
<1> QED
  BY <1>1, FS_CardinalityType DEF RowsBefore

\* Ranks grow with the elements, by no more than the elements do.
LEMMA RankGrows ==
  ASSUME NEW S \in SUBSET Int, IsFiniteSet(S), NEW a \in S, NEW b \in S, a < b
  PROVE  RowsBefore(S, a) < RowsBefore(S, b) /\ RowsBefore(S, b) <= RowsBefore(S, a) + (b - a)
<1> DEFINE A == {x \in S : x < a}
           B == {x \in S : x < b}
           M == {x \in S : a <= x /\ x < b}
<1>1. a \in Int /\ b \in Int /\ \A x \in S : x \in Int
  OBVIOUS
<1>2. \A x \in S : /\ x < a => x < b
                   /\ x < b => x < a \/ a <= x
                   /\ ~(x < a /\ a <= x)
                   /\ a <= x /\ x < b => x \in a .. (b - 1)
  BY <1>1
<1>3. a < b /\ ~(a < a)
  BY <1>1
<1>4. IsFiniteSet(A) /\ IsFiniteSet(B) /\ RowsBefore(S, a) \in Nat /\ RowsBefore(S, b) \in Nat
  BY RankType
<1>5. A \in SUBSET B /\ a \in B /\ a \notin A
  BY <1>2, <1>3
<1>6. Cardinality(A) <= Cardinality(B) /\ Cardinality(A) # Cardinality(B)
  BY <1>4, <1>5, FS_Subset
<1>7. IsFiniteSet(a .. (b - 1)) /\ Cardinality(a .. (b - 1)) = b - a
  BY <1>1, FS_Interval
<1>8. M \in SUBSET (a .. (b - 1))
  BY <1>2
<1>9. IsFiniteSet(M) /\ Cardinality(M) <= b - a
  BY <1>7, <1>8, FS_Subset
<1>10. B = A \cup M /\ A \cap M = {}
  BY <1>2
<1>11. Cardinality(M) \in Nat /\ Cardinality({}) = 0
  BY <1>9, FS_CardinalityType, FS_EmptySet
<1> HIDE DEF A, B, M
<1>12. Cardinality(B) = Cardinality(A) + Cardinality(M) - 0
  BY <1>4, <1>9, <1>10, <1>11, FS_Union
<1>13. RowsBefore(S, a) = Cardinality(A) /\ RowsBefore(S, b) = Cardinality(B)
  BY DEF RowsBefore, A, B
<1> QED
  BY <1>1, <1>4, <1>6, <1>9, <1>11, <1>12, <1>13

LEMMA RankBelow ==
  ASSUME NEW S \in SUBSET Int, IsFiniteSet(S), NEW b \in S
  PROVE  RowsBefore(S, b) \in 0 .. Cardinality(S) - 1
<1>1. Cardinality(S) \in Nat
  BY FS_CardinalityType
<1>2. {x \in S : x < b} \in SUBSET (S \ {b})
  OBVIOUS
<1>3. IsFiniteSet(S \ {b}) /\ Cardinality(S \ {b}) = Cardinality(S) - 1
  BY FS_RemoveElement
<1>4. Cardinality({x \in S : x < b}) <= Cardinality(S \ {b})
  BY <1>2, <1>3, FS_Subset
<1>5. RowsBefore(S, b) \in Nat /\ RowsBefore(S, b) <= Cardinality(S) - 1
  BY <1>3, <1>4, RankType DEF RowsBefore
<1> QED
  BY <1>1, <1>5

\* Every rank below the size of S is taken.
LEMMA RankTaken ==
  ASSUME NEW S \in SUBSET Int, IsFiniteSet(S), NEW i \in 0 .. Cardinality(S) - 1
  PROVE  \E b \in S : RowsBefore(S, b) = i
<1> DEFINE n == Cardinality(S)
           T == 0 .. n - 1
           f == [b \in S |-> RowsBefore(S, b)]
<1>1. n \in Nat
  BY FS_CardinalityType
<1>2. IsFiniteSet(T) /\ Cardinality(T) = n
  BY <1>1, FS_Interval
<1>3. \A b \in S : RowsBefore(S, b) \in T
  BY RankBelow
<1>4. \A a, b \in S : a # b => RowsBefore(S, a) # RowsBefore(S, b)
  <2> SUFFICES ASSUME NEW a \in S, NEW b \in S, a # b PROVE RowsBefore(S, a) # RowsBefore(S, b)
    OBVIOUS
  <2>1. a < b \/ b < a
    OBVIOUS
  <2>2. RowsBefore(S, a) \in Nat /\ RowsBefore(S, b) \in Nat
    BY RankType
  <2> QED
    BY <2>1, <2>2, RankGrows
<1> HIDE DEF n, T
<1>5. f \in Injection(S, T)
  BY <1>3, <1>4 DEF Injection, IsInjective
<1>6. f \in Surjection(S, T)
  BY <1>2, <1>5, FS_Injection DEF n
<1>7. i \in T
  BY DEF T, n
<1> QED
  BY <1>6, <1>7 DEF Surjection

LEMMA TimelineRank ==
  ASSUME NEW S \in SUBSET Int, IsFiniteSet(S), NEW i \in 0 .. Cardinality(S) - 1
  PROVE  Timeline(S)[i] \in S /\ RowsBefore(S, Timeline(S)[i]) = i
<1> DEFINE ts == Timeline(S)
<1>1. ts[i] = CHOOSE b \in S : RowsBefore(S, b) = i
  BY DEF Timeline, RowsBefore
<1>2. \E b \in S : RowsBefore(S, b) = i
  BY RankTaken
<1> HIDE DEF ts
<1>3. ts[i] \in S /\ RowsBefore(S, ts[i]) = i
  BY <1>1, <1>2
<1> QED
  BY <1>3 DEF ts

\* The last row is the last bar.
LEMMA TimelineLast ==
  ASSUME NEW S \in SUBSET Int, IsFiniteSet(S), S # {}
  PROVE  /\ Cardinality(S) - 1 \in 0 .. Cardinality(S) - 1
         /\ \A x \in S : x <= Timeline(S)[Cardinality(S) - 1]
<1> DEFINE i == Cardinality(S) - 1
           b == Timeline(S)[i]
<1>1. Cardinality(S) \in Nat /\ Cardinality(S) # 0
  BY FS_CardinalityType, FS_EmptySet
<1>2. i \in 0 .. Cardinality(S) - 1
  BY <1>1
<1>3. b \in S /\ RowsBefore(S, b) = i
  BY <1>2, TimelineRank
<1> HIDE DEF b
<1>4. ASSUME NEW x \in S, b < x PROVE FALSE
  <2>1. RowsBefore(S, b) < RowsBefore(S, x)
    BY <1>3, <1>4, RankGrows
  <2>2. RowsBefore(S, x) \in 0 .. Cardinality(S) - 1
    BY RankBelow
  <2> QED
    BY <1>1, <1>3, <2>1, <2>2
<1>5. \A x \in S : x <= b
  BY <1>3, <1>4
<1> QED
  BY <1>2, <1>5 DEF b

\* The rows of a timeline are its bars in order, none twice.
LEMMA TimelineOrder ==
  ASSUME NEW S \in SUBSET Int, IsFiniteSet(S)
  PROVE  LET ts == Timeline(S)
         IN  /\ DOMAIN ts = 0 .. Cardinality(S) - 1
             /\ \A i \in DOMAIN ts : ts[i] \in S
             /\ \A i, h \in DOMAIN ts : h <= i => ts[h] + (i - h) <= ts[i]
<1> DEFINE ts == Timeline(S)
<1>1. DOMAIN ts = 0 .. Cardinality(S) - 1 /\ Cardinality(S) \in Nat
  BY FS_CardinalityType DEF Timeline
<1>2. \A i \in DOMAIN ts : ts[i] \in S /\ RowsBefore(S, ts[i]) = i
  BY <1>1, TimelineRank
<1>3. ASSUME NEW i \in DOMAIN ts, NEW h \in DOMAIN ts, h <= i
      PROVE  ts[h] + (i - h) <= ts[i]
  <2>1. ts[h] \in S /\ ts[i] \in S /\ h \in Int /\ i \in Int
    BY <1>1, <1>2
  <2>2. ts[h] \in Int /\ ts[i] \in Int
    BY <2>1
  <2>3. RowsBefore(S, ts[h]) = h /\ RowsBefore(S, ts[i]) = i
    BY <1>2
  <2>4. CASE ts[h] < ts[i]
    <3>1. RowsBefore(S, ts[i]) <= RowsBefore(S, ts[h]) + (ts[i] - ts[h])
      BY <2>1, <2>4, RankGrows
    <3> QED
      BY <2>1, <2>3, <2>2, <3>1
  <2>5. CASE ts[i] < ts[h]
    <3>1. RowsBefore(S, ts[i]) < RowsBefore(S, ts[h])
      BY <2>1, <2>5, RankGrows
    <3> QED
      BY <1>3, <2>1, <2>3, <2>2, <3>1
  <2>6. CASE ts[i] = ts[h]
    BY <1>3, <2>1, <2>3, <2>6, <2>2
  <2> QED
    BY <2>4, <2>5, <2>6, <2>2
<1> QED
  BY <1>1, <1>2, <1>3 DEF ts

\* Rows stamped with bars, in order.
Ordered(ts) ==
  /\ \E n \in Nat : DOMAIN ts = 0 .. n - 1
  /\ \A i \in DOMAIN ts : ts[i] \in Bars
  /\ \A i, h \in DOMAIN ts : h <= i => ts[h] + (i - h) <= ts[i]

LEMMA OrderedRow ==
  ASSUME NEW ts, Ordered(ts), NEW i \in DOMAIN ts
  PROVE  i \in Nat /\ 0 .. i \subseteq DOMAIN ts /\ ts[i] \in Nat
<1>1. ts[i] \in Bars
  BY DEF Ordered
<1>2. ts[i] \in Nat
  BY <1>1, BarsAssumption DEF Bars
<1>3. PICK n \in Nat : DOMAIN ts = 0 .. n - 1
  BY DEF Ordered
<1>4. i \in Nat /\ i <= n - 1
  BY <1>3
<1>5. 0 .. i \subseteq DOMAIN ts
  BY <1>3, <1>4
<1> QED
  BY <1>2, <1>4, <1>5

LEMMA EarlierRow ==
  ASSUME NEW ts, Ordered(ts), NEW i \in DOMAIN ts, NEW h \in 0 .. i
  PROVE  h \in DOMAIN ts /\ ts[h] + (i - h) <= ts[i]
<1>1. i \in Nat /\ h \in DOMAIN ts /\ h <= i
  BY OrderedRow
<1> QED
  BY <1>1 DEF Ordered

\* From the first bar of ts until `late` after the opening of row i's bar, and
\* the constants.
SpanTo(ts, i, late) == {0} \cup ts[0] .. ts[i] + late

\* Row i of m comes from those times.
Within(m, ts, late) == DOMAIN m = DOMAIN ts /\ \A i \in DOMAIN ts : Known(m[i], SpanTo(ts, i, late))

LEMMA BarsType == Bars \subseteq Nat \ {0}
BY BarsAssumption DEF Bars

LEMMA LaterKnown ==
  ASSUME NEW times, NEW later, times \subseteq later, NEW x, Known(x, times)
  PROVE  Known(x, later)
BY DEF Known

LEMMA SpanGrows ==
  ASSUME NEW ts, Ordered(ts), NEW i \in DOMAIN ts, NEW h \in DOMAIN ts,
         NEW late \in Int, NEW later \in Int, ts[h] + late <= ts[i] + later
  PROVE  SpanTo(ts, h, late) \subseteq SpanTo(ts, i, later)
<1>1. 0 \in DOMAIN ts /\ ts[i] \in Nat /\ ts[h] \in Nat
  BY OrderedRow
<1>2. ts[0] \in Nat
  BY <1>1, OrderedRow
<1> QED
  BY <1>1, <1>2 DEF SpanTo

\* Earlier rows are known when a row is.
LEMMA WithinUpTo ==
  ASSUME NEW ts, Ordered(ts), NEW m, NEW late \in Int, late <= 1, Within(m, ts, late),
         NEW i \in DOMAIN ts
  PROVE  UpTo(m, i, SpanTo(ts, i, 1))
<1>1. i \in Nat /\ 0 .. i \subseteq DOMAIN ts
  BY OrderedRow
<1>2. ASSUME NEW r \in 0 .. i PROVE Known(m[r], SpanTo(ts, i, 1))
  <2>1. r \in DOMAIN ts /\ ts[r] + (i - r) <= ts[i]
    BY EarlierRow
  <2>2. ts[r] \in Nat /\ ts[i] \in Nat
    BY <2>1, OrderedRow
  <2>3. ts[r] + late <= ts[i] + 1
    BY <1>1, <2>1, <2>2
  <2>4. SpanTo(ts, r, late) \subseteq SpanTo(ts, i, 1)
    BY <2>1, <2>3, SpanGrows
  <2>5. Known(m[r], SpanTo(ts, r, late))
    BY <2>1 DEF Within
  <2> QED
    BY <2>4, <2>5, LaterKnown
<1> QED
  BY <1>1, <1>2 DEF UpTo, Within

LEMMA MatrixWithin ==
  ASSUME NEW ts, Ordered(ts), NEW vector, NEW late \in Nat,
         \A b \in Bars : Known(vector[b], b .. b + late)
  PROVE  Within(Matrix(ts, vector), ts, late)
<1> SUFFICES ASSUME NEW i \in DOMAIN ts PROVE Known(vector[ts[i]], SpanTo(ts, i, late))
  BY DEF Within, Matrix
<1>1. i \in Nat /\ 0 \in 0 .. i /\ 0 \in DOMAIN ts /\ ts[i] \in Bars
  BY OrderedRow DEF Ordered
<1>2. ts[0] + (i - 0) <= ts[i] /\ ts[0] \in Nat /\ ts[i] \in Nat
  BY <1>1, OrderedRow, EarlierRow
<1>3. ts[i] .. ts[i] + late \subseteq SpanTo(ts, i, late)
  BY <1>1, <1>2 DEF SpanTo
<1> QED
  BY <1>1, <1>3, LaterKnown

LEMMA FfillWithin ==
  ASSUME NEW ts, Ordered(ts), NEW m, NEW late \in Int, Within(m, ts, late), NEW k
  PROVE  Within(FfillLimit(m, k), ts, late)
<1>1. DOMAIN FfillLimit(m, k) = DOMAIN ts
  BY DEF FfillLimit, Within
<1>2. ASSUME NEW i \in DOMAIN ts, NEW c \in Coins
      PROVE  FfillLimit(m, k)[i][c] \subseteq SpanTo(ts, i, late)
  <2> DEFINE seen == {h \in 0 .. i : i - h <= k /\ m[h][c] # Missing}
             last == {h \in seen : \A x \in seen : x <= h}
  <2>1. FfillLimit(m, k)[i][c] = UNION {m[h][c] : h \in last}
    BY DEF FfillLimit, Within
  <2>2. \A h \in last : m[h][c] \subseteq SpanTo(ts, i, late)
    <3> SUFFICES ASSUME NEW h \in 0 .. i PROVE m[h][c] \subseteq SpanTo(ts, i, late)
      OBVIOUS
    <3>1. h \in DOMAIN ts /\ ts[h] + (i - h) <= ts[i] /\ i \in Nat
      BY EarlierRow, OrderedRow
    <3>2. ts[h] \in Nat /\ ts[i] \in Nat
      BY <3>1, OrderedRow
    <3>3. ts[h] + late <= ts[i] + late
      BY <3>1, <3>2
    <3>4. Known(m[h], SpanTo(ts, h, late)) /\ SpanTo(ts, h, late) \subseteq SpanTo(ts, i, late)
      BY <3>1, <3>3, SpanGrows DEF Within
    <3>5. Known(m[h], SpanTo(ts, i, late))
      BY <3>4, LaterKnown
    <3> QED
      BY <3>5 DEF Known
  <2> HIDE DEF last
  <2> QED
    BY <2>1, <2>2
<1> QED
  BY <1>1, <1>2 DEF Within, Known

LEMMA FillZeroWithin ==
  ASSUME NEW ts, NEW m, NEW late, Within(m, ts, late)
  PROVE  Within(FillZero(m), ts, late)
<1>1. \A i \in DOMAIN ts : Zero \subseteq SpanTo(ts, i, late)
  BY DEF Zero, SpanTo
<1> QED
  BY <1>1 DEF Within, Known, FillZero

\* A lag of k rows is a lag of k bars at least.
LEMMA ShiftWithin ==
  ASSUME NEW ts, Ordered(ts), NEW m, NEW late \in Int, Within(m, ts, late), NEW k \in Nat
  PROVE  Within(ShiftRows(m, k), ts, late - k)
<1>1. DOMAIN ShiftRows(m, k) = DOMAIN ts
  BY DEF ShiftRows, Within
<1>2. ASSUME NEW i \in DOMAIN ts PROVE Known(ShiftRows(m, k)[i], SpanTo(ts, i, late - k))
  <2>1. i \in Nat
    BY OrderedRow
  <2>2. CASE i < k
    BY <2>2, NanKnown DEF ShiftRows, Within
  <2>3. CASE ~(i < k)
    <3>1. i - k \in 0 .. i
      BY <2>1, <2>3
    <3>2. i - k \in DOMAIN ts /\ ts[i - k] + (i - (i - k)) <= ts[i]
      BY <3>1, EarlierRow
    <3>3. ts[i - k] \in Nat /\ ts[i] \in Nat
      BY <3>2, OrderedRow
    <3>4. late - k \in Int /\ ts[i - k] + late <= ts[i] + (late - k)
      BY <2>1, <3>2, <3>3
    <3>5. Known(m[i - k], SpanTo(ts, i - k, late))
      BY <3>2 DEF Within
    <3>6. Known(m[i - k], SpanTo(ts, i, late - k))
      BY <3>2, <3>4, <3>5, SpanGrows, LaterKnown
    <3> QED
      BY <2>3, <3>6 DEF ShiftRows, Within
  <2> QED
    BY <2>2, <2>3
<1> QED
  BY <1>1, <1>2 DEF Within

\* A bar's daily record is known once the day is over, and `late` after.
LEMMA DailyWithin ==
  ASSUME NEW ts, Ordered(ts), NEW feed, NEW day \in Nat, NEW late \in Nat
  PROVE  Within(Daily(ts, feed, day, late), ts, day + late)
<1> DEFINE vector == [b \in Bars |-> [c \in Coins |->
                        IF b \in feed[c] /\ (b - 1) % day = 0 THEN {b + day + late} ELSE Missing]]
<1>1. ASSUME NEW b \in Bars PROVE Known(vector[b], b .. b + (day + late))
  <2>1. b \in Nat
    BY BarsType
  <2>2. {b + day + late} \subseteq b .. b + (day + late)
    BY <2>1
  <2>3. \A c \in Coins : vector[b][c] \in {{b + day + late}, Missing}
    OBVIOUS
  <2> HIDE DEF vector
  <2> QED
    BY <2>2, <2>3 DEF Known, Missing
<1>2. Daily(ts, feed, day, late) = Matrix(ts, vector)
  BY DEF Daily
<1> HIDE DEF vector
<1> QED
  BY <1>1, <1>2, MatrixWithin

LEMMA PanelWithin ==
  ASSUME NEW ts, Ordered(ts), NEW listed, NEW feed
  PROVE  /\ Within(Closes(ts, listed), ts, 1) /\ Within(Volumes(ts, listed), ts, 1)
         /\ Within(FundingEvent(ts, feed), ts, 1) /\ Within(FundingPrevailing(ts, feed), ts, 1)
<1> DEFINE closes == [b \in Bars |-> [c \in Coins |-> IF b \in listed[c] THEN {b + 1} ELSE Missing]]
           paid == [b \in Bars |-> [c \in Coins |-> IF b \in feed[c] THEN {b} ELSE Missing]]
<1>1. ASSUME NEW b \in Bars PROVE Known(closes[b], b .. b + 1) /\ Known(paid[b], b .. b + 1)
  <2>1. b \in Nat
    BY BarsType
  <2>2. {b} \subseteq b .. b + 1 /\ {b + 1} \subseteq b .. b + 1
    BY <2>1
  <2>3. \A c \in Coins : closes[b][c] \in {{b + 1}, Missing} /\ paid[b][c] \in {{b}, Missing}
    OBVIOUS
  <2> HIDE DEF closes, paid
  <2> QED
    BY <2>2, <2>3 DEF Known, Missing
<1>2. /\ Closes(ts, listed) = Matrix(ts, closes)
      /\ Volumes(ts, listed) = FillZero(Closes(ts, listed))
      /\ FundingEvent(ts, feed) = FillZero(Matrix(ts, paid))
      /\ FundingPrevailing(ts, feed) =
           FillZero(FfillLimit(Matrix(ts, paid), Cardinality(DOMAIN Matrix(ts, paid))))
  BY DEF Closes, Volumes, FundingEvent, FundingPrevailing, Ffill
<1> HIDE DEF closes, paid
<1>3. Within(Matrix(ts, closes), ts, 1) /\ Within(Matrix(ts, paid), ts, 1)
  BY <1>1, MatrixWithin
<1>4. Within(FfillLimit(Matrix(ts, paid), Cardinality(DOMAIN Matrix(ts, paid))), ts, 1)
  BY <1>3, FfillWithin
<1> QED
  BY <1>2, <1>3, <1>4, FillZeroWithin

LEMMA AdvWithin ==
  ASSUME NEW ts, Ordered(ts), NEW close, NEW volume, NEW window \in Nat,
         Within(close, ts, 1), Within(volume, ts, 1)
  PROVE  Within(TrailingAdv(close, volume, window), ts, 1)
<1>1. DOMAIN TrailingAdv(close, volume, window) = DOMAIN ts
  BY DEF TrailingAdv, Within
<1>2. ASSUME NEW i \in DOMAIN ts PROVE Known(TrailingAdv(close, volume, window)[i], SpanTo(ts, i, 1))
  <2>1. i \in Nat /\ UpTo(close, i, SpanTo(ts, i, 1)) /\ UpTo(volume, i, SpanTo(ts, i, 1))
    BY OrderedRow, WithinUpTo
  <2>2. CASE i < window
    BY <2>2, NanKnown DEF TrailingAdv, Within
  <2>3. CASE ~(i < window)
    <3> SUFFICES ASSUME NEW c \in Coins
                 PROVE TrailingAdv(close, volume, window)[i][c] \subseteq SpanTo(ts, i, 1)
      BY DEF Known
    <3> DEFINE R == (i - window) .. (i - 1)
               cells == {Strict({close[r][c], volume[r][c]}) : r \in R}
    <3>1. R \subseteq 0 .. i
      BY <2>1, <2>3
    <3>2. \A r \in R : close[r][c] \subseteq SpanTo(ts, i, 1) /\ volume[r][c] \subseteq SpanTo(ts, i, 1)
      BY <2>1, <3>1 DEF UpTo, Known
    <3>3. \A r \in R : Strict({close[r][c], volume[r][c]}) \subseteq SpanTo(ts, i, 1)
      BY <3>2, StrictWithin
    <3>4. \A x \in cells : x \subseteq SpanTo(ts, i, 1)
      BY <3>3
    <3>5. TrailingAdv(close, volume, window)[i][c] = Skip(cells)
      BY <2>3 DEF TrailingAdv, Within
    <3> HIDE DEF cells
    <3> QED
      BY <3>4, <3>5, SkipWithin
  <2> QED
    BY <2>2, <2>3
<1> QED
  BY <1>1, <1>2 DEF Within

\* The timeline of a panel.
LEMMA TimelineOrdered ==
  ASSUME NEW listed \in [Coins -> SUBSET Bars], NEW ragged, NEW ts,
         ts = Timeline(PanelBars(listed, ragged))
  PROVE  /\ Ordered(ts) /\ Cardinality(DOMAIN ts) \in Nat
         /\ DOMAIN ts = 0 .. Cardinality(DOMAIN ts) - 1
         /\ \A i \in DOMAIN ts : ts[i] \in PanelBars(listed, ragged)
<1> DEFINE S == PanelBars(listed, ragged)
<1>1. S \subseteq Bars /\ IsFiniteSet(S)
  BY PanelBarsFinite
<1>2. ts = Timeline(S)
  OBVIOUS
<1> HIDE DEF S
<1>3. S \in SUBSET Int /\ Cardinality(S) \in Nat
  <2>1. \A b \in S : b \in Nat
    BY <1>1, BarsType
  <2> QED
    BY <1>1, <2>1, FS_CardinalityType
<1>4. /\ DOMAIN ts = 0 .. Cardinality(S) - 1
      /\ \A i \in DOMAIN ts : ts[i] \in S
      /\ \A i, h \in DOMAIN ts : h <= i => ts[h] + (i - h) <= ts[i]
  BY <1>1, <1>2, <1>3, TimelineOrder
<1>5. Ordered(ts)
  BY <1>1, <1>3, <1>4 DEF Ordered
<1>6. Cardinality(0 .. Cardinality(S) - 1) = Cardinality(S)
  BY <1>3, FS_Interval
<1> QED
  BY <1>3, <1>4, <1>5, <1>6 DEF S

LEMMA LoadOrdered ==
  ASSUME NEW j \in Backtests
  PROVE  Ordered(Load(j).ts) /\ DOMAIN Load(j).ts = 0 .. Rows(Load(j)) - 1
<1>1. Load(j).ts = Timeline(PanelBars(j.listed, j.ragged))
  BY DEF Load
<1> QED
  BY <1>1, JobFields, TimelineOrdered DEF Rows

\* What a job loads is known in time, where its lag covers the day.
LEMMA LoadKnown ==
  ASSUME NEW j \in Backtests, Covered(j), NEW i \in DOMAIN Load(j).ts
  PROVE  /\ DataKnown(j.strategy, Load(j), i, SpanTo(Load(j).ts, i, 1))
         /\ Known(Load(j).event[i], SpanTo(Load(j).ts, i, 1))
<1> DEFINE q == Load(j)
           ts == q.ts
           times == SpanTo(ts, i, 1)
           reads == Reads(j.strategy.name)
<1>1. Ordered(ts)
  BY LoadOrdered
<1>2. j.day \in Nat \ {0} /\ j.lag \in Nat
  BY JobFields
<1>3. /\ q.close = Closes(ts, j.listed) /\ q.volume = Volumes(ts, j.listed)
      /\ q.event = FundingEvent(ts, j.feed) /\ q.prevailing = FundingPrevailing(ts, j.feed)
      /\ q.adv = TrailingAdv(q.close, q.volume, AdvWindow)
      /\ q.tvl = ShiftRows(FfillLimit(Daily(ts, j.feed, j.day, 1),
                                      Cardinality(DOMAIN Daily(ts, j.feed, j.day, 1))), j.lag)
      /\ q.oi = FfillLimit(Daily(ts, j.feed, j.day, 0), Cardinality(DOMAIN Daily(ts, j.feed, j.day, 0)))
      /\ q.metric = ShiftRows(FfillLimit(Daily(ts, j.feed, j.day, 0), FfillLimitMetrics), j.lag)
  BY DEF Load, AlignTvl, AlignOI, AlignMetrics, Ffill
<1> HIDE DEF q, ts
<1>4. /\ Within(q.close, ts, 1) /\ Within(q.volume, ts, 1)
      /\ Within(q.event, ts, 1) /\ Within(q.prevailing, ts, 1)
  BY <1>1, <1>3, PanelWithin
<1>5. Within(q.adv, ts, 1)
  BY <1>1, <1>3, <1>4, AdvWithin DEF AdvWindow
<1>6. Within(q.tvl, ts, j.day + 1 - j.lag) /\ Within(q.metric, ts, j.day + 0 - j.lag)
  BY <1>1, <1>2, <1>3, DailyWithin, FfillWithin, ShiftWithin
<1>7. Within(q.oi, ts, j.day + 0)
  BY <1>1, <1>2, <1>3, DailyWithin, FfillWithin
<1>8. i \in DOMAIN ts
  BY DEF ts, q
<1>9. /\ UpTo(q.close, i, times) /\ UpTo(q.volume, i, times)
      /\ UpTo(q.prevailing, i, times) /\ UpTo(q.adv, i, times)
  BY <1>1, <1>4, <1>5, <1>8, WithinUpTo
<1>10. ASSUME reads = "tvl" PROVE UpTo(q.tvl, i, times)
  <2>1. j.day + 1 - j.lag \in Int /\ j.day + 1 - j.lag <= 1
    BY <1>2, <1>10 DEF Covered
  <2> QED
    BY <1>1, <1>6, <1>8, <2>1, WithinUpTo
<1>11. ASSUME reads = "oi" PROVE UpTo(q.oi, i, times) /\ UpTo(q.metric, i, times)
  <2>1. j.day = 1
    BY <1>11 DEF Covered
  <2>2. /\ j.day + 0 \in Int /\ j.day + 0 <= 1
        /\ j.day + 0 - j.lag \in Int /\ j.day + 0 - j.lag <= 1
    BY <1>2, <2>1
  <2> QED
    BY <1>1, <1>6, <1>7, <1>8, <2>2, WithinUpTo
<1>12. ASSUME reads = "metric" PROVE UpTo(q.metric, i, times)
  <2>1. j.day + 0 - j.lag \in Int /\ j.day + 0 - j.lag <= 1
    BY <1>2, <1>12 DEF Covered
  <2> QED
    BY <1>1, <1>6, <1>8, <2>1, WithinUpTo
<1>13. Known(q.event[i], times)
  BY <1>4, <1>8 DEF Within
<1> QED
  BY <1>9, <1>10, <1>11, <1>12, <1>13 DEF DataKnown, q, ts

-----------------------------------------------------------------------------
(* The run.                                                                *)

\* From the panel's first bar to the close of row i.
SeenBy(i) == SpanTo(p.ts, i, 1)

\* What the run is of; and when the lag covers the day, the book and what was
\* earned come from the panel, up to the close of the row.
CausalInv ==
  Begun =>
    /\ job \in Backtests /\ p = Load(job)
    /\ t \in Nat \ {0} /\ t <= Rows(p) /\ Rows(p) \in Nat
    /\ Covered(job) =>
         /\ book \in BooksBy(SeenBy(t - 1))
         /\ t >= 2 => earning \in BooksBy(SeenBy(t - 2))
         /\ equity \subseteq SeenBy(t - 1)

LEMMA CausalBegin == ASSUME NEW j \in Backtests, Begin(j) PROVE CausalInv'
<1>1. job' = j /\ p' = Load(j) /\ t' = 1 /\ book' = Flat /\ equity' = {}
  BY DEF Begin
<1>2. Rows(p') \in Nat
  BY <1>1, LoadRows
<1>3. Begun' => Rows(p') >= 3
  BY <1>2 DEF Begin, Begun
<1>4. (book \in BooksBy(SeenBy(t - 1)))'
  BY <1>1, FlatBook
<1> QED
  BY <1>1, <1>2, <1>3, <1>4 DEF CausalInv

\* Row t: what was seen a row before is seen by now, and so are the row's data.
LEMMA RowKnown ==
  ASSUME CausalInv, Begun, Covered(job), t < Rows(p)
  PROVE  /\ t \in Nat /\ 0 \in SeenBy(t) /\ SeenBy(t - 1) \subseteq SeenBy(t)
         /\ UpTo(p.close, t, SeenBy(t)) /\ Known(p.event[t], SeenBy(t))
         /\ DataKnown(job.strategy, p, t, SeenBy(t))
<1>1. job \in Backtests /\ p = Load(job) /\ t \in Nat \ {0} /\ Rows(p) \in Nat
  BY DEF CausalInv
<1>2. Ordered(p.ts) /\ DOMAIN p.ts = 0 .. Rows(p) - 1
  BY <1>1, LoadOrdered
<1>3. t \in DOMAIN p.ts /\ t - 1 \in 0 .. t /\ t - 1 \in DOMAIN p.ts
  BY <1>1, <1>2
<1>4. p.ts[t] \in Nat /\ p.ts[t - 1] \in Nat /\ p.ts[t - 1] + (t - (t - 1)) <= p.ts[t]
  BY <1>2, <1>3, OrderedRow, EarlierRow
<1>5. p.ts[t - 1] + 1 <= p.ts[t] + 1
  BY <1>1, <1>4
<1>6. SeenBy(t - 1) \subseteq SeenBy(t)
  <2> DEFINE ts == p.ts
             h == t - 1
  <2>1. Ordered(ts) /\ t \in DOMAIN ts /\ h \in DOMAIN ts /\ ts[h] + 1 <= ts[t] + 1 /\ 1 \in Int
    BY <1>2, <1>3, <1>5
  <2> HIDE DEF ts, h
  <2>2. SpanTo(ts, h, 1) \subseteq SpanTo(ts, t, 1)
    BY <2>1, SpanGrows
  <2> QED
    BY <2>2 DEF SeenBy, ts, h
<1>7. DataKnown(job.strategy, p, t, SeenBy(t)) /\ Known(p.event[t], SeenBy(t))
  BY <1>1, <1>3, LoadKnown DEF SeenBy
<1>8. UpTo(p.close, t, SeenBy(t))
  BY <1>7 DEF DataKnown
<1>9. 0 \in SeenBy(t)
  BY DEF SeenBy, SpanTo
<1> QED
  BY <1>1, <1>6, <1>7, <1>8, <1>9

LEMMA CausalHold == ASSUME CausalInv, Hold PROVE CausalInv'
<1>1. /\ Begun /\ t < Rows(p) /\ t' = t + 1 /\ job' = job /\ p' = p /\ earning' = book
      /\ book' = Drift(p, t, book) /\ equity' = equity \cup Earn(p, t, book)
  BY DEF Hold, Row, Begun
<1>2. job \in Backtests /\ p = Load(job) /\ t \in Nat \ {0} /\ Rows(p) \in Nat
  BY <1>1 DEF CausalInv
<1>3. t' \in Nat \ {0} /\ t' <= Rows(p) /\ t' - 1 = t /\ t' - 2 = t - 1
  BY <1>1, <1>2
<1>4. ASSUME Covered(job)
      PROVE  /\ book' \in BooksBy(SeenBy(t)) /\ book \in BooksBy(SeenBy(t - 1))
             /\ equity' \subseteq SeenBy(t)
  <2>1. /\ t \in Nat /\ 0 \in SeenBy(t) /\ SeenBy(t - 1) \subseteq SeenBy(t)
        /\ UpTo(p.close, t, SeenBy(t)) /\ Known(p.event[t], SeenBy(t))
    BY <1>1, <1>4, RowKnown
  <2>2. book \in BooksBy(SeenBy(t - 1)) /\ equity \subseteq SeenBy(t - 1)
    BY <1>1, <1>4 DEF CausalInv
  <2>3. book \in BooksBy(SeenBy(t))
    BY <2>1, <2>2, LaterBook
  <2>4. Earn(p, t, book) \subseteq SeenBy(t)
    BY <2>1, <2>3, EarnKnown
  <2>5. Drift(p, t, book) \in BooksBy(SeenBy(t))
    BY <2>1, <2>3, DriftKnown
  <2> QED
    BY <1>1, <2>1, <2>2, <2>4, <2>5
<1>5. SeenBy(t - 1)' = SeenBy(t) /\ SeenBy(t - 2)' = SeenBy(t - 1)
  BY <1>1, <1>3 DEF SeenBy
<1> QED
  BY <1>1, <1>2, <1>3, <1>4, <1>5 DEF CausalInv, Covered

LEMMA CausalRebalance == ASSUME CausalInv, Rebalance PROVE CausalInv'
<1> DEFINE earned == equity \cup Earn(p, t, book)
           drifted == Drift(p, t, book)
           target == TargetWeights(job, p, t)
<1>1. /\ Begun /\ t < Rows(p) /\ t' = t + 1 /\ job' = job /\ p' = p /\ earning' = book
      /\ book' = PartFilled(job, drifted, Derisked(job, target, earned))
      /\ equity' = earned \cup DependsOn(drifted) \cup DependsOn(book')
  BY DEF Rebalance, Row, Begun
<1>2. job \in Backtests /\ p = Load(job) /\ t \in Nat \ {0} /\ Rows(p) \in Nat
  BY <1>1 DEF CausalInv
<1>3. t' \in Nat \ {0} /\ t' <= Rows(p) /\ t' - 1 = t /\ t' - 2 = t - 1
  BY <1>1, <1>2
<1> HIDE DEF earned, drifted, target
<1>4. ASSUME Covered(job)
      PROVE  /\ book' \in BooksBy(SeenBy(t)) /\ book \in BooksBy(SeenBy(t - 1))
             /\ equity' \subseteq SeenBy(t)
  <2>1. /\ t \in Nat /\ 0 \in SeenBy(t) /\ SeenBy(t - 1) \subseteq SeenBy(t)
        /\ UpTo(p.close, t, SeenBy(t)) /\ Known(p.event[t], SeenBy(t))
        /\ DataKnown(job.strategy, p, t, SeenBy(t))
    BY <1>1, <1>4, RowKnown
  <2>2. book \in BooksBy(SeenBy(t - 1)) /\ equity \subseteq SeenBy(t - 1)
    BY <1>1, <1>4 DEF CausalInv
  <2>3. book \in BooksBy(SeenBy(t))
    BY <2>1, <2>2, LaterBook
  <2>4. earned \subseteq SeenBy(t)
    BY <2>1, <2>2, <2>3, EarnKnown DEF earned
  <2>5. drifted \in BooksBy(SeenBy(t))
    BY <2>1, <2>3, DriftKnown DEF drifted
  <2>6. target \in BooksBy(SeenBy(t))
    BY <1>2, <2>1, TargetKnown DEF target
  <2>7. book' \in BooksBy(SeenBy(t))
    BY <1>1, <2>4, <2>5, <2>6, DeriskedKnown, PartFilledKnown
  <2>8. DependsOn(drifted) \subseteq SeenBy(t) /\ DependsOn(book') \subseteq SeenBy(t)
    BY <2>5, <2>7, DependsOnKnown
  <2> QED
    BY <1>1, <2>2, <2>4, <2>7, <2>8
<1>5. SeenBy(t - 1)' = SeenBy(t) /\ SeenBy(t - 2)' = SeenBy(t - 1)
  BY <1>1, <1>3 DEF SeenBy
<1> QED
  BY <1>1, <1>2, <1>3, <1>4, <1>5 DEF CausalInv, Covered

LEMMA CausalDriven == CausalInv /\ Driven => CausalInv'
<1> SUFFICES ASSUME CausalInv, Driven PROVE CausalInv'
  OBVIOUS
<1>1. CASE Hold
  BY <1>1, CausalHold
<1>2. CASE Rebalance
  BY <1>2, CausalRebalance
<1>3. CASE Finish
  <2>1. Begun /\ UNCHANGED <<job, p, t, book, earning, equity, trades, native>>
    BY <1>3 DEF Finish, Begun
  <2> QED
    BY <2>1 DEF CausalInv, Covered, SeenBy
<1>4. CASE \E j \in Backtests : Begin(j)
  BY <1>4, CausalBegin
<1>5. CASE UNCHANGED vars
  BY <1>5 DEF vars, CausalInv, Begun, Covered, SeenBy
<1>6. CASE ~Begun'
  BY <1>6 DEF CausalInv
<1> QED
  BY <1>1, <1>2, <1>3, <1>4, <1>5, <1>6 DEF Driven

LEMMA CausalLooksBack == CausalInv => NoLookAhead
<1> SUFFICES ASSUME CausalInv, Begun, Covered(job)
             PROVE  /\ KnownBy(book, Close(t - 1))
                    /\ t >= 2 => KnownBy(earning, Close(t - 2))
                    /\ equity \subseteq 0 .. Close(t - 1)
  BY DEF NoLookAhead
<1>1. job \in Backtests /\ p = Load(job) /\ t \in Nat \ {0} /\ Rows(p) \in Nat /\ t <= Rows(p)
  BY DEF CausalInv
<1>2. Ordered(p.ts) /\ DOMAIN p.ts = 0 .. Rows(p) - 1
  BY <1>1, LoadOrdered
<1>3. ASSUME NEW i \in DOMAIN p.ts PROVE SeenBy(i) \subseteq 0 .. Close(i)
  <2>1. i \in Nat /\ 0 \in 0 .. i /\ 0 \in DOMAIN p.ts /\ p.ts[i] \in Nat
    <3>1. i \in Nat /\ 0 .. i \subseteq DOMAIN p.ts /\ p.ts[i] \in Nat
      BY <1>2, OrderedRow
    <3> QED
      BY <3>1
  <2>2. p.ts[0] \in Nat
    BY <1>2, <2>1, OrderedRow
  <2> QED
    BY <2>1, <2>2 DEF SeenBy, SpanTo, Close
<1>4. t - 1 \in DOMAIN p.ts /\ (t >= 2 => t - 2 \in DOMAIN p.ts)
  BY <1>1, <1>2
<1> QED
  BY <1>3, <1>4, BookKnown DEF CausalInv

\* No look-ahead, for any coins, any history with its holes, any of the thirty
\* strategies, any overlay and any lag that covers the day of the data that are
\* read.  (cross_sectional.py:5-6 and 83-86)
THEOREM NoLookAheadAlways == Spec => []NoLookAhead
<1>1. Init => CausalInv
  BY DEF Init, CausalInv, Begun
<1>2. CausalInv /\ [Next]_vars => CausalInv'
  BY CausalDriven, NextDriven
<1> QED
  BY <1>1, <1>2, CausalLooksBack, PTL DEF Spec
=============================================================================
