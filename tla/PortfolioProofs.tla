--------------------------- MODULE PortfolioProofs ---------------------------
(***************************************************************************)
(* Proofs about what is built on the cross-sectional backtester.  A book   *)
(* holds only coins with a price: PricedOrFilledIn of the backtester and   *)
(* LivePriced of the live books.  And a walk-forward study judges a choice *)
(* on bars the choice did not see: OutOfSample.                            *)
(***************************************************************************)
EXTENDS CrossSectionProofs, Signal, WalkForward

\* A vector without a view on a coin that has no price at row i.
Priced(x, q, i) == \A c \in Coins : x[c] # Missing => q.close[i][c] # Missing

\* A book without a coin that has no price at row i.
HoldsPriced(w, q, i) == \A c \in Held(w) : Tradable(q, i, c)

LEMMA NanPriced == \A q, i : Priced(Nan, q, i)
BY DEF Priced, Nan

\* A strict reduction over rows is missing when one of them is.
LEMMA OverPriced ==
  ASSUME NEW q, NEW i, NEW R, i \in R \/ R = {}
  PROVE  Priced(Over(q.close, R), q, i)
<1> SUFFICES ASSUME NEW c \in Coins, q.close[i][c] = Missing
             PROVE  Over(q.close, R)[c] = Missing
  BY DEF Priced
<1> DEFINE cells == {q.close[r][c] : r \in R}
<1>1. Over(q.close, R)[c] = Strict(cells)
  BY DEF Over
<1>2. CASE i \in R
  BY <1>1, <1>2 DEF Strict
<1>3. CASE R = {}
  BY <1>1, <1>3 DEF Strict, Missing
<1> QED
  BY <1>2, <1>3

LEMMA BothPriced ==
  ASSUME NEW x, NEW y, NEW q, NEW i, Priced(x, q, i) \/ Priced(y, q, i)
  PROVE  Priced(Both(x, y), q, i)
<1> SUFFICES ASSUME NEW c \in Coins, x[c] = Missing \/ y[c] = Missing
             PROVE  Both(x, y)[c] = Missing
  BY DEF Priced
<1> QED
  BY DEF Both, Strict

LEMMA RankPriced ==
  ASSUME NEW x, NEW q, NEW i, Priced(x, q, i), NEW least
  PROVE  Priced(RankOf(x, least), q, i)
BY DEF Priced, RankOf, Valid

\* The last n rows hold the row itself, or nothing.
LEMMA LastRow1 == ASSUME NEW i \in Nat, NEW n \in Nat PROVE i \in Last(i, n) \/ Last(i, n) = {}
<1>1. CASE n = 0
  <2>1. \A r \in 0 .. i : ~(r > i - 0)
    OBVIOUS
  <2> QED
    BY <1>1, <2>1 DEF Last
<1>2. CASE n # 0
  BY <1>2 DEF Last
<1> QED
  BY <1>1, <1>2

LEMMA ChangePriced ==
  ASSUME NEW q, NEW i, NEW k PROVE Priced(Change(q.close, i, k), q, i)
BY OverPriced DEF Change

LEMMA PriceViews ==
  ASSUME NEW s, NEW q, NEW i \in Nat, s.k \in Nat
  PROVE  /\ Priced(Reversal(s, q, i), q, i) /\ Priced(Momentum(s, q, i), q, i)
         /\ Priced(Trend(s, q, i), q, i) /\ Priced(TrendEnsemble(s, q, i), q, i)
         /\ Priced(LowVol(s, q, i), q, i) /\ Priced(MaxReturn(s, q, i), q, i)
         /\ Priced(Value(s, q, i), q, i) /\ Priced(Size(s, q, i), q, i)
         /\ Priced(ResidualMomentum(s, q, i), q, i) /\ Priced(Illiquidity(s, q, i), q, i)
<1>1. /\ Priced(Reversal(s, q, i), q, i) /\ Priced(Momentum(s, q, i), q, i)
      /\ Priced(Trend(s, q, i), q, i)
  BY NanPriced, ChangePriced DEF Reversal, Momentum, Trend
<1>2. Priced(TrendEnsemble(s, q, i), q, i)
  <2> DEFINE ready == {k \in {s.k, 2 * s.k} : i >= k}
             R == {i} \cup {i - k : k \in ready}
  <2>1. TrendEnsemble(s, q, i) = IF ready = {} THEN Nan ELSE Over(q.close, R)
    BY DEF TrendEnsemble
  <2>2. i \in R
    OBVIOUS
  <2> HIDE DEF ready, R
  <2> QED
    BY <2>1, <2>2, NanPriced, OverPriced
<1>3. i <= s.k \/ i \in (i - s.k) .. i
  OBVIOUS
<1>4. /\ Priced(LowVol(s, q, i), q, i) /\ Priced(MaxReturn(s, q, i), q, i)
  BY <1>3, NanPriced, OverPriced DEF LowVol, MaxReturn
<1>5. Priced(Over(q.close, Last(i, s.k)), q, i)
  BY LastRow1, OverPriced
<1>6. Priced(Value(s, q, i), q, i) /\ Priced(Size(s, q, i), q, i)
  BY <1>5, NanPriced, BothPriced DEF Value, Size
<1>7. Priced(Illiquidity(s, q, i), q, i)
  <2>1. CASE i <= s.k
    BY <2>1, NanPriced DEF Illiquidity
  <2>2. CASE ~(i <= s.k)
    <3>1. Priced(Over(q.close, (i - s.k) .. i), q, i)
      BY <1>3, <2>2, OverPriced
    <3> QED
      BY <2>2, <3>1, BothPriced DEF Illiquidity
  <2> QED
    BY <2>1, <2>2
<1>8. Priced(ResidualMomentum(s, q, i), q, i)
  <2>1. CASE i <= s.k
    BY <2>1, NanPriced DEF ResidualMomentum
  <2>2. CASE ~(i <= s.k)
    <3> SUFFICES ASSUME NEW c \in Coins, q.close[i][c] = Missing
                 PROVE  ResidualMomentum(s, q, i)[c] = Missing
      BY DEF Priced
    <3> DEFINE cells == {q.close[r][d] : r \in (i - s.k) .. i, d \in Coins}
    <3>1. Missing \in cells
      BY <1>3, <2>2
    <3>2. ResidualMomentum(s, q, i)[c] = Strict(cells)
      BY <2>2 DEF ResidualMomentum
    <3> QED
      BY <3>1, <3>2 DEF Strict
  <2> QED
    BY <2>1, <2>2
<1> QED
  BY <1>1, <1>2, <1>4, <1>6, <1>7, <1>8

\* Views on a price beside something else.
LEMMA OtherViews ==
  ASSUME NEW s, NEW q, NEW i \in Nat, s.k \in Nat
  PROVE  Priced(TVLDivergence(s, q, i), q, i) /\ Priced(OIPriceDivergence(s, q, i), q, i)
<1>1. Priced(Change(q.close, i, s.k), q, i) /\ Priced(RankAny(Change(q.close, i, s.k)), q, i)
  BY ChangePriced, RankPriced DEF RankAny
<1> QED
  BY <1>1, NanPriced, BothPriced DEF TVLDivergence, OIPriceDivergence

\* Averaged over its own row alone, a raw score keeps its holes.
LEMMA SmoothedPriced ==
  ASSUME NEW raw, NEW q, NEW i \in Nat, Priced(raw[i], q, i), NEW n \in Nat, n <= 1
  PROVE  Priced(Smoothed(raw, i, n), q, i)
<1> SUFFICES ASSUME NEW c \in Coins, raw[i][c] = Missing PROVE Smoothed(raw, i, n)[c] = Missing
  BY DEF Priced
<1>1. \A h \in Last(i, n) : h = i
  BY DEF Last
<1>2. \A x \in {raw[h][c] : h \in Last(i, n)} : x = {}
  BY <1>1 DEF Missing
<1> QED
  BY <1>2 DEF Smoothed, Skip, Missing

LEMMA FlowViews ==
  ASSUME NEW s, NEW q, NEW i \in Nat, s.k \in Nat, s.smooth \in Nat, s.smooth <= 1, i \in DOMAIN q.close
  PROVE  Priced(FlowConfirmation(s, q, i), q, i) /\ Priced(ForcedFlowReversal(s, q, i), q, i)
<1> DEFINE ret == Changes(q.close, s.k)
<1>1. Priced(ret[i], q, i)
  BY NanPriced, ChangePriced DEF Changes
<1>2. Flow(s, q, i).ret = Both(ret[i], Z(ret, i, s.window, FlowObs))
  BY DEF Flow
<1> HIDE DEF ret
<1>3. Priced(Flow(s, q, i).ret, q, i)
  BY <1>1, <1>2, BothPriced
<1>4. Priced(FlowConfirmation(s, q, i), q, i)
  <2> DEFINE raw == [h \in 0 .. i |-> Both(Flow(s, q, h).ret, Flow(s, q, h).doi)]
  <2>1. Priced(raw[i], q, i)
    BY <1>3, BothPriced
  <2>2. FlowConfirmation(s, q, i) = RankOf(Smoothed(raw, i, s.smooth), 2)
    BY DEF FlowConfirmation, RankCS
  <2> HIDE DEF raw
  <2> QED
    BY <2>1, <2>2, SmoothedPriced, RankPriced
<1>5. Priced(ForcedFlowReversal(s, q, i), q, i)
  <2> DEFINE forced == [h \in 0 .. i |-> Forced(Flow(s, q, h), h)]
  <2>1. \A f : Priced(f.ret, q, i) => Priced(Forced(f, i), q, i)
    BY DEF Priced, Forced
  <2>2. ForcedFlowReversal(s, q, i) = RankOf(Smoothed(forced, i, s.smooth), 2)
    BY DEF ForcedFlowReversal, RankCS
  <2>3. Priced(forced[i], q, i)
    BY <1>3, <2>1
  <2> HIDE DEF forced
  <2> QED
    BY <2>2, <2>3, SmoothedPriced, RankPriced
<1> QED
  BY <1>4, <1>5

\* Where nothing is filled in, a coin without a price has no score.
LEMMA ScoresPriced ==
  ASSUME NEW s, NEW q, NEW i \in Nat, s.name \in StrategyNames, s.k \in Nat, s.smooth \in Nat,
         ~FilledIn(s), i \in DOMAIN q.close
  PROVE  Priced(Scores(s, q, i), q, i)
<1>1. s.smooth <= 1
  BY DEF FilledIn
<1>2. CASE s.name \in {"reversal", "momentum", "trend", "ensemble", "lowvol", "maxreturn",
                       "value", "size", "residual", "illiquidity"}
  <2>1. /\ Priced(Reversal(s, q, i), q, i) /\ Priced(Momentum(s, q, i), q, i)
        /\ Priced(Trend(s, q, i), q, i) /\ Priced(TrendEnsemble(s, q, i), q, i)
        /\ Priced(LowVol(s, q, i), q, i) /\ Priced(MaxReturn(s, q, i), q, i)
        /\ Priced(Value(s, q, i), q, i) /\ Priced(Size(s, q, i), q, i)
        /\ Priced(ResidualMomentum(s, q, i), q, i) /\ Priced(Illiquidity(s, q, i), q, i)
    BY PriceViews
  <2> QED
    BY <1>2, <2>1 DEF Scores
<1>3. CASE s.name \in {"tvldivergence", "oidivergence", "flow", "forcedflow"}
  <2>1. /\ Priced(TVLDivergence(s, q, i), q, i) /\ Priced(OIPriceDivergence(s, q, i), q, i)
        /\ Priced(FlowConfirmation(s, q, i), q, i) /\ Priced(ForcedFlowReversal(s, q, i), q, i)
    BY <1>1, OtherViews, FlowViews
  <2> QED
    BY <1>3, <2>1 DEF Scores
<1> QED
  BY <1>2, <1>3 DEF FilledIn, StrategyNames

-----------------------------------------------------------------------------
(* From scores to books.                                                   *)

\* A book of positions, whatever their times.
IsBook(w) == \A c \in Coins : w[c] = [side |-> w[c].side, from |-> w[c].from]

\* w holds no coin that v does not hold.
NoMore(w, v) == \A c \in Coins : w[c].side # 0 => v[c].side # 0

LEMMA Position ==
  ASSUME NEW v, NEW side, NEW from, v = [side |-> side, from |-> from]
  PROVE  v.side = side /\ v = [side |-> v.side, from |-> v.from]
OBVIOUS

LEMMA PositionAdds ==
  \A side, from, S : [[side |-> side, from |-> from] EXCEPT !.from = @ \cup S]
                     = [side |-> side, from |-> from \cup S]
OBVIOUS

LEMMA OutIsOut == Out.side = 0 /\ Out = [side |-> Out.side, from |-> Out.from]
BY DEF Out

LEMMA NeedsKeeps ==
  ASSUME NEW w, IsBook(w), NEW c \in Coins, NEW S
  PROVE  Needs(w, c, S) = [side |-> w[c].side, from |-> w[c].from \cup S]
<1> DEFINE v == w[c]
           a == w[c].side
           b == w[c].from
<1>1. v = [side |-> a, from |-> b]
  BY DEF IsBook
<1>2. Needs(w, c, S) = [v EXCEPT !.from = @ \cup S]
  BY DEF Needs
<1>3. [[side |-> a, from |-> b] EXCEPT !.from = @ \cup S] = [side |-> a, from |-> b \cup S]
  BY PositionAdds
<1> QED
  <2> HIDE DEF v, a, b
  <2>1. Needs(w, c, S) = [side |-> a, from |-> b \cup S]
    BY <1>1, <1>2, <1>3
  <2> QED
    BY <2>1 DEF a, b

\* What is left of a book when each position is kept, adds times, or is dropped.
LEMMA FewerHeld ==
  ASSUME NEW w, IsBook(w), NEW v,
         \A c \in Coins : v[c] = Out \/ v[c] = w[c] \/ \E S : v[c] = Needs(w, c, S)
  PROVE  IsBook(v) /\ NoMore(v, w)
<1> SUFFICES ASSUME NEW c \in Coins
             PROVE  /\ v[c] = [side |-> v[c].side, from |-> v[c].from]
                    /\ v[c].side # 0 => w[c].side # 0
  BY DEF IsBook, NoMore
<1>1. CASE v[c] = Out
  BY <1>1, OutIsOut
<1>2. CASE v[c] = w[c]
  BY <1>2 DEF IsBook
<1>3. ASSUME NEW S, v[c] = Needs(w, c, S)
      PROVE  /\ v[c] = [side |-> v[c].side, from |-> v[c].from]
             /\ v[c].side # 0 => w[c].side # 0
  BY <1>3, NeedsKeeps, Position
<1> QED
  BY <1>1, <1>2, <1>3

\* Weights are given to coins with a score only.
LEMMA WeightsPriced ==
  ASSUME NEW j, NEW i, NEW x, NEW q, Priced(x, q, i)
  PROVE  IsBook(ScoresToWeights(j, i, x)) /\ HoldsPriced(ScoresToWeights(j, i, x), q, i)
<1> DEFINE w == ScoresToWeights(j, i, x)
<1>1. \A c \in Coins : \/ w[c] = Out
                       \/ /\ x[c] # Missing
                          /\ w[c] = [side |-> SideOf(j, i, Valid(x), c),
                                     from |-> UNION {x[d] : d \in Valid(x)}]
  BY DEF ScoresToWeights, Valid
<1> HIDE DEF w
<1>2. IsBook(w)
  <2> SUFFICES ASSUME NEW c \in Coins PROVE w[c] = [side |-> w[c].side, from |-> w[c].from]
    BY DEF IsBook
  <2>1. \E side, from : w[c] = [side |-> side, from |-> from]
    BY <1>1, OutIsOut
  <2> QED
    BY <2>1, Position
<1>3. HoldsPriced(w, q, i)
  BY <1>1, OutIsOut, Position DEF HoldsPriced, Held, Tradable, Priced
<1> QED
  BY <1>2, <1>3 DEF w

\* The overlays only take coins out.
LEMMA OverlaysHeld ==
  ASSUME NEW j, NEW q, NEW i, NEW w, IsBook(w)
  PROVE  /\ IsBook(Shortable(j, q, i, w)) /\ NoMore(Shortable(j, q, i, w), w)
         /\ IsBook(VolScaled(j, q, i, w)) /\ NoMore(VolScaled(j, q, i, w), w)
         /\ IsBook(Capped(j, q, i, w)) /\ NoMore(Capped(j, q, i, w), w)
<1>1. \A c \in Coins : \/ Shortable(j, q, i, w)[c] = Out
                       \/ Shortable(j, q, i, w)[c] = w[c]
                       \/ \E S : Shortable(j, q, i, w)[c] = Needs(w, c, S)
  <2>1. \A c \in Coins : \/ Shortable(j, q, i, w)[c] = Out
                         \/ Shortable(j, q, i, w)[c] = w[c]
                         \/ Shortable(j, q, i, w)[c] = Needs(w, c, DollarVolume(q, i)[c])
    BY DEF Shortable
  <2> QED
    BY <2>1
<1>2. \A c \in Coins : \/ VolScaled(j, q, i, w)[c] = Out
                       \/ VolScaled(j, q, i, w)[c] = w[c]
                       \/ \E S : VolScaled(j, q, i, w)[c] = Needs(w, c, S)
  <2> DEFINE R == Larger(1, i - VolLookback + 1) .. i
             S0 == UNION {Return(q, r, d) : r \in R, d \in Coins}
  <2>1. VolScaled(j, q, i, w) =
          IF ~j.vol \/ Cardinality(R) < MinVolRows THEN w
          ELSE [c \in Coins |-> IF w[c].side = 0 THEN Out ELSE Needs(w, c, S0)]
    BY DEF VolScaled
  <2> HIDE DEF S0, R
  <2>2. \A c \in Coins : \/ VolScaled(j, q, i, w)[c] = Out
                         \/ VolScaled(j, q, i, w)[c] = w[c]
                         \/ VolScaled(j, q, i, w)[c] = Needs(w, c, S0)
    BY <2>1
  <2> QED
    BY <2>2
<1>3. \A c \in Coins : \/ Capped(j, q, i, w)[c] = Out
                       \/ Capped(j, q, i, w)[c] = w[c]
                       \/ \E S : Capped(j, q, i, w)[c] = Needs(w, c, S)
  <2>1. \A c \in Coins : \/ Capped(j, q, i, w)[c] = Out
                         \/ Capped(j, q, i, w)[c] = w[c]
                         \/ Capped(j, q, i, w)[c] = Needs(w, c, DollarVolume(q, i)[c])
    BY DEF Capped
  <2> QED
    BY <2>1
<1> QED
  BY <1>1, <1>2, <1>3, FewerHeld

\* A coin without a price is not in the target.
LEMMA TargetPriced ==
  ASSUME NEW j, NEW q, NEW i \in Nat, i \in DOMAIN q.close, ~FilledIn(j.strategy),
         j.strategy.name \in StrategyNames, j.strategy.k \in Nat, j.strategy.smooth \in Nat
  PROVE  IsBook(TargetWeights(j, q, i)) /\ HoldsPriced(TargetWeights(j, q, i), q, i)
<1> DEFINE w0 == ScoresToWeights(j, i, Scores(j.strategy, q, i))
           w1 == Shortable(j, q, i, w0)
           w2 == VolScaled(j, q, i, w1)
           w3 == Capped(j, q, i, w2)
<1>1. TargetWeights(j, q, i) = w3
  BY DEF TargetWeights
<1>2. IsBook(w0) /\ HoldsPriced(w0, q, i)
  BY ScoresPriced, WeightsPriced
<1> HIDE DEF w0
<1>3. IsBook(w1) /\ NoMore(w1, w0)
  BY <1>2, OverlaysHeld
<1> HIDE DEF w1
<1>4. IsBook(w2) /\ NoMore(w2, w1)
  BY <1>3, OverlaysHeld
<1> HIDE DEF w2
<1>5. IsBook(w3) /\ NoMore(w3, w2)
  BY <1>4, OverlaysHeld
<1> HIDE DEF w3
<1> QED
  BY <1>1, <1>2, <1>3, <1>4, <1>5 DEF HoldsPriced, NoMore, Held

\* Whatever the strategy, the target is a book.
LEMMA TargetIsBook == ASSUME NEW j, NEW q, NEW i PROVE IsBook(TargetWeights(j, q, i))
<1> DEFINE x == Scores(j.strategy, q, i)
           w0 == ScoresToWeights(j, i, x)
<1>1. IsBook(w0)
  <2> HIDE DEF x
  <2>1. \A c \in Coins : \/ w0[c] = Out
                         \/ w0[c] = [side |-> SideOf(j, i, Valid(x), c),
                                     from |-> UNION {x[d] : d \in Valid(x)}]
    BY DEF ScoresToWeights
  <2> HIDE DEF w0
  <2> QED
    <3> SUFFICES ASSUME NEW c \in Coins PROVE w0[c] = [side |-> w0[c].side, from |-> w0[c].from]
      BY DEF IsBook
    <3>1. \E side, from : w0[c] = [side |-> side, from |-> from]
      BY <2>1, OutIsOut
    <3> QED
      BY <3>1, Position
<1> HIDE DEF w0
<1>2. IsBook(Capped(j, q, i, VolScaled(j, q, i, Shortable(j, q, i, w0))))
  BY <1>1, OverlaysHeld
<1> QED
  BY <1>2 DEF TargetWeights, w0

\* Drifting drops the coins without a price.
LEMMA DriftPriced ==
  ASSUME NEW q, NEW i, NEW w, IsBook(w)
  PROVE  IsBook(Drift(q, i, w)) /\ HoldsPriced(Drift(q, i, w), q, i)
<1> DEFINE S0 == UNION {Return(q, i, d) : d \in Held(w)}
           v == Drift(q, i, w)
<1>1. \A c \in Coins : \/ v[c] = Out
                       \/ Tradable(q, i, c) /\ v[c] = Needs(w, c, S0)
  BY DEF Drift
<1> HIDE DEF S0, v
<1>2. IsBook(v)
  BY <1>1, FewerHeld
<1>3. HoldsPriced(v, q, i)
  BY <1>1, OutIsOut DEF HoldsPriced, Held
<1> QED
  BY <1>2, <1>3 DEF v

\* The drawdown scale adds no coin, and a partial fill holds one of either book.
LEMMA TradePriced ==
  ASSUME NEW j, NEW q, NEW i, NEW eq, NEW drifted, NEW w, IsBook(drifted), IsBook(w)
  PROVE  LET v == PartFilled(j, drifted, Derisked(j, w, eq))
         IN  /\ IsBook(v)
             /\ HoldsPriced(w, q, i) /\ HoldsPriced(drifted, q, i) => HoldsPriced(v, q, i)
<1> DEFINE d == Derisked(j, w, eq)
           v == PartFilled(j, drifted, d)
<1>1. \A c \in Coins : d[c] = Out \/ d[c] = w[c] \/ d[c] = Needs(w, c, eq)
  BY DEF Derisked
<1> HIDE DEF d
<1>2. IsBook(d) /\ NoMore(d, w)
  BY <1>1, FewerHeld
<1>3. \A c \in Coins :
        \/ v[c] = d[c]
        \/ v[c] = [side |-> IF d[c].side # 0 THEN d[c].side ELSE drifted[c].side,
                   from |-> d[c].from \cup drifted[c].from]
  BY DEF PartFilled
<1> HIDE DEF v
<1>4. \A c \in Coins : \/ v[c] = d[c]
                       \/ /\ v[c] = [side |-> v[c].side, from |-> v[c].from]
                          /\ v[c].side = d[c].side \/ v[c].side = drifted[c].side
  <2> TAKE c \in Coins
  <2>1. CASE v[c] = d[c]
    BY <2>1
  <2>2. CASE v[c] # d[c]
    <3> DEFINE side == IF d[c].side # 0 THEN d[c].side ELSE drifted[c].side
               from == d[c].from \cup drifted[c].from
    <3>1. v[c] = [side |-> side, from |-> from]
      BY <1>3, <2>2
    <3>2. v[c].side = side /\ v[c] = [side |-> v[c].side, from |-> v[c].from]
      <4> HIDE DEF side, from
      <4> QED
        BY <3>1, Position
    <3> QED
      BY <3>2
  <2> QED
    BY <2>1, <2>2
<1>5. IsBook(v)
  BY <1>2, <1>4 DEF IsBook
<1>6. HoldsPriced(w, q, i) /\ HoldsPriced(drifted, q, i) => HoldsPriced(v, q, i)
  BY <1>2, <1>4 DEF HoldsPriced, NoMore, Held
<1> QED
  BY <1>5, <1>6 DEF v, d

-----------------------------------------------------------------------------
(* PricedOrFilledIn, by an invariant of the loop.                          *)

PricedInv ==
  Begun =>
    /\ job \in Backtests /\ p = Load(job)
    /\ t \in Nat \ {0} /\ Rows(p) \in Nat /\ t <= Rows(p)
    /\ IsBook(book)
    /\ ~FilledIn(job.strategy) => HoldsPriced(book, p, t - 1)

LEMMA FlatIsBook == IsBook(Flat) /\ Held(Flat) = {}
BY OutIsOut DEF Flat, IsBook, Held

LEMMA CloseRows ==
  ASSUME NEW j \in Backtests PROVE DOMAIN Load(j).close = 0 .. Rows(Load(j)) - 1
<1>1. DOMAIN Load(j).close = DOMAIN Load(j).ts
  BY DEF Load, Closes, Matrix
<1> QED
  BY <1>1, LoadOrdered

LEMMA PricedBegin == ASSUME NEW j \in Backtests, Begin(j) PROVE PricedInv'
<1>1. job' = j /\ p' = Load(j) /\ t' = 1 /\ book' = Flat
  BY DEF Begin
<1>2. Rows(p') \in Nat
  BY <1>1, LoadRows
<1>3. Begun' => Rows(p') >= 3
  BY <1>2 DEF Begin, Begun
<1>4. IsBook(book)' /\ HoldsPriced(book, p, t - 1)'
  BY <1>1, FlatIsBook DEF HoldsPriced, IsBook, Held
<1> QED
  BY <1>1, <1>2, <1>3, <1>4 DEF PricedInv

LEMMA PricedHold == ASSUME PricedInv, Hold PROVE PricedInv'
<1>1. /\ Begun /\ t < Rows(p) /\ t' = t + 1 /\ job' = job /\ p' = p
      /\ book' = Drift(p, t, book)
  BY DEF Hold, Row, Begun
<1>2. /\ job \in Backtests /\ p = Load(job) /\ t \in Nat \ {0} /\ Rows(p) \in Nat /\ IsBook(book)
  BY <1>1 DEF PricedInv
<1>3. t' \in Nat \ {0} /\ t' <= Rows(p) /\ t' - 1 = t
  BY <1>1, <1>2
<1>4. IsBook(book') /\ HoldsPriced(book', p, t)
  BY <1>1, <1>2, DriftPriced
<1> QED
  BY <1>1, <1>2, <1>3, <1>4 DEF PricedInv

LEMMA PricedRebalance == ASSUME PricedInv, Rebalance PROVE PricedInv'
<1> DEFINE earned == equity \cup Earn(p, t, book)
           drifted == Drift(p, t, book)
           target == TargetWeights(job, p, t)
<1>1. /\ Begun /\ t < Rows(p) /\ t' = t + 1 /\ job' = job /\ p' = p
      /\ book' = PartFilled(job, drifted, Derisked(job, target, earned))
  BY DEF Rebalance, Row, Begun
<1>2. /\ job \in Backtests /\ p = Load(job) /\ t \in Nat \ {0} /\ Rows(p) \in Nat /\ IsBook(book)
  BY <1>1 DEF PricedInv
<1>3. t' \in Nat \ {0} /\ t' <= Rows(p) /\ t' - 1 = t
  BY <1>1, <1>2
<1>4. t \in DOMAIN p.close
  BY <1>1, <1>2, CloseRows
<1>5. IsBook(drifted) /\ HoldsPriced(drifted, p, t)
  BY <1>2, DriftPriced
<1>6. IsBook(target)
  BY TargetIsBook
<1>7. ~FilledIn(job.strategy) => HoldsPriced(target, p, t)
  BY <1>2, <1>4, TargetPriced, JobFields
<1> HIDE DEF earned, drifted, target
<1>8. IsBook(book') /\ (~FilledIn(job.strategy) => HoldsPriced(book', p, t))
  BY <1>1, <1>5, <1>6, <1>7, TradePriced
<1> QED
  BY <1>1, <1>2, <1>3, <1>8 DEF PricedInv

LEMMA PricedDriven == PricedInv /\ Driven => PricedInv'
<1> SUFFICES ASSUME PricedInv, Driven PROVE PricedInv'
  OBVIOUS
<1>1. CASE Hold
  BY <1>1, PricedHold
<1>2. CASE Rebalance
  BY <1>2, PricedRebalance
<1>3. CASE Finish
  <2>1. Begun /\ UNCHANGED <<job, p, t, book>>
    BY <1>3 DEF Finish, Begun
  <2> QED
    BY <2>1 DEF PricedInv
<1>4. CASE \E j \in Backtests : Begin(j)
  BY <1>4, PricedBegin
<1>5. CASE UNCHANGED vars
  BY <1>5 DEF vars, PricedInv, Begun
<1>6. CASE ~Begun'
  BY <1>6 DEF PricedInv
<1> QED
  BY <1>1, <1>2, <1>3, <1>4, <1>5, <1>6 DEF Driven

\* Under every strategy that fills nothing in, no book holds a coin that has
\* no price at the row, whatever holes the histories have and whatever the
\* overlays.  (cross_sectional.py:131-138 and 149-165)
THEOREM PricedOrFilledInAlways == Spec => []PricedOrFilledIn
<1>1. Init => PricedInv
  BY DEF Init, PricedInv, Begun
<1>2. PricedInv /\ [Next]_vars => PricedInv'
  BY PricedDriven, NextDriven
<1>3. PricedInv => PricedOrFilledIn
  BY DEF PricedInv, PricedOrFilledIn, HoldsPriced
<1> QED
  BY <1>1, <1>2, <1>3, PTL DEF Spec

-----------------------------------------------------------------------------
(* The live books.                                                         *)

\* What a sleeve holds has a price on the last bar of its panel.
LEMMA SleevePriced ==
  ASSUME NEW j, j.ragged, j.listed \in [Coins -> SUBSET Bars], \E c \in Coins : j.listed[c] # {},
         j.strategy.name \in StrategyNames, j.strategy.k \in Nat, j.strategy.smooth \in Nat,
         ~FilledIn(j.strategy)
  PROVE  \A c \in Held(EngineWeights(j)) :
           \E b \in j.listed[c] : \A x \in PanelBars(j.listed, TRUE) : x <= b
<1> DEFINE S == PanelBars(j.listed, TRUE)
           q == Load(j)
           i == Cardinality(S) - 1
           b == Timeline(S)[i]
<1>1. S \subseteq Bars /\ IsFiniteSet(S)
  BY PanelBarsFinite
<1>2. S \in SUBSET Int
  <2>1. \A x \in S : x \in Nat
    BY <1>1, BarsType
  <2> HIDE DEF S
  <2> QED
    BY <2>1
<1>3. S # {}
  BY DEF PanelBars
<1>4. PanelBars(j.listed, j.ragged) = S
  BY DEF PanelBars
<1>5. q.ts = Timeline(S) /\ q.close = Closes(Timeline(S), j.listed)
  BY <1>4 DEF Load
<1> HIDE DEF q, S
<1>6. Cardinality(S) \in Nat /\ i \in 0 .. Cardinality(S) - 1 /\ \A x \in S : x <= b
  BY <1>1, <1>2, <1>3, TimelineLast, FS_CardinalityType
<1>7. /\ DOMAIN Timeline(S) = 0 .. Cardinality(S) - 1
      /\ b \in S
  BY <1>1, <1>2, <1>6, TimelineOrder
<1>8. Rows(q) - 1 = i
  BY <1>5, <1>6, <1>7, FS_Interval DEF Rows
<1>9. i \in DOMAIN q.close
  BY <1>5, <1>6, <1>7 DEF Closes, Matrix
<1>10. i \in Nat
  BY <1>6
<1> HIDE DEF i
<1>11. HoldsPriced(TargetWeights(j, q, i), q, i)
  BY <1>9, <1>10, TargetPriced
<1>12. ASSUME NEW c \in Coins, q.close[i][c] # Missing PROVE b \in j.listed[c]
  BY <1>1, <1>5, <1>7, <1>6, <1>12 DEF Closes, Matrix
<1>13. EngineWeights(j) = TargetWeights(j, q, i)
  BY <1>8 DEF EngineWeights, q
<1> HIDE DEF b
<1> QED
  BY <1>6, <1>11, <1>12, <1>13 DEF HoldsPriced, Held, Tradable, S

\* The three kinds of sleeve are strict in the last close.
LEMMA SleevesStrict ==
  ASSUME NEW m \in Markets, NEW floor, NEW k \in Nat, NEW capacity
  PROVE  /\ \A j \in {TrendSleeve(m.broad, floor), SizeSleeve(m.broad, floor)} :
              \A c \in Held(EngineWeights([j EXCEPT !.capacity = capacity])) \cup Held(EngineWeights(j)) :
                \E b \in m.broad.listed[c] : \A x \in PanelBars(m.broad.listed, TRUE) : x <= b
         /\ \A c \in Held(EngineWeights(ChainSleeve(m.defi, k))) :
              \E b \in m.defi.listed[c] : \A x \in PanelBars(m.defi.listed, TRUE) : x <= b
<1> DEFINE Live(j, data) ==
             /\ j.ragged = TRUE /\ j.listed = data.listed
             /\ \E name \in {"ensemble", "size", "tvldivergence"}, h \in Nat :
                  j.strategy = Horizon(name, h)
<1>1. ASSUME NEW j, NEW data \in {m.broad, m.defi}, Live(j, data)
      PROVE  \A c \in Held(EngineWeights(j)) :
               \E b \in data.listed[c] : \A x \in PanelBars(data.listed, TRUE) : x <= b
  <2>1. PICK name \in {"ensemble", "size", "tvldivergence"}, h \in Nat :
          j.strategy = Horizon(name, h)
    BY <1>1
  <2>2. j.strategy.name = name /\ j.strategy.k = h /\ j.strategy.smooth = 0
    BY <2>1 DEF Horizon
  <2>3. j.strategy.name \in StrategyNames /\ ~FilledIn(j.strategy)
    BY <2>2 DEF StrategyNames, FilledIn
  <2>4. /\ j.ragged /\ j.listed = data.listed
        /\ data.listed \in [Coins -> SUBSET Bars] /\ \E c \in Coins : data.listed[c] # {}
    BY <1>1, MarketsAssumption
  <2>5. j.strategy.k \in Nat /\ j.strategy.smooth \in Nat
    BY <2>2
  <2> QED
    BY <2>3, <2>4, <2>5, SleevePriced
<1>2. /\ Live(TrendSleeve(m.broad, floor), m.broad)
      /\ Live([TrendSleeve(m.broad, floor) EXCEPT !.capacity = capacity], m.broad)
  BY DEF TrendSleeve, Sleeve, TrendHorizon
<1>3. /\ Live(SizeSleeve(m.broad, floor), m.broad)
      /\ Live([SizeSleeve(m.broad, floor) EXCEPT !.capacity = capacity], m.broad)
  BY DEF SizeSleeve, Sleeve, SizeHorizon
<1>4. Live(ChainSleeve(m.defi, k), m.defi)
  BY DEF ChainSleeve, Sleeve
<1> HIDE DEF Live
<1> QED
  BY <1>1, <1>2, <1>3, <1>4

\* The coins of a book made from m are priced in one of its panels.
PricedIn(m, coins) ==
  \A c \in coins : \E data \in {m.broad, m.defi} :
    \E b \in data.listed[c] : \A x \in PanelBars(data.listed, TRUE) : x <= b

LEMMA CombinedPriced ==
  ASSUME NEW m \in Markets, NEW floor, NEW capacity
  PROVE  PricedIn(m, CombinedBook(m, floor, capacity).coins)
<1> DEFINE two == {TrendSleeve(m.broad, floor), SizeSleeve(m.broad, floor)}
           sleeves == {[j EXCEPT !.capacity = capacity] : j \in two}
<1>1. CombinedBook(m, floor, capacity).coins = UNION {Held(EngineWeights(j)) : j \in sleeves}
  BY DEF CombinedBook, InSleeves
<1>2. \A j \in two : \A c \in Held(EngineWeights([j EXCEPT !.capacity = capacity])) :
        \E b \in m.broad.listed[c] : \A x \in PanelBars(m.broad.listed, TRUE) : x <= b
  BY SleevesStrict
<1> HIDE DEF two
<1> QED
  BY <1>1, <1>2 DEF PricedIn

LEMMA AlphaPriced ==
  ASSUME NEW m \in Markets, NEW floor, NEW fees
  PROVE  PricedIn(m, AlphaBook(m, floor, fees).coins)
<1> DEFINE two == {TrendSleeve(m.broad, floor), SizeSleeve(m.broad, floor)}
           chain == {ChainSleeve(m.defi, ChainHorizon), ChainSleeve(m.defi, ChainHorizon - 1)}
<1>1. AlphaBook(m, floor, fees).coins \subseteq
        UNION {Held(EngineWeights(j)) : j \in two \cup chain}
  BY DEF AlphaBook, InSleeves
<1>2. \A j \in two : \A c \in Held(EngineWeights(j)) :
        \E b \in m.broad.listed[c] : \A x \in PanelBars(m.broad.listed, TRUE) : x <= b
  BY SleevesStrict
<1>3. \A j \in chain : \A c \in Held(EngineWeights(j)) :
        \E b \in m.defi.listed[c] : \A x \in PanelBars(m.defi.listed, TRUE) : x <= b
  <2>1. ChainHorizon \in Nat /\ ChainHorizon - 1 \in Nat
    BY DEF ChainHorizon
  <2> QED
    BY <2>1, SleevesStrict
<1> HIDE DEF two, chain
<1> QED
  BY <1>1, <1>2, <1>3 DEF PricedIn

\* For any market, volume floor and capacity, the live books that are made hold only coins
\* that have a price on the last bar.  (signal.py:38-50)
THEOREM LivePricedAlways == LiveSpec => []LivePriced
<1> DEFINE Inv == live \notin {NoBook, Raised} => PricedIn(live.market, live.coins)
<1>1. LiveInit => Inv
  BY DEF LiveInit
<1>2. Inv /\ [LiveNext]_live => Inv'
  <2> SUFFICES ASSUME Inv, [LiveNext]_live PROVE Inv'
    OBVIOUS
  <2>1. CASE MakeCombined
    <3>1. PICK m \in Markets, floor \in {0, 1}, capacity \in BOOLEAN :
            live' = CombinedBook(m, floor, capacity)
      BY <2>1 DEF MakeCombined
    <3>2. live'.market = m
      BY <3>1 DEF CombinedBook
    <3> QED
      BY <3>1, <3>2, CombinedPriced
  <2>2. CASE MakeAlpha
    <3>1. PICK m \in Markets, floor \in {0, 1}, fees \in BOOLEAN :
            live' = IF TooFewBars(m) THEN Raised ELSE AlphaBook(m, floor, fees)
      BY <2>2 DEF MakeAlpha
    <3>2. CASE TooFewBars(m)
      BY <3>1, <3>2
    <3>3. CASE ~TooFewBars(m)
      <4>1. live' = AlphaBook(m, floor, fees) /\ live'.market = m
        BY <3>1, <3>3 DEF AlphaBook
      <4> QED
        BY <4>1, AlphaPriced
    <3> QED
      BY <3>2, <3>3
  <2>3. CASE UNCHANGED live
    BY <2>3
  <2> QED
    BY <2>1, <2>2, <2>3 DEF LiveNext
<1>3. Inv => LivePriced
  BY DEF LivePriced, PricedIn
<1> QED
  BY <1>1, <1>2, <1>3, PTL DEF LiveSpec

-----------------------------------------------------------------------------
(***************************************************************************)
(* The walk-forward study.  The segment under way is the one its window    *)
(* cuts out; the choice so far comes from the training bars; and the       *)
(* stitched curve ends before the window's test bars.                      *)
(***************************************************************************)
LastTrained(w, s) == Master(w)[s + w.train - 1]
FirstTested(w, s) == Master(w)[s + w.train]

Increasing(bars) == \A i, k \in 1 .. Len(bars) : i < k => bars[i] < bars[k]

InWindow ==
  /\ start \in Nat /\ Fits(study, start)
  /\ trial \in DOMAIN study.grid /\ best.params \in DOMAIN study.grid
  /\ phase # "idle" /\ stage = "train" =>
       job = SegmentJob(study, trial, TrainBars(study, start))
  /\ phase # "idle" /\ stage = "test" =>
       job = SegmentJob(study, best.params, TestBars(study, start))
  /\ best.from \subseteq 0 .. LastTrained(study, start) + 1

Stitched ==
  /\ curve \in Seq(Nat)
  /\ StepSize(study) >= study.test =>
       /\ Increasing(curve)
       /\ stage \in {"train", "test"} =>
            \A i \in 1 .. Len(curve) : curve[i] < FirstTested(study, start)

WalkInv ==
  /\ stage \in {"idle", "train", "test", "over", "raised"}
  /\ stage = "idle" => start = 0 /\ trial = 1 /\ best = FirstParams /\ curve = <<>>
  /\ stage # "idle" => study \in Studies /\ Stitched
  /\ stage \in {"train", "test"} => InWindow

LEMMA StudyFields ==
  ASSUME NEW w \in Studies
  PROVE  /\ w.job \in Backtests
         /\ w.grid \in Seq([name : ContextOnly, k : Nat, window : Nat, smooth : Nat])
         /\ DOMAIN w.grid = 1 .. Len(w.grid) /\ Len(w.grid) \in Nat /\ 1 \in DOMAIN w.grid
         /\ w.train \in Nat \ {0} /\ w.test \in Nat \ {0} /\ w.step \in Nat
         /\ StepSize(w) \in Nat
<1>1. /\ w.job \in Backtests
      /\ w.grid \in Seq([name : ContextOnly, k : Nat, window : Nat, smooth : Nat])
      /\ w.grid # <<>>
      /\ w.train \in Nat \ {0} /\ w.test \in Nat \ {0} /\ w.step \in Nat
  BY StudiesAssumption
<1>2. StepSize(w) \in Nat
  BY <1>1 DEF StepSize
<1>3. DOMAIN w.grid = 1 .. Len(w.grid) /\ Len(w.grid) \in Nat /\ Len(w.grid) # 0
  BY <1>1
<1> QED
  BY <1>1, <1>2, <1>3

LEMMA MasterOrdered ==
  ASSUME NEW w \in Studies
  PROVE  /\ Ordered(Master(w)) /\ Cardinality(DOMAIN Master(w)) \in Nat
         /\ DOMAIN Master(w) = 0 .. Cardinality(DOMAIN Master(w)) - 1
BY StudyFields, JobFields, TimelineOrdered DEF Master

\* A segment that fits lies between its first bar and its last.
LEMMA SegmentBars ==
  ASSUME NEW w \in Studies, NEW from \in Nat, NEW size \in Nat \ {0},
         from + size <= Cardinality(DOMAIN Master(w))
  PROVE  /\ Master(w)[from] \in Nat /\ Master(w)[from + size - 1] \in Nat
         /\ \A b \in Segment(w, from, size) :
              b \in Nat /\ Master(w)[from] <= b /\ b <= Master(w)[from + size - 1]
<1> DEFINE ts == Master(w)
           last == from + size - 1
<1>1. Ordered(ts) /\ Cardinality(DOMAIN ts) \in Nat /\ DOMAIN ts = 0 .. Cardinality(DOMAIN ts) - 1
  BY MasterOrdered
<1>2. last \in Nat /\ from <= last /\ from \in DOMAIN ts /\ last \in DOMAIN ts
  BY <1>1
<1>3. Segment(w, from, size) = {ts[i] : i \in from .. last}
  BY DEF Segment
<1> HIDE DEF ts, last
<1>4. ts[from] \in Nat /\ ts[last] \in Nat
  BY <1>1, <1>2, OrderedRow
<1>5. ASSUME NEW i \in from .. last
      PROVE  ts[i] \in Nat /\ ts[from] <= ts[i] /\ ts[i] <= ts[last]
  <2>1. i \in Nat /\ from \in 0 .. i /\ i \in 0 .. last
    BY <1>2
  <2>2. i \in DOMAIN ts /\ ts[i] + (last - i) <= ts[last]
    BY <1>1, <1>2, <2>1, EarlierRow
  <2>3. ts[from] + (i - from) <= ts[i]
    BY <1>1, <2>1, <2>2, EarlierRow
  <2>4. ts[i] \in Nat
    BY <1>1, <2>2, OrderedRow
  <2> QED
    BY <1>2, <1>4, <2>1, <2>2, <2>3, <2>4
<1> QED
  BY <1>3, <1>4, <1>5 DEF ts, last

\* Windows further on lie further on.
LEMMA MasterLater ==
  ASSUME NEW w \in Studies, NEW i \in Nat, NEW h \in Nat, h <= i,
         i < Cardinality(DOMAIN Master(w))
  PROVE  /\ Master(w)[h] \in Nat /\ Master(w)[i] \in Nat
         /\ Master(w)[h] + (i - h) <= Master(w)[i]
<1>1. Ordered(Master(w)) /\ i \in DOMAIN Master(w) /\ h \in 0 .. i
  BY MasterOrdered
<1> QED
  BY <1>1, OrderedRow, EarlierRow

\* The backtest of a segment is one that may be run, as covered as the study
\* is, and sees no bar outside the segment.
LEMMA SegmentIsBacktest ==
  ASSUME NEW w \in Studies, NEW k \in DOMAIN w.grid, NEW S
  PROVE  /\ SegmentJob(w, k, S) \in Backtests
         /\ Covered(SegmentJob(w, k, S))
         /\ PanelBars(SegmentJob(w, k, S).listed, SegmentJob(w, k, S).ragged) \subseteq S
<1> DEFINE j == SegmentJob(w, k, S)
           whole == [w.job EXCEPT !.strategy = w.grid[k]]
           cutListed == [c \in Coins |-> w.job.listed[c] \cap S]
           cutFeed == [c \in Coins |-> w.job.feed[c] \cap S]
           strategies == [name : StrategyNames, k : Nat, window : Nat, smooth : Nat]
<1>1. w.job \in Backtests /\ w.grid[k] \in strategies /\ w.grid[k].name \in ContextOnly
  <2> DEFINE shown == [name : ContextOnly, k : Nat, window : Nat, smooth : Nat]
  <2>1. w.grid \in Seq(shown) /\ k \in 1 .. Len(w.grid) /\ w.job \in Backtests
    BY StudyFields
  <2>2. shown \subseteq strategies
    BY DEF ContextOnly
  <2> HIDE DEF strategies, shown
  <2>3. w.grid[k] \in shown
    BY <2>1
  <2>4. w.grid[k].name \in ContextOnly
    BY <2>3 DEF shown
  <2> QED
    BY <2>1, <2>2, <2>3, <2>4
<1>2. w.job.listed \in [Coins -> SUBSET Bars] /\ w.job.feed \in [Coins -> SUBSET Bars]
  BY <1>1, JobFields
<1>3. cutListed \in [Coins -> SUBSET Bars] /\ cutFeed \in [Coins -> SUBSET Bars]
  BY <1>2
<1>4. j = [w.job EXCEPT !.strategy = w.grid[k], !.listed = cutListed, !.feed = cutFeed]
  BY DEF SegmentJob
<1> HIDE DEF j, cutFeed
<1>5. j \in Backtests
  <2> HIDE DEF cutListed
  <2> QED
    BY <1>1, <1>3, <1>4 DEF Backtests
<1>6. j.strategy = whole.strategy /\ j.day = whole.day /\ j.lag = whole.lag /\ j.listed = cutListed
  BY <1>1, <1>4 DEF Backtests
<1>7. Covered(j)
  BY <1>1, <1>6 DEF ContextOnly, Covered
<1>8. PanelBars(j.listed, j.ragged) \subseteq S
  <2>1. Coins # {}
    BY CoinsAssumption, FS_EmptySet
  <2>2. \A c \in Coins : j.listed[c] \subseteq S
    BY <1>6
  <2> HIDE DEF cutListed
  <2> QED
    BY <2>1, <2>2 DEF PanelBars
<1> QED
  BY <1>5, <1>7, <1>8 DEF j

\* The rows of the backtest of a segment are bars of it, in order.
LEMMA SegmentRows ==
  ASSUME NEW w \in Studies, NEW k \in DOMAIN w.grid,
         NEW from \in Nat, NEW size \in Nat \ {0},
         from + size <= Cardinality(DOMAIN Master(w)),
         NEW q, q = Load(SegmentJob(w, k, Segment(w, from, size)))
  PROVE  /\ Ordered(q.ts) /\ DOMAIN q.ts = 0 .. Rows(q) - 1
         /\ \A i \in DOMAIN q.ts :
              q.ts[i] \in Nat /\ Master(w)[from] <= q.ts[i] /\ q.ts[i] <= Master(w)[from + size - 1]
<1> DEFINE S == Segment(w, from, size)
           j == SegmentJob(w, k, S)
<1>1. j \in Backtests /\ PanelBars(j.listed, j.ragged) \subseteq S
  BY SegmentIsBacktest
<1>2. \A b \in S : b \in Nat /\ Master(w)[from] <= b /\ b <= Master(w)[from + size - 1]
  BY SegmentBars
<1>3. q = Load(j)
  OBVIOUS
<1> HIDE DEF S, j
<1>4. q.ts = Timeline(PanelBars(j.listed, j.ragged))
  BY <1>3 DEF Load
<1>5. \A i \in DOMAIN q.ts : q.ts[i] \in PanelBars(j.listed, j.ragged)
  BY <1>1, <1>4, JobFields, TimelineOrdered
<1>6. Ordered(q.ts) /\ DOMAIN q.ts = 0 .. Rows(q) - 1
  BY <1>1, <1>3, LoadOrdered
<1> QED
  BY <1>1, <1>2, <1>5, <1>6

-----------------------------------------------------------------------------
(* The steps of the study.                                                 *)

LEMMA WalkDriven == WalkInv /\ [WalkNext]_<<vars, walk>> => Driven
<1> SUFFICES ASSUME WalkInv, [WalkNext]_<<vars, walk>> PROVE Driven
  OBVIOUS
<1>1. CASE \E w \in Studies : StartStudy(w)
  BY <1>1 DEF StartStudy, Driven
<1>2. CASE TryParams
  <2>1. study \in Studies /\ trial \in DOMAIN study.grid
    BY <1>2 DEF TryParams, WalkInv, InWindow
  <2>2. SegmentJob(study, trial, TrainBars(study, start)) \in Backtests
    BY <2>1, SegmentIsBacktest
  <2> QED
    BY <1>2, <2>2 DEF TryParams, Driven
<1>3. CASE TestBest
  <2>1. study \in Studies /\ best.params \in DOMAIN study.grid
    BY <1>3 DEF TestBest, WalkInv, InWindow
  <2>2. SegmentJob(study, best.params, TestBars(study, start)) \in Backtests
    BY <2>1, SegmentIsBacktest
  <2> QED
    BY <1>3, <2>2 DEF TestBest, Driven
<1>4. CASE Judge \/ Stitch
  <2>1. phase' = "idle"
    BY <1>4 DEF Judge, Stitch, Discard
  <2> QED
    BY <2>1 DEF Driven, Begun
<1>5. CASE TooShort
  BY <1>5 DEF TooShort, Driven
<1>6. CASE InSegment(Hold) \/ InSegment(Rebalance) \/ InSegment(Finish)
  BY <1>6 DEF InSegment, Driven
<1>7. CASE UNCHANGED <<vars, walk>>
  BY <1>7 DEF Driven
<1> QED
  BY <1>1, <1>2, <1>3, <1>4, <1>5, <1>6, <1>7 DEF WalkNext

LEMMA NothingStitched == Increasing(<<>>) /\ <<>> \in Seq(Nat) /\ Len(<<>>) = 0
BY DEF Increasing

LEMMA WalkStarts == ASSUME WalkInv, NEW w \in Studies, StartStudy(w) PROVE WalkInv'
<1>1. /\ phase' = "idle" /\ study' = w /\ start' = 0 /\ trial' = 1
      /\ best' = FirstParams /\ curve' = <<>>
      /\ stage' = IF Fits(w, 0) THEN "train" ELSE "raised"
  BY DEF StartStudy, WalkInv, vars
<1>2. stage' \in {"train", "raised"} /\ (stage' = "train" => Fits(w, 0))
  BY <1>1
<1>3. Stitched'
  BY <1>1, NothingStitched DEF Stitched
<1>4. 1 \in DOMAIN w.grid /\ FirstParams.params = 1 /\ FirstParams.from = {}
  BY StudyFields DEF FirstParams
<1>5. stage' = "train" => InWindow'
  BY <1>1, <1>2, <1>4 DEF InWindow
<1> QED
  BY <1>1, <1>2, <1>3, <1>5 DEF WalkInv

\* While a segment is run, and once it has been.
LEMMA WalkRuns ==
  ASSUME WalkInv, stage \in {"train", "test"}, UNCHANGED walk,
         phase # "idle" => job' = job,
         phase = "idle" /\ stage = "train" =>
           job' = SegmentJob(study, trial, TrainBars(study, start)),
         phase = "idle" /\ stage = "test" =>
           job' = SegmentJob(study, best.params, TestBars(study, start))
  PROVE  WalkInv'
<1>1. /\ stage' = stage /\ study' = study /\ start' = start /\ trial' = trial
      /\ best' = best /\ curve' = curve
  BY DEF walk
<1>2. InWindow /\ Stitched /\ study \in Studies
  BY DEF WalkInv
<1>3. InWindow'
  BY <1>1, <1>2 DEF InWindow
<1>4. Stitched'
  BY <1>1, <1>2 DEF Stitched
<1> QED
  BY <1>1, <1>2, <1>3, <1>4 DEF WalkInv

\* The run of a segment under way, on the bars from `from` on.
LEMMA UnderWay ==
  ASSUME WalkInv, CausalInv, Begun, stage \in {"train", "test"},
         NEW from, from = (IF stage = "train" THEN start ELSE start + study.train),
         NEW size, size = (IF stage = "train" THEN study.train ELSE study.test)
  PROVE  /\ from \in Nat /\ size \in Nat \ {0} /\ study \in Studies
         /\ from + size <= Cardinality(DOMAIN Master(study))
         /\ Covered(job)
         /\ Ordered(p.ts) /\ DOMAIN p.ts = 0 .. Rows(p) - 1
         /\ 0 \in DOMAIN p.ts /\ t - 1 \in DOMAIN p.ts /\ Rows(p) \in Nat
         /\ \A i \in DOMAIN p.ts :
              /\ p.ts[i] \in Nat /\ Master(study)[from] <= p.ts[i]
              /\ p.ts[i] <= Master(study)[from + size - 1]
<1> DEFINE k == IF stage = "train" THEN trial ELSE best.params
<1>1. /\ study \in Studies /\ start \in Nat /\ Fits(study, start)
      /\ k \in DOMAIN study.grid /\ phase # "idle"
  BY DEF WalkInv, InWindow, Begun
<1>2. study.train \in Nat \ {0} /\ study.test \in Nat \ {0}
  BY <1>1, StudyFields
<1>3. start + study.train + study.test <= Cardinality(DOMAIN Master(study))
  BY <1>1 DEF Fits
<1>4. Cardinality(DOMAIN Master(study)) \in Nat
  BY <1>1, MasterOrdered
<1>5. from \in Nat /\ size \in Nat \ {0} /\ from + size <= Cardinality(DOMAIN Master(study))
  BY <1>1, <1>2, <1>3, <1>4
<1>6. job = SegmentJob(study, k, Segment(study, from, size))
  BY <1>1 DEF WalkInv, InWindow, TrainBars, TestBars
<1>7. p = Load(job) /\ t \in Nat \ {0} /\ t <= Rows(p) /\ Rows(p) \in Nat
  BY DEF CausalInv
<1> HIDE DEF k
<1>8. /\ Ordered(p.ts) /\ DOMAIN p.ts = 0 .. Rows(p) - 1
      /\ \A i \in DOMAIN p.ts :
           /\ p.ts[i] \in Nat /\ Master(study)[from] <= p.ts[i]
           /\ p.ts[i] <= Master(study)[from + size - 1]
  <2> DEFINE q == p
             first == from
  <2>1. q = Load(SegmentJob(study, k, Segment(study, first, size)))
    BY <1>6, <1>7
  <2>2. first \in Nat /\ first + size <= Cardinality(DOMAIN Master(study))
    BY <1>5
  <2> HIDE DEF q, first
  <2>3. /\ Ordered(q.ts) /\ DOMAIN q.ts = 0 .. Rows(q) - 1
        /\ \A i \in DOMAIN q.ts :
             /\ q.ts[i] \in Nat /\ Master(study)[first] <= q.ts[i]
             /\ q.ts[i] <= Master(study)[first + size - 1]
    BY <1>1, <1>5, <2>1, <2>2, SegmentRows
  <2> QED
    BY <2>3 DEF q, first
<1>9. Covered(job)
  BY <1>1, <1>6, SegmentIsBacktest
<1>10. 0 \in DOMAIN p.ts /\ t - 1 \in DOMAIN p.ts
  BY <1>7, <1>8
<1> QED
  BY <1>1, <1>5, <1>7, <1>8, <1>9, <1>10

\* The choice rests on the training bars.
LEMMA WalkJudges == ASSUME WalkInv, CausalInv, Judge PROVE WalkInv'
<1> DEFINE last == LastTrained(study, start)
<1>1. /\ stage = "train" /\ phase = "done" /\ phase' = "idle"
      /\ study' = study /\ start' = start /\ curve' = curve
  BY DEF Judge, Discard
<1>2. PICK better \in BOOLEAN :
        best' = [params |-> IF better THEN trial ELSE best.params, from |-> best.from \cup equity]
  BY DEF Judge
<1>3. /\ trial < Len(study.grid) => trial' = trial + 1 /\ stage' = "train"
      /\ ~(trial < Len(study.grid)) => trial' = 1 /\ stage' = "test"
  BY DEF Judge
<1>4. InWindow /\ Stitched /\ study \in Studies
  BY <1>1 DEF WalkInv
<1>5. stage' \in {"train", "test"} /\ trial' \in DOMAIN study.grid
  <2>1. /\ DOMAIN study.grid = 1 .. Len(study.grid) /\ Len(study.grid) \in Nat
        /\ 1 \in DOMAIN study.grid
    BY <1>4, StudyFields
  <2>2. trial \in 1 .. Len(study.grid)
    BY <1>4, <2>1 DEF InWindow
  <2> QED
    BY <1>3, <2>1, <2>2
<1>6. best'.params \in DOMAIN study.grid
  BY <1>2, <1>4 DEF InWindow
<1>7. best'.from \subseteq 0 .. last + 1
  <2> DEFINE end == start + study.train - 1
  <2>1. Begun /\ stage \in {"train", "test"}
    BY <1>1 DEF Begun
  <2>2. /\ Covered(job) /\ 0 \in DOMAIN p.ts /\ t - 1 \in DOMAIN p.ts
        /\ start \in Nat /\ study.train \in Nat \ {0}
        /\ start + study.train <= Cardinality(DOMAIN Master(study))
        /\ \A i \in DOMAIN p.ts : p.ts[i] \in Nat /\ p.ts[i] <= Master(study)[end]
    BY <1>1, <2>1, UnderWay
  <2>3. Master(study)[end] \in Nat
    BY <1>4, <2>2, SegmentBars
  <2>4. equity \subseteq SpanTo(p.ts, t - 1, 1)
    BY <2>1, <2>2 DEF CausalInv, SeenBy
  <2>5. last = Master(study)[end]
    BY DEF LastTrained
  <2> HIDE DEF last, end
  <2>6. SpanTo(p.ts, t - 1, 1) \subseteq 0 .. last + 1
    BY <2>2, <2>3, <2>5 DEF SpanTo
  <2>7. best.from \subseteq 0 .. last + 1
    BY <1>4 DEF InWindow, last
  <2> QED
    BY <1>2, <2>4, <2>6, <2>7
<1>8. InWindow'
  BY <1>1, <1>4, <1>5, <1>6, <1>7 DEF InWindow
<1>9. Stitched'
  BY <1>1, <1>4, <1>5 DEF Stitched
<1> QED
  BY <1>1, <1>4, <1>5, <1>8, <1>9 DEF WalkInv

\* Increasing bars after increasing ones that end before them.
LEMMA IncreasingConcat ==
  ASSUME NEW old \in Seq(Nat), Increasing(old), NEW new \in Seq(Nat), Increasing(new),
         NEW first \in Nat, \A i \in 1 .. Len(old) : old[i] < first,
         \A i \in 1 .. Len(new) : first <= new[i],
         NEW end \in Nat, \A i \in 1 .. Len(new) : new[i] < end, first <= end
  PROVE  Increasing(old \o new) /\ \A i \in 1 .. Len(old \o new) : (old \o new)[i] < end
<1> DEFINE both == old \o new
<1>1. Len(old) \in Nat /\ Len(new) \in Nat /\ Len(both) = Len(old) + Len(new)
  OBVIOUS
<1>2. /\ \A i \in 1 .. Len(old) : both[i] = old[i] /\ old[i] \in Nat
      /\ \A i \in Len(old) + 1 .. Len(both) :
           i - Len(old) \in 1 .. Len(new) /\ both[i] = new[i - Len(old)]
  BY <1>1
<1>3. \A i \in 1 .. Len(new) : new[i] \in Nat
  OBVIOUS
<1> HIDE DEF both
<1>4. ASSUME NEW i \in 1 .. Len(both), NEW k \in 1 .. Len(both), i < k PROVE both[i] < both[k]
  <2>1. CASE k <= Len(old)
    <3>1. i \in 1 .. Len(old) /\ k \in 1 .. Len(old)
      BY <1>1, <1>4, <2>1
    <3> QED
      BY <1>2, <1>4, <3>1 DEF Increasing
  <2>2. CASE i <= Len(old) /\ k > Len(old)
    <3>1. i \in 1 .. Len(old) /\ k \in Len(old) + 1 .. Len(both)
      BY <1>1, <1>4, <2>2
    <3>2. both[i] \in Nat /\ both[i] < first /\ first <= both[k] /\ both[k] \in Nat
      BY <1>2, <1>3, <3>1
    <3> QED
      BY <3>2
  <2>3. CASE i > Len(old)
    <3>1. i \in Len(old) + 1 .. Len(both) /\ k \in Len(old) + 1 .. Len(both)
      BY <1>1, <1>4, <2>3
    <3>2. /\ i - Len(old) \in 1 .. Len(new) /\ k - Len(old) \in 1 .. Len(new)
          /\ i - Len(old) < k - Len(old)
      BY <1>1, <1>2, <1>4, <3>1
    <3> QED
      BY <1>2, <3>1, <3>2 DEF Increasing
  <2> QED
    BY <1>1, <2>1, <2>2, <2>3
<1>5. ASSUME NEW i \in 1 .. Len(both) PROVE both[i] < end
  <2>1. CASE i <= Len(old)
    <3>1. i \in 1 .. Len(old)
      BY <1>1, <2>1
    <3>2. both[i] \in Nat /\ both[i] < first
      BY <1>2, <3>1
    <3> QED
      BY <3>2
  <2>2. CASE i > Len(old)
    <3>1. i \in Len(old) + 1 .. Len(both)
      BY <1>1, <2>2
    <3> QED
      BY <1>2, <3>1
  <2> QED
    BY <1>1, <2>1, <2>2
<1> QED
  BY <1>4, <1>5 DEF both, Increasing

\* The test bars come after the bars stitched so far, and before the test
\* bars of the next window when the windows do not overlap.
LEMMA WalkStitches == ASSUME WalkInv, CausalInv, Stitch PROVE WalkInv'
<1> DEFINE from == start + study.train
           n == Rows(p) - 1
           next == start + StepSize(study)
<1>1. /\ stage = "test" /\ phase = "done" /\ phase' = "idle"
      /\ curve' = curve \o [i \in 1 .. n |-> p.ts[i]] /\ start' = next
      /\ stage' = (IF Fits(study, next) THEN "train" ELSE "over")
      /\ best' = FirstParams /\ study' = study /\ trial' = trial
  BY DEF Stitch, Discard
<1>2. InWindow /\ Stitched /\ study \in Studies /\ start \in Nat /\ trial \in DOMAIN study.grid
  BY <1>1 DEF WalkInv, InWindow
<1>3. /\ study.train \in Nat \ {0} /\ study.test \in Nat \ {0} /\ StepSize(study) \in Nat
      /\ 1 \in DOMAIN study.grid
  BY <1>2, StudyFields
<1>4. /\ from \in Nat /\ from + study.test <= Cardinality(DOMAIN Master(study))
      /\ Ordered(p.ts) /\ DOMAIN p.ts = 0 .. n /\ 0 \in DOMAIN p.ts /\ n \in Nat
      /\ \A i \in DOMAIN p.ts :
           /\ p.ts[i] \in Nat /\ Master(study)[from] <= p.ts[i]
           /\ p.ts[i] <= Master(study)[from + study.test - 1]
  <2>1. Begun /\ stage \in {"train", "test"}
    BY <1>1 DEF Begun
  <2>2. /\ from \in Nat /\ from + study.test <= Cardinality(DOMAIN Master(study))
        /\ Ordered(p.ts) /\ DOMAIN p.ts = 0 .. n /\ 0 \in DOMAIN p.ts /\ Rows(p) \in Nat
        /\ \A i \in DOMAIN p.ts :
             /\ p.ts[i] \in Nat /\ Master(study)[from] <= p.ts[i]
             /\ p.ts[i] <= Master(study)[from + study.test - 1]
    BY <1>1, <2>1, UnderWay
  <2> QED
    BY <2>2
<1> HIDE DEF n, from
<1>5. /\ \A i \in 1 .. n : i \in DOMAIN p.ts /\ p.ts[i] \in Nat
      /\ \A i, h \in 1 .. n : h < i => p.ts[h] < p.ts[i]
  <2>1. \A i \in 1 .. n : i \in DOMAIN p.ts /\ p.ts[i] \in Nat
    BY <1>4
  <2>2. ASSUME NEW i \in 1 .. n, NEW h \in 1 .. n, h < i PROVE p.ts[h] < p.ts[i]
    <3>1. h \in 0 .. i
      BY <2>2
    <3>2. p.ts[h] + (i - h) <= p.ts[i]
      BY <1>4, <2>1, <3>1, EarlierRow
    <3> QED
      BY <2>1, <2>2, <3>2
  <2> QED
    BY <2>1, <2>2
<1>6. curve' \in Seq(Nat)
  <2>1. [i \in 1 .. n |-> p.ts[i]] \in Seq(Nat)
    BY <1>4, <1>5
  <2> QED
    BY <1>1, <1>2, <2>1 DEF Stitched
<1>7. next \in Nat /\ stage' \in {"train", "over"} /\ (stage' = "train" => Fits(study, next))
  BY <1>1, <1>2, <1>3
<1>8. ASSUME StepSize(study) >= study.test
      PROVE  /\ Increasing(curve')
             /\ stage' = "train" =>
                  \A i \in 1 .. Len(curve') : curve'[i] < FirstTested(study, next)
  <2> DEFINE first == Master(study)[from]
             final == Master(study)[from + study.test - 1]
  <2>1. first \in Nat /\ final \in Nat /\ first <= final
    <3> DEFINE last == from + study.test - 1
    <3>1. Cardinality(DOMAIN Master(study)) \in Nat
      BY <1>2, MasterOrdered
    <3>2. last \in Nat /\ from <= last /\ last < Cardinality(DOMAIN Master(study))
      BY <1>3, <1>4, <3>1
    <3> HIDE DEF last
    <3>3. /\ Master(study)[from] \in Nat /\ Master(study)[last] \in Nat
          /\ Master(study)[from] + (last - from) <= Master(study)[last]
      BY <1>2, <1>4, <3>2, MasterLater
    <3> QED
      BY <1>4, <3>2, <3>3 DEF last
  <2>2. first = FirstTested(study, start)
    BY DEF FirstTested, from
  <2>3. \A i \in 1 .. Len(curve) : curve[i] < first
    BY <1>1, <1>2, <1>8, <2>2 DEF Stitched
  <2>4. \A i \in 1 .. n : first <= p.ts[i] /\ p.ts[i] <= final
    BY <1>4, <1>5
  <2> HIDE DEF first, final
  <2>5. curve \in Seq(Nat) /\ Increasing(curve)
    BY <1>2, <1>8 DEF Stitched
  <2>6. ASSUME NEW end \in Nat, \A i \in 1 .. n : p.ts[i] < end, first <= end
        PROVE  Increasing(curve') /\ \A i \in 1 .. Len(curve') : curve'[i] < end
    <3> DEFINE old == curve
               new == [i \in 1 .. n |-> p.ts[i]]
    <3>1. old \in Seq(Nat) /\ Increasing(old) /\ \A i \in 1 .. Len(old) : old[i] < first
      BY <2>3, <2>5
    <3>2. new \in Seq(Nat) /\ Len(new) = n /\ \A i \in 1 .. n : new[i] = p.ts[i]
      BY <1>4, <1>5
    <3>3. curve' = old \o new
      BY <1>1
    <3> HIDE DEF old, new
    <3>4. /\ Increasing(new) /\ \A i \in 1 .. Len(new) : first <= new[i]
          /\ \A i \in 1 .. Len(new) : new[i] < end
      BY <1>5, <2>4, <2>6, <3>2 DEF Increasing
    <3>5. Increasing(old \o new) /\ \A i \in 1 .. Len(old \o new) : (old \o new)[i] < end
      BY <2>1, <2>6, <3>1, <3>2, <3>4, IncreasingConcat
    <3> QED
      BY <3>3, <3>5
  <2>7. Increasing(curve')
    <3>1. \A i \in 1 .. n : p.ts[i] < final + 1
      BY <1>5, <2>1, <2>4
    <3>2. final + 1 \in Nat /\ first <= final + 1
      BY <2>1
    <3> QED
      BY <2>6, <3>1, <3>2
  <2>8. ASSUME stage' = "train"
        PROVE  \A i \in 1 .. Len(curve') : curve'[i] < FirstTested(study, next)
    <3> DEFINE a == from + study.test - 1
               b == next + study.train
    <3>1. Cardinality(DOMAIN Master(study)) \in Nat
      BY <1>2, MasterOrdered
    <3>2. next + study.train + study.test <= Cardinality(DOMAIN Master(study))
      BY <1>7, <2>8 DEF Fits
    <3>3. a \in Nat /\ b \in Nat /\ a < b /\ b < Cardinality(DOMAIN Master(study))
      <4>1. from = start + study.train /\ next = start + StepSize(study)
        BY DEF from
      <4> HIDE DEF next
      <4> QED
        BY <1>2, <1>3, <1>7, <1>8, <3>1, <3>2, <4>1
    <3> HIDE DEF a, b
    <3>4. /\ Master(study)[a] \in Nat /\ Master(study)[b] \in Nat
          /\ Master(study)[a] + (b - a) <= Master(study)[b]
      BY <1>2, <3>3, MasterLater
    <3>5. final = Master(study)[a] /\ FirstTested(study, next) = Master(study)[b]
      BY DEF final, a, b, FirstTested
    <3>6. final < FirstTested(study, next) /\ FirstTested(study, next) \in Nat
      BY <2>1, <3>3, <3>4, <3>5
    <3>7. /\ \A i \in 1 .. n : p.ts[i] < FirstTested(study, next)
          /\ first <= FirstTested(study, next)
      BY <1>5, <2>1, <2>4, <3>6
    <3> QED
      BY <2>6, <3>6, <3>7
  <2> QED
    BY <2>7, <2>8
<1> HIDE DEF next
<1>9. Stitched'
  BY <1>1, <1>6, <1>7, <1>8 DEF Stitched
<1>10. ASSUME stage' = "train" PROVE InWindow'
  <2>1. FirstParams.params = 1 /\ FirstParams.from = {}
    BY DEF FirstParams
  <2> QED
    BY <1>1, <1>2, <1>3, <1>7, <1>10, <2>1 DEF InWindow
<1> QED
  BY <1>1, <1>2, <1>7, <1>9, <1>10 DEF WalkInv

LEMMA WalkRaises == ASSUME WalkInv, TooShort PROVE WalkInv'
<1>1. /\ stage \in {"train", "test"} /\ stage' = "raised"
      /\ UNCHANGED <<study, start, trial, best, curve>>
  BY DEF TooShort
<1>2. Stitched'
  BY <1>1 DEF WalkInv, Stitched
<1> QED
  BY <1>1, <1>2 DEF WalkInv

LEMMA WalkSteps == WalkInv /\ CausalInv /\ [WalkNext]_<<vars, walk>> => WalkInv'
<1> SUFFICES ASSUME WalkInv, CausalInv, [WalkNext]_<<vars, walk>> PROVE WalkInv'
  OBVIOUS
<1>1. CASE \E w \in Studies : StartStudy(w)
  BY <1>1, WalkStarts
<1>2. CASE TryParams
  BY <1>2, WalkRuns DEF TryParams, Begin
<1>3. CASE TestBest
  BY <1>3, WalkRuns DEF TestBest, Begin
<1>4. CASE Judge
  BY <1>4, WalkJudges
<1>5. CASE Stitch
  BY <1>5, WalkStitches
<1>6. CASE TooShort
  BY <1>6, WalkRaises
<1>7. CASE InSegment(Hold) \/ InSegment(Rebalance) \/ InSegment(Finish)
  <2>1. stage \in {"train", "test"} /\ UNCHANGED walk /\ job' = job /\ phase # "idle"
    BY <1>7 DEF InSegment, Hold, Rebalance, Finish, Row
  <2> QED
    BY <2>1, WalkRuns
<1>8. CASE UNCHANGED <<vars, walk>>
  BY <1>8 DEF vars, walk, WalkInv, InWindow, Stitched
<1> QED
  BY <1>1, <1>2, <1>3, <1>4, <1>5, <1>6, <1>7, <1>8 DEF WalkNext

LEMMA WalkOutOfSample == WalkInv /\ CausalInv => OutOfSample
<1> SUFFICES ASSUME WalkInv, CausalInv PROVE OutOfSample
  OBVIOUS
<1>1. ASSUME stage = "test", Begun
      PROVE  /\ best.from \subseteq 0 .. p.ts[0]
             /\ DependsOn(book) \subseteq {0} \cup p.ts[0] .. Close(t - 1)
  <2> DEFINE from == start + study.train
  <2>1. /\ from \in Nat /\ study \in Studies /\ study.test \in Nat \ {0}
        /\ from + study.test <= Cardinality(DOMAIN Master(study))
        /\ Covered(job) /\ 0 \in DOMAIN p.ts
        /\ p.ts[0] \in Nat /\ Master(study)[from] <= p.ts[0]
    BY <1>1, UnderWay
  <2>2. book \in BooksBy(SpanTo(p.ts, t - 1, 1))
    BY <1>1, <2>1 DEF CausalInv, SeenBy
  <2>3. DependsOn(book) \subseteq SpanTo(p.ts, t - 1, 1)
    BY <2>2, DependsOnKnown
  <2>4. start \in Nat /\ study.train \in Nat \ {0} /\ Cardinality(DOMAIN Master(study)) \in Nat
    BY <1>1, <2>1, StudyFields, MasterOrdered DEF WalkInv, InWindow
  <2>5. from - 1 \in Nat /\ from - 1 <= from /\ from < Cardinality(DOMAIN Master(study))
    BY <2>1, <2>4
  <2>6. /\ Master(study)[from - 1] \in Nat /\ Master(study)[from] \in Nat
        /\ Master(study)[from - 1] + (from - (from - 1)) <= Master(study)[from]
    BY <2>1, <2>5, MasterLater
  <2>7. best.from \subseteq 0 .. Master(study)[from - 1] + 1
    <3>1. InWindow
      BY <1>1 DEF WalkInv
    <3>2. best.from \subseteq 0 .. LastTrained(study, start) + 1
      BY <1>1, <3>1 DEF InWindow
    <3> QED
      <4>1. LastTrained(study, start) = Master(study)[from - 1]
        BY <2>4 DEF LastTrained, from
      <4> QED
        BY <3>2, <4>1
  <2> HIDE DEF from
  <2>8. Master(study)[from - 1] + 1 <= p.ts[0]
    BY <2>1, <2>6
  <2> QED
    BY <2>1, <2>3, <2>6, <2>7, <2>8 DEF SpanTo, Close
<1>2. ASSUME stage # "idle", StepSize(study) >= study.test
      PROVE  \A i, k \in 1 .. Len(curve) : i < k => curve[i] < curve[k]
  BY <1>2 DEF WalkInv, Stitched, Increasing
<1> QED
  BY <1>1, <1>2 DEF OutOfSample

LEMMA WalkInductive == WalkSpec => [](WalkInv /\ CausalInv /\ SameInv /\ PricedInv)
<1> DEFINE Inv == WalkInv /\ CausalInv /\ SameInv /\ PricedInv
<1>1. WalkInit => Inv
  BY NothingStitched DEF WalkInit, Init, WalkInv, CausalInv, SameInv, PricedInv, Begun
<1>2. Inv /\ [WalkNext]_<<vars, walk>> => Inv'
  BY WalkDriven, WalkSteps, CausalDriven, SameDriven, PricedDriven
<1> QED
  BY <1>1, <1>2, PTL DEF WalkSpec

\* Out of sample, for any study of strategies that read only prices, volumes and
\* funding: any panel with its holes, any grid of such strategies, any sizes
\* of the windows and any step.  (walkforward.py:127-149, splits.py:29-31)
THEOREM OutOfSampleAlways == WalkSpec => []OutOfSample
BY WalkInductive, WalkOutOfSample, PTL

\* Inside a study the backtester keeps what it promises by itself: the cut of a
\* panel is a panel.  (walkforward.py:60-72 and 127-149)
THEOREM BacktesterInStudy == WalkSpec => [](NoLookAhead /\ SameResult /\ PricedOrFilledIn)
<1>1. CausalInv => NoLookAhead
  BY CausalLooksBack
<1>2. SameInv => SameResult
  BY DEF SameInv, SameResult
<1>3. PricedInv => PricedOrFilledIn
  BY DEF PricedInv, PricedOrFilledIn, HoldsPriced
<1> QED
  BY <1>1, <1>2, <1>3, WalkInductive, PTL
=============================================================================
