------------------------------ MODULE Strategies ------------------------------
(***************************************************************************)
(* The cross-sectional strategies: a score per coin at row i of a panel,   *)
(* from the rows the point-in-time view holds (strategy/cross_sectional.py *)
(* and deriv_alpha).  A score is the set of times it depends on, and       *)
(* Missing is NaN: no view on the coin.  A strategy s is a record with     *)
(*   name, k       which one, and its lookback                             *)
(*   window        of its trailing statistics                              *)
(*   smooth        bars its raw score is averaged over                     *)
(* and p a panel record with the matrices of Panel.                        *)
(***************************************************************************)
EXTENDS Panel

CONSTANT Liquidity     \* coins from thin to liquid

ASSUME LiquidityAssumption ==
  /\ Liquidity \in [Coins -> 0 .. Cardinality(Coins) - 1]
  /\ \A c, d \in Coins : Liquidity[c] = Liquidity[d] => c = d

Larger(a, b) == IF a >= b THEN a ELSE b
Change(m, i, k) == Over(m, {i - k, i})
Changes(m, k) == [j \in DOMAIN m |-> IF j < k THEN Nan ELSE Change(m, j, k)]
Valid(x) == {c \in Coins : x[c] # Missing}

\* A rank depends on every coin that is ranked.
RankOf(x, least) ==
  [c \in Coins |->
     IF c \in Valid(x) /\ Cardinality(Valid(x)) >= least
     THEN UNION {x[d] : d \in Valid(x)} ELSE Missing]
RankCS(x) == RankOf(x, 2)      \* tiers, crowding, flow, illiquid
RankAny(x) == RankOf(x, 1)     \* factors

\* Per-coin trailing z-score of row i.
Z(m, i, window, minObs) ==
  [c \in Coins |->
     LET seen == {r \in Last(i, window) : m[r][c] # Missing}
     IN  IF m[i][c] # Missing /\ Cardinality(seen) >= Larger(minObs, 2)
         THEN UNION {m[r][c] : r \in seen} ELSE Missing]

TierObs(window) == Larger(5, window \div 3)
FlowObs == 10

-----------------------------------------------------------------------------
(* strategy/cross_sectional.py                                             *)

Reversal(s, p, i) == IF i < s.k THEN Nan ELSE Change(p.close, i, s.k)
Momentum(s, p, i) == IF i < s.k THEN Nan ELSE Change(p.close, i, s.k)
Trend(s, p, i) == IF i < s.k THEN Nan ELSE Change(p.close, i, s.k)

FundingCarry(s, p, i) == Over(p.prevailing, Last(i, s.k))

LowVol(s, p, i) == IF i <= s.k THEN Nan ELSE Over(p.close, (i - s.k) .. i)
MaxReturn(s, p, i) == IF i <= s.k THEN Nan ELSE Over(p.close, (i - s.k) .. i)
Value(s, p, i) == IF i < s.k THEN Nan ELSE Over(p.close, Last(i, s.k))

\* Broken: averages over the bars there are, as nanmean would.
SizeNanmean(s, p, i) ==
  IF i + 1 < s.k THEN Nan
  ELSE Both(OverSkip(p.close, Last(i, s.k)), OverSkip(p.volume, Last(i, s.k)))

Size(s, p, i) ==
  IF i + 1 < s.k THEN Nan
  ELSE Both(Over(p.close, Last(i, s.k)), Over(p.volume, Last(i, s.k)))

\* The market return of a bar is a plain mean: one unlisted coin and it is NaN.
ResidualMomentum(s, p, i) ==
  IF i <= s.k THEN Nan
  ELSE LET market == Strict({p.close[r][d] : r \in (i - s.k) .. i, d \in Coins})
       IN  [c \in Coins |-> market]

Illiquidity(s, p, i) ==
  IF i <= s.k THEN Nan
  ELSE Both(Over(p.close, (i - s.k) .. i), Over(p.volume, Last(i, s.k)))

TVLMomentum(s, p, i) == IF i < s.k THEN Nan ELSE Change(p.tvl, i, s.k)
TVLDivergence(s, p, i) ==
  IF i < s.k THEN Nan ELSE Both(Change(p.tvl, i, s.k), Change(p.close, i, s.k))

\* The mean of the trend signs of the horizons that have enough bars.
TrendEnsemble(s, p, i) ==
  LET ready == {k \in {s.k, 2 * s.k} : i >= k}
  IN  IF ready = {} THEN Nan ELSE Over(p.close, {i} \cup {i - k : k \in ready})

-----------------------------------------------------------------------------
(* deriv_alpha/tiers.py                                                    *)

TierDivergence(s, p, i) == RankCS(Z(p.metric, i, s.window, TierObs(s.window)))
CrowdExtremity(s, p, i) == RankCS(Z(p.metric, i, s.window, TierObs(s.window)))
TakerImbalance(s, p, i) == RankCS(Z(p.metric, i, s.window, TierObs(s.window)))

TierDivergenceDelta(s, p, i) ==
  IF i < s.k THEN Nan
  ELSE LET z == Z(Changes(p.metric, s.k), i, s.window, TierObs(s.window))
       IN  RankCS(Both(Change(p.metric, i, s.k), z))

SmartMoneyFlow(s, p, i) ==
  IF i < s.k THEN Nan
  ELSE RankCS(Z(Changes(p.metric, s.k), i, s.window, TierObs(s.window)))

\* A coin without an open-interest z-score keeps its divergence unamplified.
OIWeighted(s, p, i) ==
  LET d == Z(p.metric, i, s.window, TierObs(s.window))
      o == Z(p.oi, i, s.window, TierObs(s.window))
  IN  RankCS([c \in Coins |-> IF d[c] = Missing THEN Missing ELSE d[c] \cup o[c]])

-----------------------------------------------------------------------------
(* deriv_alpha/factors.py                                                  *)

OIPriceDivergence(s, p, i) ==
  IF i < s.k THEN Nan
  ELSE Both(RankAny(Change(p.oi, i, s.k)), RankAny(Change(p.close, i, s.k)))

CrowdingPressure(s, p, i) ==
  IF i < s.k THEN Nan
  ELSE Both(RankAny(Over(p.prevailing, Last(i, s.k))), RankAny(Change(p.oi, i, s.k)))

\* No open interest or no price is taken for no drop: the score is zero.
LiquidationBounce(s, p, i) ==
  IF i < s.k THEN Nan
  ELSE LET drop == Both(Change(p.oi, i, s.k), Change(p.close, i, s.k))
       IN  [c \in Coins |-> IF drop[c] = Missing THEN Zero ELSE drop[c]]

FundingMomentum(s, p, i) ==
  IF i < s.k THEN Nan
  ELSE Both(Over(p.prevailing, Last(i, s.k)), Over(p.prevailing, Last(i - s.k, s.k)))

OIAcceleration(s, p, i) ==
  IF i < 2 * s.k THEN Nan ELSE Over(p.oi, {i - 2 * s.k, i - s.k, i})

-----------------------------------------------------------------------------
(* deriv_alpha/crowding.py, flow.py, illiquid.py                           *)

\* The raw score averaged, over the bars that have one.
Smoothed(raw, i, smooth) ==
  [c \in Coins |-> Skip({raw[j][c] : j \in Last(i, smooth)})]

CrowdingAcceleration(s, p, i) ==
  RankCS(Smoothed([j \in 0 .. i |-> OIAcceleration(s, p, j)], i, s.smooth))

\* The magnitudes, return and open-interest change, each against its history.
Flow(s, p, i) ==
  LET ret == Changes(p.close, s.k)
      doi == Changes(p.metric, s.k)
  IN  [change |-> doi[i],
       ret |-> Both(ret[i], Z(ret, i, s.window, FlowObs)),
       doi |-> Both(doi[i], Z(doi, i, s.window, FlowObs))]

FlowConfirmation(s, p, i) ==
  RankCS(Smoothed([j \in 0 .. i |-> Both(Flow(s, p, j).ret, Flow(s, p, j).doi)], i, s.smooth))

\* Which coins' open interest falls turns with the row.
Closing(f, i) == {c \in Coins : f.change[c] # Missing /\ (Liquidity[c] + i) % 2 = 0}

\* A coin whose open interest did not fall, or has none, scores zero; one whose
\* open interest fell and has no history to judge the fall by has no score.
Forced(f, i) ==
  [c \in Coins |->
     IF f.ret[c] = Missing \/ (c \in Closing(f, i) /\ f.doi[c] = Missing) THEN Missing
     ELSE f.ret[c] \cup f.change[c] \cup IF c \in Closing(f, i) THEN f.doi[c] ELSE {}]

ForcedFlowReversal(s, p, i) ==
  RankCS(Smoothed([j \in 0 .. i |-> Forced(Flow(s, p, j), j)], i, s.smooth))

PositionChurn(s, p, i) == RankCS(Z(p.metric, i, s.window, FlowObs))

\* The thinner half of the coins with a dollar volume.
Eligible(p, i) ==
  LET known == Valid(p.adv[i])
  IN  {c \in known :
         2 * Cardinality({d \in known : Liquidity[d] < Liquidity[c]}) <= Cardinality(known) - 1}

SkipBars == 1

IlliquidReversal(s, p, i) ==
  LET end == i - SkipBars
  IN  IF end < s.k THEN Nan
      ELSE RankCS([c \in Coins |->
             LET past == Change(p.close, end, s.k)[c]
             IN  IF c \in Eligible(p, i) /\ past # Missing
                 THEN past \cup UNION {p.adv[i][d] : d \in Coins} ELSE Missing])

-----------------------------------------------------------------------------
(* deriv_alpha/regime.py, composer.py                                      *)

\* What the regime is judged from: nothing while the window is not full.
Regime(s, p, i) ==
  IF i + 1 < s.window THEN {} ELSE UNION {p.prevailing[r][c] : r \in Last(i, s.window), c \in Coins}

\* The five factors, ranked, those without a view left out, weighted by regime.
Composer(s, p, i) ==
  LET views == {RankAny(f) : f \in {OIPriceDivergence(s, p, i), CrowdingPressure(s, p, i),
                                    LiquidationBounce(s, p, i), FundingMomentum(s, p, i),
                                    OIAcceleration(s, p, i)}}
      mean == [c \in Coins |-> Skip({v[c] : v \in views})]
  IN  [c \in Coins |-> IF mean[c] = Missing THEN Missing ELSE mean[c] \cup Regime(s, p, i)]

-----------------------------------------------------------------------------
StrategyNames ==
  {"reversal", "momentum", "trend", "ensemble", "carry", "lowvol", "maxreturn", "value",
   "size", "residual", "illiquidity", "tvlmomentum", "tvldivergence", "tier", "crowd",
   "taker", "tierdelta", "smartmoney", "oiweighted", "oidivergence", "crowding", "bounce",
   "fundingmomentum", "oiacceleration", "crowdacceleration", "flow", "forcedflow", "churn",
   "illiquidreversal", "composer"}

Scores(s, p, i) ==
  CASE s.name = "reversal" -> Reversal(s, p, i)
    [] s.name = "momentum" -> Momentum(s, p, i)
    [] s.name = "trend" -> Trend(s, p, i)
    [] s.name = "ensemble" -> TrendEnsemble(s, p, i)
    [] s.name = "carry" -> FundingCarry(s, p, i)
    [] s.name = "lowvol" -> LowVol(s, p, i)
    [] s.name = "maxreturn" -> MaxReturn(s, p, i)
    [] s.name = "value" -> Value(s, p, i)
    [] s.name = "size" -> Size(s, p, i)
    [] s.name = "residual" -> ResidualMomentum(s, p, i)
    [] s.name = "illiquidity" -> Illiquidity(s, p, i)
    [] s.name = "tvlmomentum" -> TVLMomentum(s, p, i)
    [] s.name = "tvldivergence" -> TVLDivergence(s, p, i)
    [] s.name = "tier" -> TierDivergence(s, p, i)
    [] s.name = "crowd" -> CrowdExtremity(s, p, i)
    [] s.name = "taker" -> TakerImbalance(s, p, i)
    [] s.name = "tierdelta" -> TierDivergenceDelta(s, p, i)
    [] s.name = "smartmoney" -> SmartMoneyFlow(s, p, i)
    [] s.name = "oiweighted" -> OIWeighted(s, p, i)
    [] s.name = "oidivergence" -> OIPriceDivergence(s, p, i)
    [] s.name = "crowding" -> CrowdingPressure(s, p, i)
    [] s.name = "bounce" -> LiquidationBounce(s, p, i)
    [] s.name = "fundingmomentum" -> FundingMomentum(s, p, i)
    [] s.name = "oiacceleration" -> OIAcceleration(s, p, i)
    [] s.name = "crowdacceleration" -> CrowdingAcceleration(s, p, i)
    [] s.name = "flow" -> FlowConfirmation(s, p, i)
    [] s.name = "forcedflow" -> ForcedFlowReversal(s, p, i)
    [] s.name = "churn" -> PositionChurn(s, p, i)
    [] s.name = "illiquidreversal" -> IlliquidReversal(s, p, i)
    [] s.name = "composer" -> Composer(s, p, i)
=============================================================================
