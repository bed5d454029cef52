----------------------------- MODULE CrossSection -----------------------------
(***************************************************************************)
(* The cross-sectional backtester (backtest/cross_sectional.py,            *)
(* construct.py, sim.py and rust/src/lib.rs): one row after the other,     *)
(* the book earns the row's return, drifts, and on every rebalance row is  *)
(* traded into the target the strategy's scores give.  Where the native    *)
(* loop may be used, it runs here beside the Python loop.                  *)
(*                                                                         *)
(* A weight is its sign and the times it depends on; how large it is, and  *)
(* the return it earns, are left out.                                      *)
(***************************************************************************)
EXTENDS Strategies

CONSTANT Jobs          \* the backtests that may be run

\* The arguments of a backtest: strategy, overlays, and the histories given.
Backtests ==
  [strategy : [name : StrategyNames, k : Nat, window : Nat, smooth : Nat],
   every : Nat \ {0}, turn : Nat, topk : Nat, neutral : BOOLEAN, floor : Nat,
   vol : BOOLEAN, capacity : BOOLEAN, derisk : BOOLEAN, maker : BOOLEAN, ragged : BOOLEAN,
   listed : [Coins -> SUBSET Bars], feed : [Coins -> SUBSET Bars],
   day : Nat \ {0}, lag : Nat]

ASSUME JobsAssumption == Jobs \subseteq Backtests

VARIABLES
    phase,      \* idle, running, done or raised
    job,        \* the arguments of the backtester
    p,          \* the matrices its constructor built
    t,          \* the next row of the loop
    book,       \* w_active
    earning,    \* the weights that earned the last row's return
    equity,     \* what the equity depends on
    trades,     \* the rows of the trade log
    native      \* the same loop in simulate: book, equity, trades and ptr

vars == <<phase, job, p, t, book, earning, equity, trades, native>>

Out == [side |-> 0, from |-> {}]
Flat == [c \in Coins |-> Out]
Held(w) == {c \in Coins : w[c].side # 0}
DependsOn(w) == UNION {w[c].from : c \in Coins}
Fresh == [book |-> Flat, equity |-> {}, trades |-> {}, ptr |-> 0]

NoJob == [strategy |-> [name |-> "none"]]
NoPanel == [ts |-> <<>>]

Rows(q) == Cardinality(DOMAIN q.ts)

\* CrossSectionalBacktester.__init__
AdvWindow == 2
Load(j) ==
  LET ts == Timeline(PanelBars(j.listed, j.ragged))
      close == Closes(ts, j.listed)
      volume == Volumes(ts, j.listed)
  IN  [ts |-> ts, close |-> close, volume |-> volume,
       event |-> FundingEvent(ts, j.feed),
       prevailing |-> FundingPrevailing(ts, j.feed),
       tvl |-> ShiftRows(AlignTvl(ts, j.feed, j.day), j.lag),
       oi |-> AlignOI(ts, j.feed, j.day),
       metric |-> AlignMetrics(ts, j.feed, j.day, j.lag),
       adv |-> TrailingAdv(close, volume, AdvWindow)]

Tradable(q, i, c) == q.close[i][c] # Missing

\* Row i's returns; one that touches a missing close is set to zero.
Return(q, i, c) ==
  IF i = 0 \/ Change(q.close, i, 1)[c] = Missing THEN Zero ELSE Change(q.close, i, 1)[c]

-----------------------------------------------------------------------------
(* The target of row i: scores, weights, and the overlays in order.        *)

\* The coins of V below c in the order of row i's scores; they turn with i.
Below(j, i, V, c) ==
  LET Score(d) == (Liquidity[d] + j.turn * i) % Cardinality(Coins)
  IN  Cardinality({d \in V : Score(d) < Score(c)})

\* top_k a side, or demeaned, or directional; topk = 0 stands for None.
SideOf(j, i, V, c) ==
  LET r == Below(j, i, V, c)
      n == Cardinality(V)
  IN  IF j.neutral /\ j.topk > 0 /\ 2 * j.topk <= n
      THEN IF r >= n - j.topk THEN 1 ELSE IF r < j.topk THEN -1 ELSE 0
      ELSE IF j.neutral THEN IF 2 * r < n - 1 THEN -1 ELSE 1
      ELSE IF r = 0 THEN -1 ELSE 1

ScoresToWeights(j, i, x) ==
  LET V == Valid(x)
  IN  [c \in Coins |->
        IF Cardinality(V) < 2 \/ c \notin V \/ SideOf(j, i, V, c) = 0 THEN Out
        ELSE [side |-> SideOf(j, i, V, c), from |-> UNION {x[d] : d \in V}]]

Needs(w, c, S) == [w[c] EXCEPT !.from = @ \cup S]

VolumeLookback == 5
DollarVolume(q, i) ==
  LET R == Last(i, VolumeLookback)
  IN  [c \in Coins |-> Skip({Strict({q.close[r][c], q.volume[r][c]}) : r \in R})]

\* No short in a coin below the volume floor, or without a volume.
Shortable(j, q, i, w) ==
  LET dv == DollarVolume(q, i)
  IN  IF j.floor = 0 THEN w
      ELSE [c \in Coins |->
        IF w[c].side >= 0 THEN w[c]
        ELSE IF dv[c] = Missing \/ Liquidity[c] < j.floor THEN Out
        ELSE Needs(w, c, dv[c])]

VolLookback == 5
MinVolRows == 5
VolScaled(j, q, i, w) ==
  LET R == Larger(1, i - VolLookback + 1) .. i
  IN  IF ~j.vol \/ Cardinality(R) < MinVolRows THEN w
      ELSE [c \in Coins |->
             IF w[c].side = 0 THEN Out
             ELSE Needs(w, c, UNION {Return(q, r, d) : r \in R, d \in Coins})]

\* No more of a coin than a share of its volume; nothing without a volume.
Capped(j, q, i, w) ==
  LET dv == DollarVolume(q, i)
  IN  IF ~j.capacity THEN w
      ELSE [c \in Coins |->
        IF w[c].side = 0 \/ dv[c] = Missing THEN Out ELSE Needs(w, c, dv[c])]

TargetWeights(j, q, i) ==
  Capped(j, q, i, VolScaled(j, q, i, Shortable(j, q, i,
    ScoresToWeights(j, i, Scores(j.strategy, q, i)))))

-----------------------------------------------------------------------------
(* One row of the loop.                                                    *)

Rebalances(j, i) == i % j.every = 0

\* What the price, funding and borrowing of row i make the equity depend on.
Earn(q, i, w) ==
  UNION {w[c].from \cup Return(q, i, c) \cup q.event[i][c] : c \in Held(w)}

\* Broken: a coin without a price drifts on.
DriftUntradable(q, i, w) ==
  [c \in Coins |->
     IF w[c].side = 0 THEN Out
     ELSE Needs(w, c, UNION {Return(q, i, d) : d \in Held(w)})]

\* Weights drift with the returns, and a coin without a price is dropped.
Drift(q, i, w) ==
  [c \in Coins |->
     IF w[c].side = 0 \/ ~Tradable(q, i, c) THEN Out
     ELSE Needs(w, c, UNION {Return(q, i, d) : d \in Held(w)})]

\* The drawdown scale is read off the running equity, and never zero.
Derisked(j, w, eq) ==
  IF ~j.derisk THEN w ELSE [c \in Coins |-> IF w[c].side = 0 THEN Out ELSE Needs(w, c, eq)]

\* A maker gets part of the way from the drifted book to the target; a position
\* turned round part of the way counts as turned.
PartFilled(j, drifted, w) ==
  IF ~j.maker THEN w
  ELSE [c \in Coins |->
          [side |-> IF w[c].side # 0 THEN w[c].side ELSE drifted[c].side,
           from |-> w[c].from \cup drifted[c].from]]

\* turnover > 0
Traded(old, new) == Held(old) \cup Held(new) # {}

\* The fast path: neither the drawdown breaker nor partial fills.
Eligible4Native(j) == ~j.derisk /\ ~j.maker

\* Broken: row 0, which the loops skip, is planned too.
RebalanceRowsFrom0(j, q) == {i \in 0 .. Rows(q) - 1 : Rebalances(j, i)}

RebalanceRows(j, q) == {i \in 1 .. Rows(q) - 1 : Rebalances(j, i)}

\* The planned row at ptr, or none.
Planned(j, q, ptr) ==
  {i \in RebalanceRows(j, q) : Cardinality({h \in RebalanceRows(j, q) : h < i}) = ptr}

\* A row of simulate on which the drifted book is traded into the target.
Rebalanced(earned, drifted, target) ==
  [book |-> target, ptr |-> native.ptr + 1,
   equity |-> earned \cup DependsOn(drifted) \cup DependsOn(target),
   trades |-> IF Traded(drifted, target) THEN native.trades \cup {t} ELSE native.trades]

\* One row in simulate: the schedule was computed before the loop.
Simulate ==
  LET earned == native.equity \cup Earn(p, t, native.book)
      drifted == Drift(p, t, native.book)
  IN  IF t \in Planned(job, p, native.ptr)
      THEN Rebalanced(earned, drifted, TargetWeights(job, p, t))
      ELSE [native EXCEPT !.book = drifted, !.equity = earned]

Begin(j) ==
  /\ phase = "idle"
  /\ job' = j
  /\ p' = Load(j)
  /\ phase' = IF Rows(p') < 3 THEN "raised" ELSE "running"
  /\ t' = 1
  /\ book' = Flat /\ earning' = Flat
  /\ equity' = {} /\ trades' = {}
  /\ native' = Fresh

Row ==
  /\ phase = "running" /\ t < Rows(p)
  /\ t' = t + 1
  /\ earning' = book
  /\ native' = IF Eligible4Native(job) THEN Simulate ELSE native
  /\ UNCHANGED <<phase, job, p>>

Hold ==
  /\ Row
  /\ ~Rebalances(job, t)
  /\ equity' = equity \cup Earn(p, t, book)
  /\ book' = Drift(p, t, book)
  /\ UNCHANGED trades

Rebalance ==
  /\ Row
  /\ Rebalances(job, t)
  /\ LET earned == equity \cup Earn(p, t, book)
         drifted == Drift(p, t, book)
     IN  /\ book' = PartFilled(job, drifted, Derisked(job, TargetWeights(job, p, t), earned))
         /\ equity' = earned \cup DependsOn(drifted) \cup DependsOn(book')
         /\ trades' = IF Traded(drifted, book') THEN trades \cup {t} ELSE trades

Finish ==
  /\ phase = "running" /\ t = Rows(p)
  /\ phase' = "done"
  /\ UNCHANGED <<job, p, t, book, earning, equity, trades, native>>

Init ==
  /\ phase = "idle" /\ job = NoJob /\ p = NoPanel /\ t = 0
  /\ book = Flat /\ earning = Flat /\ equity = {} /\ trades = {}
  /\ native = Fresh

Next == Hold \/ Rebalance \/ Finish \/ \E j \in Jobs : Begin(j)

Spec == Init /\ [][Next]_vars

-----------------------------------------------------------------------------
(* Properties.                                                             *)

Begun == phase \in {"running", "done"}

\* The close of the last row the loop has been through.
Close(i) == p.ts[i] + 1
KnownBy(w, time) == \A c \in Coins : w[c].from \subseteq 0 .. time

\* The data the strategy reads is stamped no later than the lag makes up for.
Reads(name) ==
  CASE name \in {"tvlmomentum", "tvldivergence"} -> "tvl"
    [] name \in {"oiweighted", "oidivergence", "crowding", "bounce", "oiacceleration",
                 "crowdacceleration", "composer"} -> "oi"
    [] name \in {"tier", "crowd", "taker", "tierdelta", "smartmoney", "flow",
                 "forcedflow", "churn"} -> "metric"
    [] OTHER -> "market"

Covered(j) ==
  CASE Reads(j.strategy.name) = "tvl" -> j.lag >= j.day
    [] Reads(j.strategy.name) = "oi" -> j.day = 1
    [] Reads(j.strategy.name) = "metric" -> j.lag >= j.day - 1
    [] OTHER -> TRUE

\* No look-ahead: the book held after a row depends on nothing later than its
\* close, the row's return was earned with weights fixed at the previous
\* close, and the equity depends on nothing unseen.
\* (cross_sectional.py:5-6; the daily side data need the lag: 83-86.)
NoLookAhead ==
  Begun /\ Covered(job) =>
    /\ KnownBy(book, Close(t - 1))
    /\ t >= 2 => KnownBy(earning, Close(t - 2))
    /\ equity \subseteq 0 .. Close(t - 1)

\* The native loop and the Python loop agree, row by row, wherever the build
\* decides which one runs.  (cross_sectional.py:143-149, lib.rs:3-4)
SameResult ==
  Begun /\ Eligible4Native(job) =>
    native.book = book /\ native.equity = equity /\ native.trades = trades

\* Strategies that hold a view on a coin without a price: their data are
\* filled forward, or filled with zero, or end one bar before the price, or
\* they average over bars of which an earlier one had a price.
FilledIn(s) ==
  \/ s.smooth > 1
  \/ s.name \in {"carry", "fundingmomentum", "tvlmomentum", "oiacceleration", "crowding",
                "crowdacceleration", "bounce", "composer", "tier", "crowd", "taker",
                "tierdelta", "smartmoney", "oiweighted", "churn", "illiquidreversal"}

\* Of all the strategies only those hold a coin at a row where it has no
\* price; under the others a coin that stops trading is out of the book by
\* the row it stops, and one not listed yet was never in.
\* (cross_sectional.py:131-138 and 149-165)
PricedOrFilledIn ==
  Begun /\ ~FilledIn(job.strategy) =>
    \A c \in Held(book) : Tradable(p, t - 1, c)

\* A coin that is delisted while it is held is out of the book at once.
\* (cross_sectional.py:131-134)
DelistedIsExited ==
  Begun => \A c \in Held(book) : \E b \in job.listed[c] : b >= p.ts[t - 1]
=============================================================================
