-------------------------------- MODULE Panel --------------------------------
(***************************************************************************)
(* Panels: many coins on one timeline, the matrices a backtest reads, and  *)
(* the side data (funding, TVL, open interest, exchange metrics) aligned   *)
(* to the timeline's rows (data/panel.py, data/onchain.py, deriv_alpha).   *)
(*                                                                         *)
(* No price is modelled.  A value is the set of the times at which the     *)
(* observations it was computed from became known: {} is NaN or null and   *)
(* {0} a constant the code fills in.  Bar b opens at time b and closes at  *)
(* time b + 1.  A day is a number of bars, so that a daily record can be   *)
(* stamped long before it is known.                                        *)
(***************************************************************************)
EXTENDS Integers, FiniteSets

CONSTANTS Coins,       \* the symbols of the panel
          NBars        \* the bars of history

ASSUME CoinsAssumption == IsFiniteSet(Coins) /\ Cardinality(Coins) >= 2
ASSUME BarsAssumption == NBars \in Nat \ {0}

Bars == 1 .. NBars

Missing == {}
Zero == {0}

\* NumPy arithmetic: one NaN operand makes the result NaN.
Strict(S) == IF Missing \in S THEN Missing ELSE UNION S

\* The nan-functions (nanmean, nanmedian, ...): NaN only when every operand is.
Skip(S) == UNION S

Vectors == [Coins -> SUBSET (0 .. 2 * NBars + 2)]
Nan == [c \in Coins |-> Missing]

\* Over the rows R of matrix m, per coin.
Over(m, R) == [c \in Coins |-> Strict({m[r][c] : r \in R})]
OverSkip(m, R) == [c \in Coins |-> Skip({m[r][c] : r \in R})]
Both(x, y) == [c \in Coins |-> Strict({x[c], y[c]})]

\* The last n rows up to row i: x[-n:] of a matrix truncated at i.
Last(i, n) == {r \in 0 .. i : r > i - n}

-----------------------------------------------------------------------------
\* The timeline: the distinct bars of S in order, row 0 first.
Timeline(S) ==
  [i \in 0 .. Cardinality(S) - 1 |->
     CHOOSE b \in S : Cardinality({x \in S : x < b}) = i]

\* The bars of a pivoted panel: all of them, or those every coin has.
PanelBars(listed, ragged) ==
  IF ragged THEN UNION {listed[c] : c \in Coins}
            ELSE {b \in Bars : \A c \in Coins : b \in listed[c]}

\* The vectors of all bars, those of the rows of ts.
Matrix(ts, vector) == [i \in DOMAIN ts |-> vector[ts[i]]]

\* The last value at most k rows old, carried forward over nulls.
FfillLimit(m, k) ==
  [i \in DOMAIN m |-> [c \in Coins |->
     LET seen == {j \in 0 .. i : i - j <= k /\ m[j][c] # Missing}
         last == {j \in seen : \A x \in seen : x <= j}
     IN  UNION {m[j][c] : j \in last}]]

Ffill(m) == FfillLimit(m, Cardinality(DOMAIN m))

FillZero(m) ==
  [i \in DOMAIN m |-> [c \in Coins |->
     IF m[i][c] = Missing THEN Zero ELSE m[i][c]]]

\* Broken: the lag is ignored.
ShiftRowsNot(m, k) == m

\* Every series moved k rows later, NaN in front.
ShiftRows(m, k) ==
  [i \in DOMAIN m |-> IF i < k THEN Nan ELSE m[i - k]]

-----------------------------------------------------------------------------
\* Closes, and volumes with nulls as zero.
Closes(ts, listed) ==
  Matrix(ts, [b \in Bars |-> [c \in Coins |-> IF b \in listed[c] THEN {b + 1} ELSE Missing]])

Volumes(ts, listed) == FillZero(Closes(ts, listed))

\* A funding payment is joined on the exact bar it is paid.
FundingEvent(ts, feed) ==
  FillZero(Matrix(ts, [b \in Bars |-> [c \in Coins |-> IF b \in feed[c] THEN {b} ELSE Missing]]))

FundingPrevailing(ts, feed) ==
  FillZero(Ffill(Matrix(ts, [b \in Bars |-> [c \in Coins |-> IF b \in feed[c] THEN {b} ELSE Missing]])))

\* A daily record, stamped with the day's first bar, known `late` after its end.
Daily(ts, feed, day, late) ==
  Matrix(ts, [b \in Bars |-> [c \in Coins |->
           IF b \in feed[c] /\ (b - 1) % day = 0 THEN {b + day + late} ELSE Missing]])

\* On-chain metrics of a day are not reliably known until after the day.
AlignTvl(ts, feed, day) == Ffill(Daily(ts, feed, day, 1))

\* The last open interest of the day, under the day's own date.
AlignOI(ts, feed, day) == Ffill(Daily(ts, feed, day, 0))

FfillLimitMetrics == 3

AlignMetrics(ts, feed, day, lag) ==
  ShiftRows(FfillLimit(Daily(ts, feed, day, 0), FfillLimitMetrics), lag)

\* Trailing dollar volume, row t from rows t - window .. t - 1 only.
TrailingAdv(close, volume, window) ==
  [t \in DOMAIN close |->
     IF t < window THEN Nan
     ELSE [c \in Coins |->
             Skip({Strict({close[r][c], volume[r][c]}) : r \in (t - window) .. (t - 1)})]]
=============================================================================
