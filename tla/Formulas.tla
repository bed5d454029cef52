------------------------------- MODULE Formulas -------------------------------
(***************************************************************************)
(* The formulaic alphas (factors/operators.py, alpha.py, purity.py,        *)
(* bench.py, zoo.py) and the studies that judge a factor (research/ic.py). *)
(* The value of a formula at a row is the set of rows it is computed from, *)
(* {} for NaN.  The formulas that people may write are drafted one call at *)
(* a time, constructs from outside the vocabulary included; those of the   *)
(* zoo are written out.                                                    *)
(*                                                                         *)
(* One coin is followed.  The cross-sectional operators read the row they  *)
(* write, for every coin, and keep NaN where it is, so that they are       *)
(* arithmetic here.  Divisions by zero and constant windows are left out.  *)
(***************************************************************************)
EXTENDS Integers, FiniteSets, Sequences

CONSTANTS
    LastRow,        \* the last row of the panel drafts are judged on
    MaxCalls,       \* how many calls a draft is made of
    Lags,           \* the windows and lags of drafts
    Forward,        \* bars of the forward return
    BenchBars,      \* 30 in bench.py: fewer bars are no verdict
    ReportBars      \* 10 in ic.py

ASSUME FormulaAssumption ==
  /\ LastRow \in Nat /\ MaxCalls \in Nat /\ Lags \subseteq Int
  /\ Forward \in Nat \ {0} /\ BenchBars \in Nat /\ ReportBars \in Nat

VARIABLES
    draft,      \* the body being written
    gate,       \* open, registered or refused
    judged      \* the rows a study judged it on, by which study, and the verdict

formulas == <<draft, gate, judged>>

NaN == {}
Filled == {-1}      \* a number that comes from no row

-----------------------------------------------------------------------------
(* A panel q is a record of                                                *)
(*   first, last   its rows                                                *)
(*   listed        the first row with a bar of the coin                    *)
(*   branch        which way the comparisons go                            *)
(* and a column a function from its rows.                                  *)

History(first, last, branch) == [first |-> first, last |-> last, listed |-> first, branch |-> branch]

PanelRows(q) == q.first .. q.last

\* The panel visible at row i ends there.
Visible(q, i) == [q EXCEPT !.last = i]

Input(q) == [i \in PanelRows(q) |-> IF i >= q.listed THEN {i} ELSE NaN]
Number(q) == [i \in PanelRows(q) |-> Filled]

-----------------------------------------------------------------------------
(* The vocabulary: from columns to a column.                               *)

All(S) == IF NaN \in S THEN NaN ELSE UNION S

Arith(xs) == [i \in DOMAIN xs[1] |-> All({xs[k][i] : k \in DOMAIN xs})]

\* A comparison with NaN is false.
Where(c, x, y, branch) ==
  [i \in DOMAIN c |->
     LET chosen == IF c[i] # NaN /\ branch THEN x[i] ELSE y[i]
     IN  IF chosen = NaN THEN NaN ELSE c[i] \cup chosen]

\* A reduction of the n rows up to i.
Reduced(kind, x, i, n) ==
  LET rows == (i - n + 1) .. i
      seen == {r \in rows : x[r] # NaN}
      union == UNION {x[r] : r \in rows}
  IN  CASE kind = "skip" -> union
        [] kind = "sum" -> IF union = NaN THEN Filled ELSE union
        [] kind = "std" -> IF Cardinality(seen) >= 2 THEN union ELSE NaN
        [] kind = "rank" -> IF x[i] # NaN THEN union ELSE NaN
        [] kind = "strict" -> IF seen = rows THEN union ELSE NaN

Rolling(kind, x, n) ==
  [i \in DOMAIN x |-> IF i - n + 1 \in DOMAIN x THEN Reduced(kind, x, i, n) ELSE NaN]

Rank(x) == Arith(<<x>>)
Zscore(x) == Arith(<<x>>)
ScaleRow(x) == Arith(<<x>>)
SignedPower(x) == Arith(<<x>>)
SafeDiv(x, y) == Arith(<<x, y>>)
TsMean(x, n) == Rolling("skip", x, n)
TsSum(x, n) == Rolling("sum", x, n)
TsStd(x, n) == Rolling("std", x, n)
TsMax(x, n) == Rolling("skip", x, n)
TsMin(x, n) == Rolling("skip", x, n)
TsArgmax(x, n) == Rolling("skip", x, n)
TsArgmin(x, n) == Rolling("skip", x, n)
TsRank(x, n) == Rolling("rank", x, n)
TsCorr(x, y, n) == Rolling("strict", Arith(<<x, y>>), n)
TsCov(x, y, n) == Rolling("strict", Arith(<<x, y>>), n)
DecayLinear(x, n) == Rolling("strict", x, n)
Delay(x, d) == [i \in DOMAIN x |-> IF i - d \in DOMAIN x THEN x[i - d] ELSE NaN]
Delta(x, d) == Arith(<<x, Delay(x, d)>>)
Returns(x, d) == SafeDiv(Delta(x, d), Delay(x, d))
Vwap(h, l, c) == Arith(<<h, l, c>>)
Adv(c, v, n) == TsMean(Arith(<<c, v>>), n)

\* What a body may also contain, by the rule of the purity gate that meets it.
\* No rule meets a subscript, an attribute that is no dunder, the @ operator,
\* the rows of a column one by one or their number.  The names of the enclosing
\* module, which no rule meets either, are left out.
Reordering == {"numpy-call", "method-call"}     \* np.roll(x, -1), x.shift(-1)
Caught == Reordering \cup {"time-reversal", "import", "forbidden", "unknown-call", "dunder"}
Uncaught ==
  {"subscript",     \* x[-1]
   "attribute",     \* rank(x.T).T
   "matmul",        \* np.full(...) @ x
   "iteration",     \* *_, r = x
   "length"}        \* len(x), x.shape
Foreign == Caught \cup Uncaught

Rolled(x, q) == [i \in DOMAIN x |-> x[IF i = q.last THEN q.first ELSE i + 1]]
Reversed(x, q) == [i \in DOMAIN x |-> x[q.first + q.last - i]]
LastOf(x, q) == [i \in DOMAIN x |-> x[q.last]]
Ranked(x) == [i \in DOMAIN x |-> IF x[i] = NaN THEN NaN ELSE UNION {x[r] : r \in DOMAIN x}]
Mixed(x) == [i \in DOMAIN x |-> All({x[r] : r \in DOMAIN x})]
WithLength(x, q) == [i \in DOMAIN x |-> All({x[i], {q.last}})]

\* The calls a body is made of, by what they are given: one column, a column
\* and a lag, two columns and a lag, a condition and two columns.
Calls == {"rank", "zscore", "scale", "signed_power"} \cup Foreign
LagCalls == {"ts_mean", "ts_sum", "ts_std", "ts_max", "ts_min", "ts_argmax", "ts_argmin",
             "ts_rank", "decay_linear", "delay", "delta", "returns"}
PairCalls == {"safe_div", "vwap", "adv", "ts_corr", "ts_cov"}

Called(f, x, y, z, n, q) ==
  CASE f = "rank" -> Rank(x)
    [] f = "zscore" -> Zscore(x)
    [] f = "scale" -> ScaleRow(x)
    [] f = "signed_power" -> SignedPower(x)
    [] f \in {"import", "forbidden", "unknown-call", "dunder"} -> Arith(<<x>>)
    [] f \in Reordering -> Rolled(x, q)
    [] f = "time-reversal" -> Reversed(x, q)
    [] f \in {"subscript", "iteration"} -> LastOf(x, q)
    [] f = "attribute" -> Ranked(x)
    [] f = "matmul" -> Mixed(x)
    [] f = "length" -> WithLength(x, q)
    [] f = "ts_mean" -> TsMean(x, n)
    [] f = "ts_sum" -> TsSum(x, n)
    [] f = "ts_std" -> TsStd(x, n)
    [] f = "ts_max" -> TsMax(x, n)
    [] f = "ts_min" -> TsMin(x, n)
    [] f = "ts_argmax" -> TsArgmax(x, n)
    [] f = "ts_argmin" -> TsArgmin(x, n)
    [] f = "ts_rank" -> TsRank(x, n)
    [] f = "decay_linear" -> DecayLinear(x, n)
    [] f = "delay" -> Delay(x, n)
    [] f = "delta" -> Delta(x, n)
    [] f = "returns" -> Returns(x, n)
    [] f = "safe_div" -> SafeDiv(x, y)
    [] f = "vwap" -> Vwap(x, y, x)
    [] f = "adv" -> Adv(x, y, n)
    [] f = "ts_corr" -> TsCorr(x, y, n)
    [] f = "ts_cov" -> TsCov(x, y, n)
    [] f = "where" -> Where(x, y, z, q.branch)

\* A lag or a window out of range is a ValueError.
OutOfRange(f, n) ==
  \/ f \in LagCalls \cup {"adv"} /\ n < 1
  \/ f \in {"ts_std", "ts_corr", "ts_cov"} /\ n < 2

\* Broken: every NumPy call is allowed.
ViolationsNumpy(body) == body.foreign \cap (Caught \ {"numpy-call"})

\* assert_pure: every rule broken anywhere in the body.
Violations(body) == body.foreign \cap Caught

-----------------------------------------------------------------------------
(* Scores of draft formulas, and what they are judged against.             *)

\* The panels a draft is judged on, whole and as far as a row.
Panels == {History(0, last, branch) : last \in 0 .. LastRow, branch \in BOOLEAN}

\* The return from row t to row t + horizon, NaN at the tail.
ForwardReturns(q, t) == IF t + Forward <= q.last THEN {t, t + Forward} ELSE NaN

\* bench.py evaluates the whole panel at once, ic.py one visible panel a row.
Bench(body, q) ==
  {t \in PanelRows(q) : body.value[q][t] # NaN /\ ForwardReturns(q, t) # NaN}
FactorPanel(body, q) ==
  IF body.raises THEN {} ELSE {t \in PanelRows(q) : body.value[Visible(q, t)][t] # NaN}
Report(body, q) == {t \in FactorPanel(body, q) : ForwardReturns(q, t) # NaN}

BenchVerdict(rows) ==
  IF Cardinality(rows) < BenchBars THEN {"dead"} ELSE {"alive", "reversed", "dead"}
ReportVerdict(rows) ==
  IF Cardinality(rows) < ReportBars THEN {"insufficient"}
  ELSE {"insufficient", "dead", "unstable", "alive", "reversed"}
SpreadVerdict(rows) ==
  IF Cardinality(rows) < ReportBars THEN {"insufficient"} ELSE {"spread", "tail-driven"}

-----------------------------------------------------------------------------
NotJudged == [by |-> "nobody", rows |-> {}, verdict |-> "none"]

\* A body is its value on every panel, the values it has names for, the
\* foreign constructs in it, whether it raises, and the calls it is made of.
InputAlone ==
  LET input == [q \in Panels |-> Input(q)]
  IN  [value |-> input, named |-> {input, [q \in Panels |-> Number(q)]},
       foreign |-> {}, raises |-> FALSE, calls |-> 0]

\* One more call, on values that have names.
Call(f, x, y, z, n) ==
  LET written == [q \in Panels |-> Called(f, x[q], y[q], z[q], n, q)]
      foreign == draft.foreign \cup ({f} \cap Foreign)
  IN  draft' = IF OutOfRange(f, n)
               THEN [draft EXCEPT !.raises = TRUE, !.calls = @ + 1]
               ELSE [draft EXCEPT !.value = written, !.named = @ \cup {written},
                                  !.foreign = foreign, !.calls = @ + 1]

Draft ==
  /\ gate = "open" /\ draft.calls < MaxCalls
  /\ \E x, y \in draft.named :
       \/ \E f \in Calls : Call(f, x, x, x, 1)
       \/ \E f \in LagCalls, n \in Lags : Call(f, x, x, x, n)
       \/ \E f \in PairCalls, n \in Lags : Call(f, x, y, y, n)
       \/ \E z \in draft.named : Call("where", x, y, z, 1)
  /\ UNCHANGED <<gate, judged>>

\* The alpha decorator.
Register ==
  /\ gate = "open"
  /\ gate' = IF Violations(draft) = {} THEN "registered" ELSE "refused"
  /\ UNCHANGED <<draft, judged>>

Judged(by, rows, verdicts) ==
  \E v \in verdicts : judged' = [by |-> by, rows |-> rows, verdict |-> v]

\* An operator that raises ends the bench; the report leaves the bar out.
InformationCoefficient ==
  /\ gate = "registered" /\ judged = NotJudged
  /\ \E branch \in BOOLEAN :
       LET rows == Bench(draft, History(0, LastRow, branch))
       IN  IF draft.raises THEN Judged("bench", {}, {"raised"})
           ELSE Judged("bench", rows, BenchVerdict(rows))
  /\ UNCHANGED <<draft, gate>>

ICReport ==
  /\ gate = "registered" /\ judged = NotJudged
  /\ \E branch \in BOOLEAN :
       LET rows == Report(draft, History(0, LastRow, branch))
       IN  Judged("report", rows, ReportVerdict(rows))
  /\ UNCHANGED <<draft, gate>>

DecileSpread ==
  /\ gate = "registered" /\ judged = NotJudged
  /\ \E branch \in BOOLEAN :
       LET rows == Report(draft, History(0, LastRow, branch))
       IN  Judged("spread", rows, SpreadVerdict(rows))
  /\ UNCHANGED <<draft, gate>>

FormulaInit == draft = InputAlone /\ gate = "open" /\ judged = NotJudged

FormulaNext == Draft \/ Register \/ InformationCoefficient \/ ICReport \/ DecileSpread

FormulaSpec == FormulaInit /\ [][FormulaNext]_formulas

-----------------------------------------------------------------------------
(* Properties.                                                             *)

\* No look-ahead in a formula that passed the gate and stays within calls,
\* arithmetic and comparisons of whole columns (the gate itself also passes
\* constructs that are none of these, and with them a formula can look ahead):
\* its value at a row reads nothing later, so that the whole panel evaluated at
\* once, as the bench does, and the panel visible at the row, as the strategy
\* and the report do, give the same; and no study judges a score against a
\* return whose end it has seen.
\* (operators.py:34-39, purity.py:54-63, alpha.py:164-168, bench.py:90-93)
NoPeek ==
  gate = "registered" /\ draft.foreign \cap Uncaught = {} /\ ~draft.raises =>
    \A branch \in BOOLEAN, i \in 0 .. LastRow :
      LET q == History(0, LastRow, branch)
          v == draft.value[q][i]
      IN  /\ v \subseteq Filled \cup 0 .. i
          /\ v = draft.value[Visible(q, i)][i]
          /\ i \in judged.rows => i + Forward \notin v
=============================================================================
