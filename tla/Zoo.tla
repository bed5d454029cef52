--------------------------------- MODULE Zoo ---------------------------------
(***************************************************************************)
(* The alphas of factors/zoo.py, written with the operators of Formulas,   *)
(* and how FormulaicStrategy scores them from one row to the next.  The    *)
(* five fields of a bar are one input: they are there, or not, together.   *)
(***************************************************************************)
EXTENDS Formulas

CONSTANT Span           \* how far past its warmup an alpha is followed

ASSUME SpanAssumption == Span \in Nat

VARIABLES alpha,        \* the name of the alpha that is followed
          row           \* the row it is scored at

zoo == <<alpha, row>>

\* Panel, with its derived columns.
PanelOf(q) ==
  LET c == Input(q)
  IN  [close |-> c, open |-> c, high |-> c, low |-> c, volume |-> c,
       returns |-> Returns(c, 1), vwap |-> Vwap(c, c, c),
       number |-> Number(q), branch |-> q.branch]

Alpha(warmup, scores) == [warmup |-> warmup, scores |-> scores]

\* The spread of two slopes in 046, 049 and 051.
SlopeDiff(p) == Arith(<<Delay(p.close, 20), Delay(p.close, 10), p.close>>)

alpha101_001(p) == Alpha(30,
  Rank(TsArgmax(SignedPower(Where(p.returns, TsStd(p.returns, 20), p.close, p.branch)), 5)))
alpha101_002(p) == Alpha(12, TsCorr(Rank(Delta(p.volume, 2)), Rank(SafeDiv(p.close, p.open)), 6))
alpha101_003(p) == Alpha(12, TsCorr(Rank(p.open), Rank(p.volume), 10))
alpha101_004(p) == Alpha(12, TsRank(Rank(p.low), 9))
alpha101_006(p) == Alpha(12, TsCorr(p.open, p.volume, 10))
alpha101_008(p) ==
  LET x == Arith(<<TsSum(p.open, 5), TsSum(p.returns, 5)>>) IN Alpha(20, Rank(Delta(x, 10)))
alpha101_009(p) ==
  LET d == Delta(p.close, 1)
  IN  Alpha(10, Where(Arith(<<TsMin(d, 5), TsMax(d, 5)>>), d, d, p.branch))
alpha101_012(p) == Alpha(3, Arith(<<Delta(p.volume, 1), Delta(p.close, 1)>>))
alpha101_013(p) == Alpha(8, Rank(TsCov(Rank(p.close), Rank(p.volume), 5)))
alpha101_014(p) == Alpha(14, Arith(<<Rank(Delta(p.returns, 3)), TsCorr(p.open, p.volume, 10)>>))
alpha101_016(p) == Alpha(8, Rank(TsCov(Rank(p.high), Rank(p.volume), 5)))
alpha101_018(p) ==
  LET body == Arith(<<p.close, p.open>>)
  IN  Alpha(14, Rank(Arith(<<TsStd(body, 5), body, TsCorr(p.close, p.open, 10)>>)))
alpha101_019(p) ==
  Alpha(260, Arith(<<Delay(p.close, 7), Delta(p.close, 7), Rank(TsSum(p.returns, 250))>>))
alpha101_023(p) ==
  Alpha(25, Where(Arith(<<TsMean(p.high, 20), p.high>>), Delta(p.high, 2), p.number, p.branch))
alpha101_024(p) ==
  LET steep == SafeDiv(Delta(TsMean(p.close, 100), 100), Delay(p.close, 100))
  IN  Alpha(110, Where(steep, Arith(<<p.close, TsMin(p.close, 100)>>), Delta(p.close, 3), p.branch))
alpha101_026(p) == Alpha(16, TsMax(TsCorr(TsRank(p.volume, 5), TsRank(p.high, 5), 5), 3))
alpha101_028(p) ==
  LET c == TsCorr(Adv(p.close, p.volume, 20), p.low, 5)
  IN  Alpha(28, ScaleRow(Arith(<<c, p.high, p.low, p.close>>)))
alpha101_032(p) ==
  Alpha(240, Arith(<<ScaleRow(Arith(<<TsMean(p.close, 7), p.close>>)),
                     ScaleRow(TsCorr(p.vwap, Delay(p.close, 5), 230))>>))
alpha101_033(p) == Alpha(3, Rank(SafeDiv(p.open, p.close)))
alpha101_034(p) ==
  LET ratio == SafeDiv(TsStd(p.returns, 2), TsStd(p.returns, 5))
  IN  Alpha(10, Rank(Arith(<<Rank(ratio), Rank(Delta(p.close, 1))>>)))
alpha101_035(p) ==
  Alpha(36, Arith(<<TsRank(p.volume, 32), TsRank(Arith(<<p.close, p.high, p.low>>), 16),
                    TsRank(p.returns, 32)>>))
alpha101_038(p) == Alpha(14, Arith(<<Rank(TsRank(p.close, 10)), Rank(SafeDiv(p.close, p.open))>>))
alpha101_040(p) == Alpha(14, Arith(<<Rank(TsStd(p.high, 10)), TsCorr(p.high, p.volume, 10)>>))
alpha101_041(p) == Alpha(3, Arith(<<p.high, p.low, p.vwap>>))
alpha101_043(p) ==
  Alpha(30, Arith(<<TsRank(SafeDiv(p.volume, TsMean(p.volume, 20)), 20), TsRank(Delta(p.close, 7), 8)>>))
alpha101_044(p) == Alpha(8, TsCorr(p.high, Rank(p.volume), 5))
alpha101_046(p) ==
  Alpha(25, Where(SlopeDiff(p), p.number,
                  Where(SlopeDiff(p), p.number, Arith(<<p.close, Delay(p.close, 1)>>), p.branch), p.branch))
alpha101_049(p) == Alpha(25, Where(SlopeDiff(p), p.number, Delta(p.close, 1), p.branch))
alpha101_051(p) == Alpha(25, Where(SlopeDiff(p), p.number, Delta(p.close, 1), p.branch))
alpha101_053(p) == Alpha(12, Delta(SafeDiv(Arith(<<p.close, p.low, p.high>>), Arith(<<p.close, p.low>>)), 9))
alpha101_054(p) == Alpha(3, SafeDiv(Arith(<<p.low, p.close, p.open>>), Arith(<<p.low, p.high, p.close>>)))
alpha101_101(p) == Alpha(2, SafeDiv(Arith(<<p.close, p.open>>), Arith(<<p.high, p.low>>)))

academic_strev(p) == Alpha(8, SafeDiv(Arith(<<p.close, Delay(p.close, 5)>>), Delay(p.close, 5)))
academic_mom(p) == Alpha(35, SafeDiv(Arith(<<Delay(p.close, 7), Delay(p.close, 30)>>), Delay(p.close, 30)))
academic_illiq(p) == Alpha(25, TsMean(SafeDiv(p.returns, Arith(<<p.close, p.volume>>)), 20))
academic_high52w(p) == Alpha(370, SafeDiv(p.close, TsMax(p.high, 365)))
academic_ivol(p) == Alpha(35, TsStd(p.returns, 30))
academic_maxret(p) == Alpha(25, TsMax(p.returns, 20))
academic_decay_mom(p) == Alpha(25, DecayLinear(p.returns, 20))
academic_argmin_low(p) == Alpha(35, TsArgmin(p.low, 30))
academic_volume_trend(p) ==
  Alpha(35, Rank(SafeDiv(Adv(p.close, p.volume, 5), Adv(p.close, p.volume, 30))))

\* REGISTRY, without the two alphas whose warmup is too short.
Registry ==
  {"alpha101_001", "alpha101_002", "alpha101_003", "alpha101_004", "alpha101_006",
   "alpha101_008", "alpha101_009", "alpha101_012", "alpha101_013", "alpha101_014",
   "alpha101_016", "alpha101_018", "alpha101_019", "alpha101_023", "alpha101_026",
   "alpha101_028", "alpha101_032", "alpha101_033", "alpha101_034", "alpha101_035",
   "alpha101_038", "alpha101_040", "alpha101_041", "alpha101_044", "alpha101_046",
   "alpha101_049", "alpha101_051", "alpha101_053", "alpha101_054", "alpha101_101",
   "academic_strev", "academic_mom", "academic_illiq", "academic_high52w", "academic_ivol",
   "academic_maxret", "academic_decay_mom", "academic_argmin_low", "academic_volume_trend"}
ShortWarmup == {"alpha101_024", "alpha101_043"}

\* Alpha.compute: the function that was registered under the name.
Compute(name, p) ==
  CASE name = "alpha101_001" -> alpha101_001(p)
    [] name = "alpha101_002" -> alpha101_002(p)
    [] name = "alpha101_003" -> alpha101_003(p)
    [] name = "alpha101_004" -> alpha101_004(p)
    [] name = "alpha101_006" -> alpha101_006(p)
    [] name = "alpha101_008" -> alpha101_008(p)
    [] name = "alpha101_009" -> alpha101_009(p)
    [] name = "alpha101_012" -> alpha101_012(p)
    [] name = "alpha101_013" -> alpha101_013(p)
    [] name = "alpha101_014" -> alpha101_014(p)
    [] name = "alpha101_016" -> alpha101_016(p)
    [] name = "alpha101_018" -> alpha101_018(p)
    [] name = "alpha101_019" -> alpha101_019(p)
    [] name = "alpha101_023" -> alpha101_023(p)
    [] name = "alpha101_024" -> alpha101_024(p)
    [] name = "alpha101_026" -> alpha101_026(p)
    [] name = "alpha101_028" -> alpha101_028(p)
    [] name = "alpha101_032" -> alpha101_032(p)
    [] name = "alpha101_033" -> alpha101_033(p)
    [] name = "alpha101_034" -> alpha101_034(p)
    [] name = "alpha101_035" -> alpha101_035(p)
    [] name = "alpha101_038" -> alpha101_038(p)
    [] name = "alpha101_040" -> alpha101_040(p)
    [] name = "alpha101_041" -> alpha101_041(p)
    [] name = "alpha101_043" -> alpha101_043(p)
    [] name = "alpha101_044" -> alpha101_044(p)
    [] name = "alpha101_046" -> alpha101_046(p)
    [] name = "alpha101_049" -> alpha101_049(p)
    [] name = "alpha101_051" -> alpha101_051(p)
    [] name = "alpha101_053" -> alpha101_053(p)
    [] name = "alpha101_054" -> alpha101_054(p)
    [] name = "alpha101_101" -> alpha101_101(p)
    [] name = "academic_strev" -> academic_strev(p)
    [] name = "academic_mom" -> academic_mom(p)
    [] name = "academic_illiq" -> academic_illiq(p)
    [] name = "academic_high52w" -> academic_high52w(p)
    [] name = "academic_ivol" -> academic_ivol(p)
    [] name = "academic_maxret" -> academic_maxret(p)
    [] name = "academic_decay_mom" -> academic_decay_mom(p)
    [] name = "academic_argmin_low" -> academic_argmin_low(p)
    [] name = "academic_volume_trend" -> academic_volume_trend(p)

\* Broken: no warmup.
ScoreAtOnce(name, i, q) == Compute(name, PanelOf(Visible(q, i))).scores[i]

\* FormulaicStrategy: the last row on the visible panel, after the warmup.
Score(name, i, q) ==
  LET a == Compute(name, PanelOf(Visible(q, i)))
  IN  IF i - q.first + 1 <= a.warmup THEN NaN ELSE a.scores[i]

\* How many rows an old panel has before a young one begins.
Age == 600

Young(branch) == History(Age, Age + row, branch)
Old(branch) == History(0, Age + row, branch)
Warmup(name) == Compute(name, PanelOf(Young(TRUE))).warmup

Follow ==
  /\ alpha = NaN
  /\ \E a \in Registry \cup ShortWarmup : alpha' = {a}
  /\ UNCHANGED row

\* The engine asks for the next row's score.
Ask ==
  /\ \E a \in alpha : row < Warmup(a) + Span
  /\ row' = row + 1
  /\ UNCHANGED alpha

ZooInit == alpha = NaN /\ row = 0
ZooNext == Follow \/ Ask
ZooSpec == ZooInit /\ [][ZooNext]_zoo

-----------------------------------------------------------------------------
(* Properties.                                                             *)

\* The declared warmups are long enough: an alpha that scores a coin reads the
\* same bars whenever its panel began, so that no score is an artefact of the
\* first bars; but for two alphas of the zoo, which are past their warmup
\* before their windows are full.  (alpha.py:133 and :180, zoo.py)
Settled ==
  \A a \in alpha \ ShortWarmup, branch \in BOOLEAN :
    LET young == Score(a, Age + row, Young(branch))
    IN  /\ young # NaN => young = Score(a, Age + row, Old(branch))
        /\ row >= Warmup(a) => young # NaN

\* NaN propagates: a coin that has not listed yet gets no score from any alpha.
\* (operators.py:28-32)
UnlistedIsNaN ==
  \A a \in alpha, branch \in BOOLEAN :
    Score(a, Age + row, [Young(branch) EXCEPT !.listed = Age + row + 1]) = NaN
=============================================================================
