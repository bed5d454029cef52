----------------------------- MODULE WalkForward -----------------------------
(***************************************************************************)
(* The walk-forward study (research/walkforward.py, splits.py): for every  *)
(* window each parameter set of the grid is run on the training segment,   *)
(* the best of them on the test segment after it, and the test segments'   *)
(* returns are stitched into one curve.  Every run is a run of the         *)
(* backtester of CrossSection, on a panel cut to the segment.              *)
(***************************************************************************)
EXTENDS CrossSection, Sequences

CONSTANT Studies       \* the studies that may be made

\* The strategies that read nothing but the prices, volumes and funding a study
\* cuts to the segment.  The others are built around matrices of their own, of
\* open interest, positioning or dollar volume on the whole timeline, or read TVL,
\* which stay whole; no study in the repository has one in its grid
\* (cli.py:93-104).
ContextOnly == {n \in StrategyNames : Reads(n) = "market"} \ {"illiquidreversal"}

\* A grid of parameter sets, and the windows' sizes; step = 0 stands for None.
ASSUME StudiesAssumption ==
  \A w \in Studies :
    /\ w.job \in Backtests
    /\ w.grid \in Seq([name : ContextOnly, k : Nat, window : Nat, smooth : Nat])
    /\ w.grid # <<>>
    /\ w.train \in Nat \ {0} /\ w.test \in Nat \ {0} /\ w.step \in Nat

VARIABLES
    stage,      \* idle, train, test, over or raised
    study,      \* the arguments of walk_forward
    start,      \* where the window begins on the aligned timeline
    trial,      \* which parameter set is being tried
    best,       \* best_params, and what the choice depends on
    curve       \* oos_ts: the bars of the stitched returns

walk == <<stage, study, start, trial, best, curve>>

NoStudy == [grid |-> <<>>]
FirstParams == [params |-> 1, from |-> {}]

\* The aligned timeline: bars every coin has.
Master(w) == Timeline(PanelBars(w.job.listed, FALSE))

Fits(w, s) == s + w.train + w.test <= Cardinality(DOMAIN Master(w))

StepSize(w) == IF w.step = 0 THEN w.test ELSE w.step

Segment(w, from, size) == {Master(w)[i] : i \in from .. from + size - 1}
\* Broken: one bar too many.
TrainBarsOver(w, s) == Segment(w, s, w.train + 1)

TrainBars(w, s) == Segment(w, s, w.train)
TestBars(w, s) == Segment(w, s + w.train, w.test)

\* The backtest of parameter set k on the bars S of the panel and funding.
SegmentJob(w, k, S) ==
  [w.job EXCEPT !.strategy = w.grid[k],
                !.listed = [c \in Coins |-> @[c] \cap S],
                !.feed = [c \in Coins |-> @[c] \cap S]]

StartStudy(w) ==
  /\ stage = "idle" /\ phase = "idle"
  /\ study' = w
  /\ stage' = IF Fits(w, 0) THEN "train" ELSE "raised"
  /\ UNCHANGED <<start, trial, best, curve, vars>>

TryParams ==
  /\ stage = "train"
  /\ Begin(SegmentJob(study, trial, TrainBars(study, start)))
  /\ UNCHANGED walk

\* The run's result is read, and the backtester thrown away.
Discard ==
  /\ phase = "done" /\ phase' = "idle"
  /\ UNCHANGED <<job, p, t, book, earning, equity, trades, native>>

\* score > best_score, from minus infinity; a NaN is never greater.
Judge ==
  /\ stage = "train" /\ Discard
  /\ \E better \in BOOLEAN :
       best' = [params |-> IF better THEN trial ELSE best.params,
                from |-> best.from \cup equity]
  /\ IF trial < Len(study.grid)
     THEN trial' = trial + 1 /\ UNCHANGED stage
     ELSE trial' = 1 /\ stage' = "test"
  /\ UNCHANGED <<study, start, curve>>

TestBest ==
  /\ stage = "test"
  /\ Begin(SegmentJob(study, best.params, TestBars(study, start)))
  /\ UNCHANGED walk

\* The first bar of a segment has no return.
Stitch ==
  /\ stage = "test" /\ Discard
  /\ curve' = curve \o [i \in 1 .. Rows(p) - 1 |-> p.ts[i]]
  /\ start' = start + StepSize(study)
  /\ stage' = IF Fits(study, start') THEN "train" ELSE "over"
  /\ best' = FirstParams
  /\ UNCHANGED <<study, trial>>

\* A segment of fewer than three bars cannot be backtested.
TooShort ==
  /\ stage \in {"train", "test"} /\ phase = "raised"
  /\ stage' = "raised"
  /\ UNCHANGED <<study, start, trial, best, curve, vars>>

\* A row of the backtest of a segment.
InSegment(A) == stage \in {"train", "test"} /\ A /\ UNCHANGED walk

WalkInit ==
  /\ Init
  /\ stage = "idle" /\ study = NoStudy /\ start = 0
  /\ trial = 1 /\ best = FirstParams /\ curve = <<>>

WalkNext ==
  \/ \E w \in Studies : StartStudy(w)
  \/ TryParams \/ Judge \/ TestBest \/ Stitch \/ TooShort
  \/ InSegment(Hold) \/ InSegment(Rebalance) \/ InSegment(Finish)

WalkSpec == WalkInit /\ [][WalkNext]_<<vars, walk>>

-----------------------------------------------------------------------------
(* Properties.                                                             *)

\* Out of sample: while a test segment is run, the parameters were chosen
\* from nothing later than the segment's first bar, and its positions rest on
\* bars of the segment alone.  And each bar enters the stitched curve once, in
\* order, unless the windows are told to overlap.
\* (walkforward.py:127-149, splits.py:29-31)
OutOfSample ==
  /\ stage = "test" /\ Begun =>
       /\ best.from \subseteq 0 .. p.ts[0]
       /\ DependsOn(book) \subseteq {0} \cup p.ts[0] .. Close(t - 1)
  /\ stage # "idle" /\ StepSize(study) >= study.test =>
       \A i, k \in 1 .. Len(curve) : i < k => curve[i] < curve[k]
=============================================================================
