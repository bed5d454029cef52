------------------------------- MODULE Research -------------------------------
(***************************************************************************)
(* The offline side of the program: one command at a time, a backtest, a   *)
(* walk-forward study, a live book or a microstructure experiment.  The    *)
(* study drives the cross-sectional backtester, and the live books ask the *)
(* same backtester for its target weights.  The formulaic alphas are       *)
(* drafted, judged and scored on their own, and data are downloaded by     *)
(* themselves.                                                             *)
(***************************************************************************)
EXTENDS WalkForward, Signal, Engine, OrderBook, MarketMaker, Zoo, Download

VARIABLE command       \* which command was given

Commands == {"engine", "cross", "walk", "live", "book", "maker", "draft", "zoo", "download"}

research == <<command, vars, walk, live, engine, limitbook, maker, formulas, zoo, download>>

ResearchInit ==
  /\ command \in Commands
  /\ WalkInit /\ live = NoBook
  /\ EngineInit /\ BookInit /\ MakerInit
  /\ FormulaInit /\ ZooInit /\ DownloadInit

\* A command touches the state of its own component alone.
Cross(A) ==
  command = "cross" /\ A /\ UNCHANGED <<command, walk, live, engine, limitbook, maker, formulas, zoo, download>>
Walk(A) ==
  command = "walk" /\ A /\ UNCHANGED <<command, live, engine, limitbook, maker, formulas, zoo, download>>
Live(A) ==
  command = "live" /\ A /\ UNCHANGED <<command, vars, walk, engine, limitbook, maker, formulas, zoo, download>>
Single(A) ==
  command = "engine" /\ A /\ UNCHANGED <<command, vars, walk, live, limitbook, maker, formulas, zoo, download>>
Limit(A) ==
  command = "book" /\ A /\ UNCHANGED <<command, vars, walk, live, engine, maker, formulas, zoo, download>>
Make(A) ==
  command = "maker" /\ A /\ UNCHANGED <<command, vars, walk, live, engine, limitbook, formulas, zoo, download>>
Write(A) ==
  command = "draft" /\ A /\ UNCHANGED <<command, vars, walk, live, engine, limitbook, maker, zoo, download>>
Scored(A) ==
  command = "zoo" /\ A /\ UNCHANGED <<command, vars, walk, live, engine, limitbook, maker, formulas, download>>
Fetch(A) ==
  command = "download" /\ A /\ UNCHANGED <<command, vars, walk, live, engine, limitbook, maker, formulas, zoo>>

ResearchNext ==
  \/ \E j \in Jobs : Cross(Begin(j))
  \/ Cross(Hold) \/ Cross(Rebalance) \/ Cross(Finish)
  \/ \E w \in Studies : Walk(StartStudy(w))
  \/ Walk(TryParams) \/ Walk(Judge) \/ Walk(TestBest) \/ Walk(Stitch) \/ Walk(TooShort)
  \/ Walk(InSegment(Hold)) \/ Walk(InSegment(Rebalance)) \/ Walk(InSegment(Finish))
  \/ Live(MakeCombined) \/ Live(MakeAlpha)
  \/ Single(EngineNext) \/ Limit(BookNext) \/ Make(MakerNext)
  \/ Write(FormulaNext) \/ Scored(ZooNext) \/ Fetch(DownloadNext)

ResearchSpec == ResearchInit /\ [][ResearchNext]_research

=============================================================================
