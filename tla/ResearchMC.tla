------------------------------ MODULE ResearchMC ------------------------------
(* A small instance of Research for TLC: three coins, twelve bars.         *)
EXTENDS Research

ThreeCoins == {"a","b","c"}
Thin == [a |-> 0, b |-> 1, c |-> 2]
\* Every coin all along; late, delisted; delisted on the last bar; halted; a bar
\* nobody has; too short.
Listings == {[c \in ThreeCoins |-> Bars],
  [a |-> Bars, b |-> Bars, c |-> Bars \ {NBars}],
  [a |-> Bars, b |-> 4 .. NBars, c |-> 1 .. 7],
  [a |-> Bars \ {5, 6}, b |-> Bars, c |-> (1 .. 10) \ {4}],
  [a |-> Bars \ {6}, b |-> Bars \ {6}, c |-> (3 .. NBars) \ {6}],
  [a |-> {1, 2}, b |-> {2}, c |-> {1}]}
Feeds == {[c \in ThreeCoins |-> Bars],
          [a |-> {1, 4, 7, 10}, b |-> {3, 5, 9}, c |-> {1, 3, 5}]}
Days == {[day |-> 1, lag |-> 0], [day |-> 1, lag |-> 1], [day |-> 2, lag |-> 0],
         [day |-> 2, lag |-> 1], [day |-> 2, lag |-> 2]}
S(name, k, window, smooth) == [name |-> name, k |-> k, window |-> window, smooth |-> smooth]
Catalogue ==
  {S(n, 1, 0, 0) : n \in {"reversal", "momentum", "trend", "ensemble", "carry", "size", "bounce"}}
  \cup {S(n, 2, 0, 0) : n \in {"value", "tvlmomentum", "tvldivergence", "oidivergence", "crowding",
                            "fundingmomentum", "oiacceleration", "illiquidreversal", "carry"}}
  \cup {S(n, 5, 0, 0) : n \in {"lowvol", "maxreturn", "residual", "illiquidity"}}
  \cup {S(n, 1, 10, 0) : n \in {"tier", "crowd", "taker", "tierdelta", "smartmoney", "oiweighted", "churn"}}
  \cup {S("crowdacceleration", 2, 0, 1), S("crowdacceleration", 2, 0, 2),
     S("flow", 1, 10, 1), S("flow", 1, 10, 2), S("forcedflow", 1, 10, 1),
     S("forcedflow", 1, 10, 2), S("composer", 2, 5, 0)}
Plain == [every |-> 1, turn |-> 1, topk |-> 0, neutral |-> TRUE, floor |-> 0, vol |-> FALSE,
          capacity |-> FALSE, derisk |-> FALSE, maker |-> FALSE, ragged |-> TRUE]
Overlays == {Plain, [Plain EXCEPT !.topk = 1, !.every = 2],
   [Plain EXCEPT !.neutral = FALSE, !.vol = TRUE, !.every = 3],
   [Plain EXCEPT !.floor = 1, !.turn = 0], [Plain EXCEPT !.floor = 2, !.capacity = TRUE, !.topk = 1],
   [Plain EXCEPT !.derisk = TRUE, !.every = 2], [Plain EXCEPT !.maker = TRUE, !.every = 3],
   [Plain EXCEPT !.ragged = FALSE, !.every = 2],
   [Plain EXCEPT !.neutral = FALSE, !.floor = 1, !.vol = TRUE, !.capacity = TRUE, !.derisk = TRUE, !.maker = TRUE, !.every = 2]}
Job(s, o, l, f, d) ==
  [strategy |-> s, every |-> o.every, turn |-> o.turn, topk |-> o.topk, neutral |-> o.neutral,
   floor |-> o.floor, vol |-> o.vol, capacity |-> o.capacity, derisk |-> o.derisk, maker |-> o.maker,
   ragged |-> o.ragged, listed |-> l, feed |-> f, day |-> d.day, lag |-> d.lag]
Common == {s \in Catalogue : s.name \in {"momentum", "carry", "size", "ensemble", "bounce"}}
SomeJobs == {Job(s, [Plain EXCEPT !.every = IF s.smooth > 1 THEN 1 ELSE 2], l, f, d) :
               s \in Catalogue, l \in Listings, f \in Feeds, d \in Days}
  \cup {Job(s, o, l, f, [day |-> 1, lag |-> 1]) : s \in Common, o \in Overlays, l \in Listings, f \in Feeds}

\* The live universes: some coin late, delisted or halted in either panel.
SomeMarkets ==
  {[broad |-> [listed |-> l, feed |-> f], defi |-> [listed |-> k, feed |-> f]] :
     l \in Listings, k \in Listings, f \in Feeds}

\* Windows that tile, overlap, leave gaps, do not fit, and are too short to run.
Windows == {[train |-> 3, test |-> 3, step |-> 0], [train |-> 4, test |-> 3, step |-> 1],
            [train |-> 3, test |-> 4, step |-> 5], [train |-> 10, test |-> 3, step |-> 0],
            [train |-> 4, test |-> 2, step |-> 0]}

Grid == <<S("momentum", 1, 0, 0), S("carry", 1, 0, 0), S("reversal", 2, 0, 0)>>

SomeStudies ==
  {[job |-> Job(Grid[1], [Plain EXCEPT !.every = 2], l, f, [day |-> 1, lag |-> 1]), grid |-> Grid,
    train |-> x.train, test |-> x.test, step |-> x.step] :
     l \in Listings, f \in Feeds, x \in Windows}

SomeAsked == {-2, 0, 1}
ThreePrices == 1 .. 3
SomeSpreads == {1, 2}
SomeMoves == -2 .. 2

\* A lag out of range (a formula that would look ahead), and three in it.
SomeLags == {-1, 1, 2, 3}

TwoSymbols == {"s", "r"}
=============================================================================
