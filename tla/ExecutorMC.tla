----------------------------- MODULE ExecutorMC -----------------------------
(* Small instances of Executor for TLC.                                    *)
EXTENDS Executor, TLC

CONSTANTS r1, r2, r3

TwoRuns == {r1, r2}
ThreeRuns == {r1, r2, r3}
RunSymmetry == Permutations(Runs)

TwoSymbols == 1..2
ThreeSymbols == 1..3

BothModes == {TRUE, FALSE}
LiveOnly == {TRUE}

Listed(step, minQty, minNotional) ==
    [listed |-> TRUE, step |-> step, minQty |-> minQty, minNotional |-> minNotional]
NotListed == [listed |-> FALSE, step |-> 1, minQty |-> 0, minNotional |-> 0]

NoLow == {}

\* Equity 1000: a weight of 1/100 is one unit of a coin at 10.
CalmMarket ==
    [equity |-> 1000, price |-> <<10, 10>>,
     spec |-> <<Listed(1, 1, 5), Listed(2, 2, 5)>>]
Delisting ==
    [equity |-> 1000, price |-> <<10, 0>>,
     spec |-> <<Listed(1, 1, 5), NotListed>>]
WipedOut ==
    [equity |-> 0, price |-> <<10, 10>>,
     spec |-> <<Listed(1, 1, 5), Listed(2, 2, 5)>>]

OverlapMarkets == {CalmMarket, Delisting}
OverlapBooks == {<<7, 0>>, <<20, 3>>}
OverlapPositions == {<<0, 4>>}
OverlapFaults ==
    {"overlap", "late", "crash", "raise", "leverage", "reject", "timeout",
     "partial", "kill", "market"}

\* One run after the other towards one book, over a market that stands still:
\* a long to reduce, a short to turn over, and a short of 7 to close, which
\* float arithmetic cuts by a step twice: 6 are planned and 5 are sent.  The
\* long to reduce by 12 loses one in reconcile(): 1.4 - 0.2 is just below 1.2.
SteadyMarket ==
    [equity |-> 1000, price |-> <<10, 10, 10>>,
     spec |-> <<Listed(1, 1, 5), Listed(2, 2, 5), Listed(1, 1, 5)>>]
SerialMarkets == {SteadyMarket}
SerialBooks == {<<2, 9, 0>>}
SerialPositions == {<<14, -4, 0>>, <<0, 9, -7>>}
SerialLow == {<<2000, 14, 10, 1>>}
SerialFaults == {"crash", "raise", "leverage", "reject", "timeout", "partial"}

\* The instances of the three divergences from the documentation.
OneRun == {r1}
OneMarket == {CalmMarket}
KillBooks == {<<10, -10>>}
FlatPositions == {<<0, 0>>}
KillFaults == {"kill"}

LateBooks == {<<10, 0>>}
LateFaults == {"crash", "timeout", "late"}

GrowBooks == {<<25, 0>>}
GrowPositions == {<<14, 0>>}
=============================================================================
