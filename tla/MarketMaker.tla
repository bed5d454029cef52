----------------------------- MODULE MarketMaker -----------------------------
(***************************************************************************)
(* The market-making loop (microstructure/simulator.py): at each step the  *)
(* value moves, and orders, informed of the move or not, meet a maker      *)
(* quoting one unit on either side of the old value.                       *)
(***************************************************************************)
EXTENDS Integers

CONSTANTS HalfSpreads, Moves,
          Steps,        \* n_steps
          MaxOrders     \* orders of one step

ASSUME SpreadsAssumption == HalfSpreads \subseteq Nat
ASSUME MovesAssumption == Moves \subseteq Int
ASSUME FlowAssumption == Steps \in Nat /\ MaxOrders \in Nat

VARIABLES
    halfSpread, \* chosen when the simulation begins
    move,       \* value[t + 1] - value[t]
    clock,      \* t: the step that is running
    orders,     \* n_orders[t] still to come
    quotes,     \* ask_avail, bid_avail
    filled      \* P&L and fills of the step, those to informed orders apart

maker == <<halfSpread, move, clock, orders, quotes, filled>>

BothQuotes == {"ask", "bid"}
NoFills == [pnl |-> 0, n |-> 0, informed |-> 0, informedN |-> 0]

Kinds == {"informed", "buy", "sell"}

\* An informed order buys before a rise and sells before anything else.
Side(order) ==
  IF order = "informed" THEN IF move > 0 THEN "buy" ELSE "sell" ELSE order

\* The quote an order of this side lifts or hits.
Quote(side) == IF side = "buy" THEN "ask" ELSE "bid"

\* What a fill earns against the value right after it.
Earned(side) == IF side = "buy" THEN halfSpread - move ELSE move + halfSpread

NextStep ==
  /\ orders = 0 /\ clock < Steps
  /\ clock' = clock + 1
  /\ move' \in Moves /\ orders' \in 0 .. MaxOrders
  /\ quotes' = BothQuotes
  /\ filled' = NoFills
  /\ halfSpread' \in IF clock = 0 THEN HalfSpreads ELSE {halfSpread}

Counted(f, order) ==
  LET pnl == Earned(Side(order))
      inf == order = "informed"
  IN  [pnl |-> f.pnl + pnl, n |-> f.n + 1,
       informed |-> f.informed + IF inf THEN pnl ELSE 0,
       informedN |-> f.informedN + IF inf THEN 1 ELSE 0]

\* Broken: a quote is lifted again and again.
OrderAgain(order) ==
  /\ orders > 0 /\ orders' = orders - 1
  /\ filled' = IF Quote(Side(order)) \in quotes THEN Counted(filled, order) ELSE filled
  /\ UNCHANGED <<halfSpread, move, clock, quotes>>

Order(order) ==
  /\ orders > 0 /\ orders' = orders - 1
  /\ quotes' = quotes \ {Quote(Side(order))}
  /\ filled' = IF Quote(Side(order)) \in quotes THEN Counted(filled, order) ELSE filled
  /\ UNCHANGED <<halfSpread, move, clock>>

MakerInit ==
  /\ halfSpread = 0 /\ move = 0 /\ clock = 0 /\ orders = 0
  /\ quotes = BothQuotes /\ filled = NoFills

MakerNext == NextStep \/ \E order \in Kinds : Order(order)

MakerSpec == MakerInit /\ [][MakerNext]_maker

-----------------------------------------------------------------------------
(* Properties.                                                             *)

\* Adverse selection: a fill to an informed order never earns more than the
\* half spread, and a step that fills both quotes, which are filled once each,
\* earns exactly the spread however the value moved.  (simulator.py:97-124)
MakerPaysInformed ==
  /\ filled.informed <= halfSpread * filled.informedN
  /\ filled.n <= 2 /\ (filled.n = 2 => filled.pnl = 2 * halfSpread)
=============================================================================
