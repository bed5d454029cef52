------------------------------ MODULE OrderBook ------------------------------
(***************************************************************************)
(* The limit order book (microstructure/orderbook.py): resting quantity at *)
(* integer prices, market orders that walk it from the best price inward.  *)
(* `add` never matches, so the two sides may cross.                        *)
(***************************************************************************)
EXTENDS Integers, FiniteSets, Functions

CONSTANTS Prices, MaxQty,
          MaxOps       \* how many operations a behaviour makes

ASSUME PricesAssumption == Prices \subseteq Int /\ IsFiniteSet(Prices)
ASSUME QuantityAssumption == MaxQty \in Nat \ {0} /\ MaxOps \in Nat

VARIABLES
    resting,    \* bids and asks: by side, price -> quantity
    ledger,     \* history, by side: added, cancelled, filled
    last,       \* history: the last market order, its fills and what it met
    ops

limitbook == <<resting, ledger, last, ops>>

Sides == {1, -1}
Quantities == 1 .. MaxQty
Lower(a, b) == IF a <= b THEN a ELSE b

Empty == [x \in {} |-> 0]
Levels(b) == DOMAIN b
Depth(b) == FoldFunction(+, 0, b)

Without(b, x) == [y \in Levels(b) \ {x} |-> b[y]]
With(b, x, q) == [y \in Levels(b) \cup {x} |-> IF y = x THEN q ELSE b[y]]

\* A buyer walks the asks upward, a seller the bids downward.
Better(side, x, y) == IF side = 1 THEN x < y ELSE x > y
Opposite(side) == -side

\* Broken: levels are walked upward whatever the side.
AheadUpward(side, b, x) == FoldFunctionOnSet(+, 0, b, {y \in Levels(b) : y < x})

\* The quantity in front of level x for a market order of this side.
Ahead(side, b, x) == FoldFunctionOnSet(+, 0, b, {y \in Levels(b) : Better(side, y, x)})

\* take = min(avail, remaining), level by level while something remains.
Fills(side, b, qty) ==
  [x \in {y \in Levels(b) : Ahead(side, b, y) < qty} |->
     Lower(b[x], qty - Ahead(side, b, x))]

\* Broken: a level taken whole stays, with nothing in it.
ConsumedKept(b, fills) ==
  [x \in Levels(b) |-> IF x \in DOMAIN fills THEN b[x] - fills[x] ELSE b[x]]

\* A level taken whole is deleted.
Consumed(b, fills) ==
  [x \in {y \in Levels(b) : y \notin DOMAIN fills \/ fills[y] < b[y]} |->
     IF x \in DOMAIN fills THEN b[x] - fills[x] ELSE b[x]]

Count(side, what, q) == ledger' = [ledger EXCEPT ![side][what] = @ + q]

Op == ops < MaxOps /\ ops' = ops + 1

Add(side, x, q) ==
  /\ Op
  /\ LET b == resting[side]
     IN  resting' = [resting EXCEPT
           ![side] = With(b, x, (IF x \in Levels(b) THEN b[x] ELSE 0) + q)]
  /\ Count(side, "added", q)
  /\ last' = [last EXCEPT !.fresh = FALSE]

\* A quantity of 0 stands for None: the whole level.
Cancel(side, x, q) ==
  /\ Op
  /\ LET b == resting[side]
     IN  IF x \notin Levels(b) THEN UNCHANGED <<resting, ledger>>
         ELSE IF q = 0 \/ q >= b[x]
         THEN /\ resting' = [resting EXCEPT ![side] = Without(b, x)]
              /\ Count(side, "cancelled", b[x])
         ELSE /\ resting' = [resting EXCEPT ![side] = With(b, x, b[x] - q)]
              /\ Count(side, "cancelled", q)
  /\ last' = [last EXCEPT !.fresh = FALSE]

MatchMarket(side, q) ==
  /\ Op
  /\ LET b == resting[Opposite(side)]
         fills == Fills(side, b, q)
     IN  /\ resting' = [resting EXCEPT ![Opposite(side)] = Consumed(b, fills)]
         /\ Count(Opposite(side), "filled", Depth(fills))
         /\ last' = [fresh |-> TRUE, side |-> side, qty |-> q, fills |-> fills]

BookInit ==
  /\ resting = [s \in Sides |-> Empty]
  /\ ledger = [s \in Sides |-> [added |-> 0, cancelled |-> 0, filled |-> 0]]
  /\ last = [fresh |-> FALSE, side |-> 1, qty |-> 0, fills |-> Empty]
  /\ ops = 0

BookNext ==
  \E side \in Sides :
    \/ \E x \in Prices, q \in Quantities : Add(side, x, q)
    \/ \E x \in Prices, q \in Quantities \cup {0} : Cancel(side, x, q)
    \/ \E q \in Quantities : MatchMarket(side, q)

BookSpec == BookInit /\ [][BookNext]_limitbook

-----------------------------------------------------------------------------
(* Properties.                                                             *)

\* Nothing is created or lost: what was added on a side is resting, cancelled
\* or filled, and no level is left without quantity, not even the one a market
\* order ended on exactly.  (orderbook.py:42-79)
BookConserved ==
  \A s \in Sides :
    /\ ledger[s].added = Depth(resting[s]) + ledger[s].cancelled + ledger[s].filled
    /\ \A x \in Levels(resting[s]) : resting[s][x] > 0

\* A market order takes the best prices there are and all it can: no level
\* better than one it filled at is left, and it is short only of a side it
\* emptied.  (orderbook.py:57-79)
BestPricesFirst ==
  last.fresh =>
    LET left == resting[Opposite(last.side)]
    IN  /\ \A x \in Levels(left), y \in DOMAIN last.fills : ~Better(last.side, x, y)
        /\ Depth(last.fills) <= last.qty
        /\ Depth(last.fills) < last.qty => left = Empty
=============================================================================
