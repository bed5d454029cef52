------------------------------ MODULE ExecPlan ------------------------------
(***************************************************************************)
(* The arithmetic of the order executor (src/vfund/live/execute.py): what  *)
(* reconcile() plans from a snapshot of the account, what preflight()      *)
(* refuses, and in which order execute_plan() places what is left.         *)
(*                                                                         *)
(* Quantities are counted in units of the exchange's quantity precision    *)
(* and money in whole USDT; a weight is an integer over Scale.  The Python *)
(* floats of the source are exact rationals here, with one exception that  *)
(* matters: round_step_down() floors a float quotient, and an exact        *)
(* multiple of the step may come out just below itself and lose one step.  *)
(* It is called twice, by reconcile() and by fmt_qty(), and each call may  *)
(* lose one: closing 0.7 at a step of 0.1 plans 0.6 and sends 0.5.         *)
(*                                                                         *)
(* A snapshot v is the record of what one run has read: its target book    *)
(* v.book, and the account's v.equity, v.spec, v.price and v.held.         *)
(***************************************************************************)
EXTENDS Integers, FiniteSets, FiniteSetsExt

CONSTANTS
    Symbols,          \* perpetual symbols, numbered in the order sorted() puts them
    Scale,            \* a weight of 1.0
    MaxGross,         \* MAX_GROSS_EXPOSURE, over Scale
    MaxPosition,      \* MAX_SINGLE_POSITION_PCT, over Scale
    MinOrder,         \* MIN_ORDER_USDT
    ShortMultiples,   \* the k for which floor(round(k * step) / step) = k - 1
    LowDeltas         \* the <<target notional, position, price, step>> whose
                      \* distance in floats falls just below a multiple of the
                      \* step that it is exactly

ASSUME SymbolsAssumption == Symbols \subseteq Nat \ {0}
ASSUME ScaleAssumption == Scale \in Nat \ {0}
ASSUME LimitsAssumption ==
    /\ MaxGross \in Nat
    /\ MaxPosition \in Nat
    /\ MinOrder \in Nat \ {0}
ASSUME ShortAssumption ==
    /\ ShortMultiples \subseteq Nat \ {0, 1}
    /\ LowDeltas \subseteq Int \X Int \X Nat \X Nat

Sides == {"BUY", "SELL"}
Reasons == {"open_long", "open_short", "increase", "reduce", "close"}

\* SymbolSpec.  A symbol exchange_info() leaves out has listed = FALSE.
Spec1 == [listed: BOOLEAN, step: Nat \ {0}, minQty: Nat, minNotional: Nat]

Orders ==
    [sym: Symbols, side: Sides, qty: Nat, notional: Nat, reason: Reasons]

-----------------------------------------------------------------------------
Magnitude(x) == IF x < 0 THEN -x ELSE x

Larger(a, b) == IF a > b THEN a ELSE b

\* Broken: rounds to the next step up.
RoundStepUp(num, den, step, low) ==
    ((num + den * step - 1) \div (den * step)) * step

\* The largest multiple of step that is at most num / den, or the one before
\* it where num / den is a multiple and its float quotient is low.
RoundStepDown(num, den, step, low) ==
    LET k == num \div (den * step)
    IN IF low /\ k > 0 /\ num = k * (den * step) THEN (k - 1) * step ELSE k * step

\* Broken: makes up for the lost step without looking whether one was lost.
FmtQtyUp(qty, step) == qty + step

\* The quantity sent for a planned quantity.
FmtQty(qty, step) == RoundStepDown(qty, 1, step, qty \div step \in ShortMultiples)

\* target_qty - current_qty, times Scale * price so that it is an integer.
ScaledDelta(v, s) == v.book[s] * v.equity - v.held[s] * v.price[s] * Scale

\* Is abs(delta) / step just below the multiple it stands for?  A full close
\* divides what is held, the very floats that fmt_qty divides.
QuotientLow(v, s) ==
    LET target == v.book[s] * v.equity
        step == v.spec[s].step
    IN \/ target = 0 /\ Magnitude(v.held[s]) \div step \in ShortMultiples
       \/ target # 0 /\ <<target, v.held[s], v.price[s], step>> \in LowDeltas

OrderQty(v, s) ==
    RoundStepDown(Magnitude(ScaledDelta(v, s)), Scale * v.price[s], v.spec[s].step,
                  QuotientLow(v, s))

\* A missing ticker and a price of zero are both 0.
Tradeable(v, s) == v.price[s] > 0 /\ v.spec[s].listed

LargeEnough(v, s) ==
    /\ OrderQty(v, s) >= v.spec[s].minQty
    /\ OrderQty(v, s) * v.price[s] >= Larger(v.spec[s].minNotional, MinOrder)

Considered(v) == {s \in Symbols : v.book[s] # 0 \/ v.held[s] # 0}

Side(v, s) == IF ScaledDelta(v, s) > 0 THEN "BUY" ELSE "SELL"

\* Broken: an opening order does not say on which side it opens.
ReasonUnsided(v, s) ==
    IF v.held[s] = 0 THEN "open" ELSE IF v.book[s] = 0 THEN "close" ELSE "reduce"

Reason(v, s) ==
    CASE v.held[s] = 0 /\ Side(v, s) = "BUY" -> "open_long"
      [] v.held[s] = 0 /\ Side(v, s) = "SELL" -> "open_short"
      [] v.held[s] # 0 /\ v.book[s] = 0 -> "close"
      [] OTHER ->
           IF Magnitude(v.book[s] * v.equity)
                > Magnitude(v.held[s]) * v.price[s] * Scale
           THEN "increase" ELSE "reduce"

\* The order reconcile() plans for one symbol.
PlannedOrder(v, s) ==
    [sym |-> s,
     side |-> Side(v, s),
     qty |-> OrderQty(v, s),
     notional |-> OrderQty(v, s) * v.price[s],
     reason |-> Reason(v, s)]

Reconcile(v) ==
    {PlannedOrder(v, s) :
        s \in {t \in Considered(v) : Tradeable(v, t) /\ LargeEnough(v, t)}}

\* Only what can be traded counts: a held symbol without a price does not.
TargetGross(v) ==
    MapThenSumSet(LAMBDA s : Magnitude(v.book[s]),
                  {s \in Considered(v) : Tradeable(v, s)})

\* preflight() blocks the whole run.  The 15% limit is put to each ORDER.
Preflight(v, orders, killed) ==
    \/ killed
    \/ TargetGross(v) > MaxGross
    \/ v.equity <= 0
    \/ \E o \in orders : o.notional * Scale > MaxPosition * v.equity

\* Broken: symbol order alone.
BeforeBySymbol(o, p) == o.sym < p.sym

\* Full closes first, each group in symbol order.
Before(o, p) ==
    \/ o.reason = "close" /\ p.reason # "close"
    \/ (o.reason = "close" <=> p.reason = "close") /\ o.sym < p.sym

IsNext(o, orders) == o \in orders /\ \A p \in orders \ {o} : Before(o, p)

Signed(o) == IF o.side = "BUY" THEN o.qty ELSE -o.qty
=============================================================================
