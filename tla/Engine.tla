-------------------------------- MODULE Engine --------------------------------
(***************************************************************************)
(* The single-asset backtester (backtest/engine.py, portfolio.py,          *)
(* broker.py, strategy/base.py): at each bar the order asked for at the    *)
(* bar before is executed at the open, the account is marked at the close, *)
(* and the strategy is asked for the next target.                          *)
(*                                                                         *)
(* Bar i opens at time i and closes at time i + 1.  A target is a weight   *)
(* and the closing times it was decided from.  Prices, units, commission   *)
(* and slippage are left out, but for what they do to the sign of the      *)
(* account's value, which has no floor: a trade is a share of that value,  *)
(* so that an account below zero trades the other way round.               *)
(***************************************************************************)
EXTENDS Integers

CONSTANTS
    Length,         \* bars of data
    Fast, Slow,     \* the windows of the moving averages
    Asked           \* what a strategy may return, before it is clipped

ASSUME LengthAssumption == Length \in Nat
ASSUME WindowsAssumption == Fast \in Nat /\ Slow \in Nat /\ Fast < Slow
ASSUME AskedAssumption == Asked \subseteq Int

VARIABLES
    strategy,   \* hold, crossover or any
    bar,        \* i
    pending,    \* pending_target
    current,    \* current_target
    position,   \* the side held, and what its size was decided from
    worth,      \* the sign of the account's value at the last trade
    wanted      \* history: the last target that was not None, when and why

engine == <<strategy, bar, pending, current, position, worth, wanted>>

None == [none |-> TRUE]
Target(w, from) == [weight |-> w, from |-> from]
Nothing == Target(0, {})

Clip(x) == IF x > 1 THEN 1 ELSE IF x < -1 THEN -1 ELSE x

Sign(x) == IF x > 0 THEN 1 ELSE IF x < 0 THEN -1 ELSE 0

\* Broken: the next bar's close too.
SeenAhead(i) == 1 .. i + 2

\* What the context shows at bar i: closes[: i + 1].
Seen(i) == 1 .. i + 1

\* The closes of the last n bars at bar i.
LastCloses(i, n) == {x \in Seen(i) : x > i + 1 - n}

\* What on_bar may return at bar i: targets, or None.
OnBar(s, i) ==
  CASE s = "hold" -> {Target(1, {})}
    [] s = "crossover" ->
         IF i + 1 < Slow THEN {Target(0, {})}
         ELSE {Target(w, LastCloses(i, Fast) \cup LastCloses(i, Slow)) : w \in {-1, 0, 1}}
    [] OTHER -> {None} \cup {Target(w, Seen(i)) : w \in Asked}

Clipped(target) == [target EXCEPT !.weight = Clip(@)]

\* The sign of the account's value at an open.  The first trade is of the
\* initial cash, which is positive; the price takes an account that holds
\* something anywhere; the costs of the last trade come off a flat one.
EquityAtOpen ==
  IF position.from = {} THEN {worth}
  ELSE IF position.side # 0 THEN {-1, 0, 1}
  ELSE {e \in {-1, 0, 1} : e <= worth}

\* Trade to the target's share of an equity of sign e, at the open of bar i.
RebalanceTo(target, e, i) ==
  [side |-> Sign(target.weight) * e, from |-> target.from \cup {i}]

Start(s) ==
  /\ strategy = "none"
  /\ strategy' = s
  /\ UNCHANGED <<bar, pending, current, position, worth, wanted>>

\* Broken: the executed target is not remembered.
ExecutePendingForgets ==
  IF pending # None /\ pending.weight # current.weight
  THEN /\ worth' \in EquityAtOpen
       /\ position' = RebalanceTo(pending, worth', bar)
       /\ UNCHANGED current
  ELSE UNCHANGED <<position, worth, current>>

ExecutePending ==
  IF pending # None /\ pending.weight # current.weight
  THEN /\ worth' \in EquityAtOpen
       /\ position' = RebalanceTo(pending, worth', bar)
       /\ current' = pending
  ELSE UNCHANGED <<position, worth, current>>

Step ==
  /\ strategy # "none" /\ bar < Length
  /\ ExecutePending
  /\ \E target \in OnBar(strategy, bar) :
       IF target = None
       THEN pending' = None /\ UNCHANGED wanted
       ELSE /\ pending' = Clipped(target)
            /\ wanted' = [at |-> bar, target |-> Clipped(target), before |-> wanted.target]
  /\ bar' = bar + 1
  /\ UNCHANGED strategy

EngineInit ==
  /\ strategy = "none" /\ bar = 0
  /\ pending = None /\ current = Nothing
  /\ position = [side |-> 0, from |-> {}] /\ worth = 1
  /\ wanted = [at |-> -1, target |-> Nothing, before |-> Nothing]

Strategies1 == {"hold", "crossover", "any"}

EngineNext == Step \/ \E s \in Strategies1 : Start(s)

EngineSpec == EngineInit /\ [][EngineNext]_engine

-----------------------------------------------------------------------------
(* Properties.                                                             *)

\* One bar of delay and no look-ahead: the position held after bar i was
\* decided from closes of earlier bars and traded at an open not later than
\* i's, while the order that waits may know i's close.  (engine.py:73-102)
EngineCausal ==
  /\ \A x \in position.from : x < bar
  /\ pending # None => \A x \in pending.from : x <= bar

\* None leaves the target alone: the side held is that of the last target a
\* strategy asked for before the last bar, however many bars ago, and only the
\* last bar's own target is still to be executed.  It is the target's side if
\* the account was worth something when it was traded, the other side if it was
\* worth less than nothing.  (engine.py:77-102 and :141-142, base.py:82)
HoldsLastTarget ==
  LET due == IF wanted.at = bar - 1 THEN wanted.before ELSE wanted.target
  IN  /\ current.weight = due.weight
      /\ position.side = Sign(due.weight) * worth
      /\ pending # None => wanted.at = bar - 1 /\ pending = wanted.target
=============================================================================
