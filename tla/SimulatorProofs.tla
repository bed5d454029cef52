--------------------------- MODULE SimulatorProofs ---------------------------
(***************************************************************************)
(* Proofs about the three small simulators: the single-asset backtester    *)
(* (EngineCausal and HoldsLastTarget), the market-making loop              *)
(* (MakerPaysInformed) and the limit order book (BookConserved and         *)
(* BestPricesFirst), for every value of their constants.                   *)
(*                                                                         *)
(* The depth of a book is a fold over a finite set of prices.  What is     *)
(* proved of it goes by induction on finite sets: SubsetInduction, from    *)
(* the well-foundedness of the strict subset ordering.                     *)
(***************************************************************************)
EXTENDS Engine, MarketMaker, OrderBook, FiniteSetTheorems, TLAPS

-----------------------------------------------------------------------------
(* The single-asset backtester.                                            *)

Whens == SUBSET Int
Targets == [weight : {-1, 0, 1}, from : Whens]

\* A strategy that is asked at bar i sees closes up to i's.
Causal(target, i) == \A x \in target.from : x <= i

EngineTypeOK ==
  /\ strategy \in {"none"} \cup Strategies1
  /\ bar \in Nat
  /\ pending \in Targets \cup {None}
  /\ current \in Targets
  /\ position \in [side : {-1, 0, 1}, from : Whens]
  /\ worth \in {-1, 0, 1}
  /\ wanted \in [at : Int, target : Targets, before : Targets]

\* What the properties follow from: the last target is of an earlier bar, and
\* when no order waits, none was asked for at the last bar.
EngineInv ==
  /\ EngineTypeOK
  /\ EngineCausal
  /\ HoldsLastTarget
  /\ wanted.at < bar
  /\ pending = None => wanted.at # bar - 1 \/ wanted.before = wanted.target

-----------------------------------------------------------------------------
LEMMA AskedIsInt == Asked \subseteq Int
BY AskedAssumption

\* What a strategy returns at bar i was decided from closes up to bar i's.
LEMMA OnBarCausal ==
  ASSUME NEW s, NEW i \in Nat, NEW target \in OnBar(s, i), target # None
  PROVE  /\ Clipped(target) \in Targets
         /\ \A x \in Clipped(target).from : x <= i + 1
<1>1. PICK w \in Int, from \in SUBSET Int :
        target = Target(w, from) /\ \A x \in from : x <= i + 1
  <2>1. CASE s = "hold"
    BY <2>1 DEF OnBar, Target
  <2>2. CASE s = "crossover"
    BY <2>2 DEF OnBar, Target, LastCloses, Seen
  <2>3. CASE s \notin {"hold", "crossover"}
    BY <2>3, AskedIsInt DEF OnBar, Target, Seen
  <2> QED
    BY <2>1, <2>2, <2>3
<1>2. Clipped(target) = [weight |-> Clip(w), from |-> from]
  BY <1>1 DEF Clipped, Target
<1>3. Clip(w) \in {-1, 0, 1}
  BY <1>1 DEF Clip
<1>4. Clipped(target).from = from /\ \A x \in from : x <= i + 1
  BY <1>1, <1>2
<1>5. \A u \in {-1, 0, 1} : [weight |-> u, from |-> from] \in Targets
  BY <1>1 DEF Targets, Whens
<1>6. Clipped(target) \in Targets
  BY <1>2, <1>3, <1>5
<1> QED
  BY <1>4, <1>6

\* The side of a trade: its target's, turned round by a value below zero.
LEMMA SignTimes ==
  ASSUME NEW x, NEW e \in {-1, 0, 1}
  PROVE  Sign(x) * e \in {-1, 0, 1}
<1>1. Sign(x) \in {-1, 0, 1}
  BY DEF Sign
<1> HIDE DEF Sign
<1> QED
  BY <1>1

\* After the pending order the account holds the last target there was.
LEMMA Executed ==
  ASSUME EngineInv, ExecutePending
  PROVE  /\ current' \in Targets
         /\ position' \in [side : {-1, 0, 1}, from : Whens]
         /\ worth' \in {-1, 0, 1}
         /\ current'.weight = wanted.target.weight
         /\ position'.side = Sign(wanted.target.weight) * worth'
         /\ \A x \in position'.from : x < bar + 1
<1>1. EngineTypeOK /\ EngineCausal /\ HoldsLastTarget
  BY DEF EngineInv
<1>2. CASE pending # None /\ pending.weight # current.weight
  <2>0. worth' \in {-1, 0, 1}
    BY <1>1, <1>2 DEF ExecutePending, EquityAtOpen, EngineTypeOK
  <2>1. position' = [side |-> Sign(pending.weight) * worth', from |-> pending.from \cup {bar}]
    BY <1>2 DEF ExecutePending, RebalanceTo
  <2>2. current' = pending /\ pending = wanted.target /\ pending \in Targets
    BY <1>1, <1>2 DEF ExecutePending, HoldsLastTarget, EngineTypeOK
  <2>3. Sign(pending.weight) * worth' \in {-1, 0, 1}
    BY <2>0, SignTimes
  <2>4. \A x \in pending.from \cup {bar} : x \in Int /\ x < bar + 1
    BY <1>1, <1>2, <2>2 DEF EngineCausal, EngineTypeOK, Targets, Whens
  <2> QED
    BY <2>0, <2>1, <2>2, <2>3, <2>4 DEF Whens
<1>3. CASE pending # None /\ pending.weight = current.weight
  <2>1. current' = current /\ position' = position /\ worth' = worth /\ pending = wanted.target
    BY <1>1, <1>3 DEF ExecutePending, HoldsLastTarget
  <2>2. position.side = Sign(current.weight) * worth
    BY <1>1 DEF HoldsLastTarget
  <2>3. \A x \in position.from : x < bar + 1
    BY <1>1 DEF EngineCausal, EngineTypeOK, Whens
  <2> QED
    BY <1>1, <1>3, <2>1, <2>2, <2>3 DEF EngineTypeOK
<1>4. CASE pending = None
  <2>1. current' = current /\ position' = position /\ worth' = worth
    BY <1>4 DEF ExecutePending
  <2>2. current.weight = wanted.target.weight /\ position.side = Sign(wanted.target.weight) * worth
    BY <1>1, <1>4 DEF HoldsLastTarget, EngineInv
  <2>3. \A x \in position.from : x < bar + 1
    BY <1>1 DEF EngineCausal, EngineTypeOK, Whens
  <2> QED
    BY <1>1, <2>1, <2>2, <2>3 DEF EngineTypeOK
<1> QED
  BY <1>2, <1>3, <1>4

-----------------------------------------------------------------------------
LEMMA EngineInitInv == EngineInit => EngineInv
<1> SUFFICES ASSUME EngineInit PROVE EngineInv
  OBVIOUS
<1>1. Nothing \in Targets /\ Nothing.weight = 0 /\ Sign(0) = 0 /\ Sign(0) * 1 = 0
  BY DEF Nothing, Target, Targets, Whens, Sign
<1> QED
  BY <1>1 DEF EngineInit, EngineInv, EngineTypeOK, EngineCausal, HoldsLastTarget, Whens

LEMMA StartKeeps ==
  ASSUME EngineInv, NEW s \in Strategies1, Start(s)
  PROVE  EngineInv'
BY DEF Start, EngineInv, EngineTypeOK, EngineCausal, HoldsLastTarget

LEMMA StepKeeps ==
  ASSUME EngineInv, Step
  PROVE  EngineInv'
<1>1. PICK target \in OnBar(strategy, bar) :
        IF target = None
        THEN pending' = None /\ UNCHANGED wanted
        ELSE /\ pending' = Clipped(target)
             /\ wanted' = [at |-> bar, target |-> Clipped(target), before |-> wanted.target]
  BY DEF Step
<1>2. bar \in Nat /\ bar' = bar + 1 /\ strategy' = strategy /\ ExecutePending
  BY DEF Step, EngineInv, EngineTypeOK
<1>3. /\ current' \in Targets
      /\ position' \in [side : {-1, 0, 1}, from : Whens]
      /\ worth' \in {-1, 0, 1}
      /\ current'.weight = wanted.target.weight
      /\ position'.side = Sign(wanted.target.weight) * worth'
      /\ \A x \in position'.from : x < bar + 1
  BY <1>2, Executed
<1>4. /\ wanted \in [at : Int, target : Targets, before : Targets]
      /\ strategy \in {"none"} \cup Strategies1
      /\ wanted.at < bar
  BY DEF EngineInv, EngineTypeOK
<1>5. CASE target = None
  <2>1. pending' = None /\ wanted' = wanted /\ wanted.at # bar' - 1
    BY <1>1, <1>2, <1>4, <1>5
  <2>2. EngineTypeOK'
    BY <1>2, <1>3, <1>4, <2>1 DEF EngineTypeOK
  <2>3. EngineCausal'
    BY <1>2, <1>3, <2>1 DEF EngineCausal
  <2>4. HoldsLastTarget'
    BY <1>3, <2>1 DEF HoldsLastTarget
  <2> QED
    BY <1>2, <1>4, <2>1, <2>2, <2>3, <2>4 DEF EngineInv
<1>6. CASE target # None
  <2>1. /\ Clipped(target) \in Targets
        /\ \A x \in Clipped(target).from : x <= bar + 1
    BY <1>2, <1>6, OnBarCausal
  <2>2. /\ pending' = Clipped(target)
        /\ wanted' = [at |-> bar, target |-> Clipped(target), before |-> wanted.target]
    BY <1>1, <1>6
  <2>3. EngineTypeOK'
    BY <1>2, <1>3, <1>4, <2>1, <2>2 DEF EngineTypeOK
  <2>4. EngineCausal'
    BY <1>2, <1>3, <2>1, <2>2 DEF EngineCausal
  <2>5. wanted'.at = bar' - 1 /\ wanted'.before = wanted.target /\ wanted'.target = pending'
    BY <1>2, <2>2
  <2>6. HoldsLastTarget'
    BY <1>3, <2>5 DEF HoldsLastTarget
  <2>7. pending' # None
    BY <2>1, <2>2 DEF None, Targets
  <2> QED
    BY <1>2, <2>2, <2>3, <2>4, <2>6, <2>7 DEF EngineInv
<1> QED
  BY <1>5, <1>6

LEMMA EngineNextKeeps == EngineInv /\ [EngineNext]_engine => EngineInv'
<1> SUFFICES ASSUME EngineInv, [EngineNext]_engine PROVE EngineInv'
  OBVIOUS
<1>1. CASE Step
  BY <1>1, StepKeeps
<1>2. CASE \E s \in Strategies1 : Start(s)
  BY <1>2, StartKeeps
<1>3. CASE UNCHANGED engine
  BY <1>3 DEF engine, EngineInv, EngineTypeOK, EngineCausal, HoldsLastTarget
<1> QED
  BY <1>1, <1>2, <1>3 DEF EngineNext

\* The order, the position and the last target stay tied together, whatever
\* the strategy asks for.  (engine.py:73-102)
THEOREM EngineInductive == EngineSpec => []EngineInv
<1> QED
  BY EngineInitInv, EngineNextKeeps, PTL DEF EngineSpec

\* One bar of delay and no look-ahead, for any length of data, any windows and
\* any strategy that sees what the context shows it.  (engine.py:73-102)
THEOREM EngineCausalHolds == EngineSpec => []EngineCausal
<1>1. EngineInv => EngineCausal
  BY DEF EngineInv
<1> QED
  BY <1>1, EngineInductive, PTL

\* The side held is that of the last target asked for before the last bar, or
\* its opposite if the account was worth less than nothing when it was traded,
\* for any strategy, however often it returns None.
\* (engine.py:77-102 and :141-142, base.py:82)
THEOREM HoldsLastTargetAlways == EngineSpec => []HoldsLastTarget
<1>1. EngineInv => HoldsLastTarget
  BY DEF EngineInv
<1> QED
  BY <1>1, EngineInductive, PTL
-----------------------------------------------------------------------------
(* The market-making loop.                                                 *)

Gone(quote) == quote \notin quotes

\* What the quotes that are gone have earned, and how many they are.
EarnedByQuotes ==
  (IF Gone("ask") THEN halfSpread - move ELSE 0) + (IF Gone("bid") THEN move + halfSpread ELSE 0)
QuotesGone == (IF Gone("ask") THEN 1 ELSE 0) + (IF Gone("bid") THEN 1 ELSE 0)

MakerTypeOK ==
  /\ halfSpread \in Nat
  /\ move \in Int
  /\ quotes \subseteq BothQuotes
  /\ filled \in [pnl : Int, n : Nat, informed : Int, informedN : Nat]

\* A quote is filled once: the fills are those of the quotes that are gone.
MakerInv ==
  /\ MakerTypeOK
  /\ filled.pnl = EarnedByQuotes
  /\ filled.n = QuotesGone
  /\ filled.informed <= halfSpread * filled.informedN

-----------------------------------------------------------------------------
\* An order is a buy or a sell, and an informed one loses the move.
LEMMA SideEarns ==
  ASSUME MakerTypeOK, NEW order \in Kinds
  PROVE  /\ Side(order) \in {"buy", "sell"}
         /\ Earned(Side(order)) \in Int
         /\ order = "informed" => Earned(Side(order)) <= halfSpread
BY DEF MakerTypeOK, Kinds, Side, Earned

LEMMA MakerInitInv == MakerInit => MakerInv
BY DEF MakerInit, MakerInv, MakerTypeOK, EarnedByQuotes, QuotesGone, Gone, BothQuotes, NoFills

LEMMA NextStepKeeps == ASSUME MakerInv, NextStep PROVE MakerInv'
<1>1. halfSpread' \in Nat /\ move' \in Int
  BY SpreadsAssumption, MovesAssumption DEF NextStep, MakerInv, MakerTypeOK
<1>2. quotes' = BothQuotes /\ filled' = NoFills
  BY DEF NextStep
<1>3. MakerTypeOK'
  BY <1>1, <1>2 DEF MakerTypeOK, NoFills
<1>4. \A h \in Nat : 0 <= h * 0
  OBVIOUS
<1>5. filled'.informed <= halfSpread' * filled'.informedN
  BY <1>1, <1>2, <1>4 DEF NoFills
<1>6. filled'.pnl = EarnedByQuotes' /\ filled'.n = QuotesGone'
  BY <1>2 DEF EarnedByQuotes, QuotesGone, Gone, BothQuotes, NoFills
<1> QED
  BY <1>3, <1>5, <1>6 DEF MakerInv

\* A fill moves the earnings and the counts by what its quote earns.
LEMMA FillKeeps ==
  ASSUME MakerInv, NEW order \in Kinds, Order(order), Quote(Side(order)) \in quotes
  PROVE  MakerInv'
<1> DEFINE pnl == Earned(Side(order))
           k == IF order = "informed" THEN 1 ELSE 0
<1>1. MakerTypeOK /\ halfSpread' = halfSpread /\ move' = move
  BY DEF MakerInv, Order
<1>2. filled' = [pnl |-> filled.pnl + pnl, n |-> filled.n + 1,
                 informed |-> filled.informed + IF order = "informed" THEN pnl ELSE 0,
                 informedN |-> filled.informedN + k]
  BY DEF Order, Counted
<1>3. quotes' = quotes \ {Quote(Side(order))}
  BY DEF Order
<1>4. MakerTypeOK'
  BY <1>1, <1>2, <1>3, SideEarns DEF MakerTypeOK
<1>5. filled'.pnl = EarnedByQuotes' /\ filled'.n = QuotesGone'
  <2>1. CASE Side(order) = "buy"
    <3>1. "ask" \in quotes /\ "ask" \notin quotes' /\ ("bid" \in quotes' <=> "bid" \in quotes)
      BY <1>3, <2>1 DEF Quote
    <3>2. pnl = halfSpread - move
      BY <2>1 DEF Earned
    <3> QED
      BY <1>1, <1>2, <3>1, <3>2 DEF MakerInv, MakerTypeOK, EarnedByQuotes, QuotesGone, Gone
  <2>2. CASE Side(order) = "sell"
    <3>1. "bid" \in quotes /\ "bid" \notin quotes' /\ ("ask" \in quotes' <=> "ask" \in quotes)
      BY <1>3, <2>2 DEF Quote
    <3>2. pnl = move + halfSpread
      BY <2>2 DEF Earned
    <3> QED
      BY <1>1, <1>2, <3>1, <3>2 DEF MakerInv, MakerTypeOK, EarnedByQuotes, QuotesGone, Gone
  <2> QED
    BY <1>1, <2>1, <2>2, SideEarns
<1>6. filled'.informed <= halfSpread * filled'.informedN
  <2>1. /\ halfSpread \in Nat /\ filled.informed \in Int /\ filled.informedN \in Nat
        /\ filled.informed <= halfSpread * filled.informedN
    BY DEF MakerInv, MakerTypeOK
  <2>2. CASE order = "informed"
    <3>1. pnl \in Int /\ pnl <= halfSpread
      BY <1>1, <2>2, SideEarns
    <3>2. halfSpread * (filled.informedN + 1) = halfSpread * filled.informedN + halfSpread
      BY <2>1
    <3>3. halfSpread * filled.informedN \in Int
      BY <2>1
    <3>4. filled'.informed = filled.informed + pnl /\ filled'.informedN = filled.informedN + 1
      BY <1>2, <2>2
    <3> HIDE DEF pnl
    <3> QED
      BY <2>1, <3>1, <3>2, <3>3, <3>4
  <2>3. CASE order # "informed"
    BY <1>2, <2>1, <2>3
  <2> QED
    BY <2>2, <2>3
<1> QED
  BY <1>1, <1>4, <1>5, <1>6 DEF MakerInv

\* An order whose quote is gone changes nothing but the queue.
LEMMA OrderKeeps == ASSUME MakerInv, NEW order \in Kinds, Order(order) PROVE MakerInv'
<1>1. CASE Quote(Side(order)) \in quotes
  BY <1>1, FillKeeps
<1>2. CASE Quote(Side(order)) \notin quotes
  <2>1. quotes' = quotes /\ filled' = filled /\ halfSpread' = halfSpread /\ move' = move
    BY <1>2 DEF Order
  <2> QED
    BY <2>1 DEF MakerInv, MakerTypeOK, EarnedByQuotes, QuotesGone, Gone
<1> QED
  BY <1>1, <1>2

LEMMA MakerNextKeeps == MakerInv /\ [MakerNext]_maker => MakerInv'
<1> SUFFICES ASSUME MakerInv, [MakerNext]_maker PROVE MakerInv'
  OBVIOUS
<1>1. CASE NextStep
  BY <1>1, NextStepKeeps
<1>2. CASE \E order \in Kinds : Order(order)
  BY <1>2, OrderKeeps
<1>3. CASE UNCHANGED maker
  BY <1>3 DEF maker, MakerInv, MakerTypeOK, EarnedByQuotes, QuotesGone, Gone
<1> QED
  BY <1>1, <1>2, <1>3 DEF MakerNext

\* The fills of a step are those of the quotes that are gone, and the informed
\* ones lost what the value moved.  (simulator.py:97-124)
THEOREM MakerInductive == MakerSpec => []MakerInv
<1> QED
  BY MakerInitInv, MakerNextKeeps, PTL DEF MakerSpec

\* Adverse selection, and exactly the spread when both quotes are filled, for
\* any half spread, any move and any number of orders.  (simulator.py:97-124)
THEOREM MakerPaysInformedAlways == MakerSpec => []MakerPaysInformed
<1>1. MakerInv => MakerPaysInformed
  BY DEF MakerInv, MakerTypeOK, MakerPaysInformed, EarnedByQuotes, QuotesGone, Gone
<1> QED
  BY <1>1, MakerInductive, PTL

-----------------------------------------------------------------------------
(* Sums over finite sets.                                                  *)

Sum(f, S) == FoldFunctionOnSet(+, 0, f, S)

\* Induction on the subsets of a finite set, for a set G in place of a
\* predicate: what holds of a set when it holds of its proper subsets.
LEMMA SubsetInduction ==
  ASSUME NEW S, IsFiniteSet(S), NEW G,
         \A s \in SUBSET S : (\A r \in SUBSET s : r # s => r \in G) => s \in G
  PROVE  S \in G
<1> DEFINE bad == {s \in SUBSET S : s \notin G}
<1> SUFFICES ASSUME bad # {} PROVE FALSE
  OBVIOUS
<1>1. bad \subseteq FiniteSubsetsOf(S)
  BY FS_FiniteSubsetsOfFinite
<1>2. PICK m \in bad : \A y \in bad : ~(<<y, m>> \in StrictSubsetOrdering(S))
  <2> HIDE DEF bad
  <2> QED BY <1>1, FS_StrictSubsetOrderingWellFounded, WFMin
<1>3. \A r \in SUBSET m : r # m => r \in G
  BY <1>2 DEF StrictSubsetOrdering
<1> QED
  BY <1>2, <1>3

Pick(s) == CHOOSE y \in s : TRUE

\* What is picked of a set that is not empty is in it.
LEMMA PickIn == \A s : s # {} => Pick(s) \in s
BY DEF Pick

\* The equation behind the fold, on the subsets of S.
Unfolds(g, f, S) ==
  g = [s \in SUBSET S |-> IF s = {} THEN 0 ELSE f[Pick(s)] + g[s \ {Pick(s)}]]

\* A sum is the value at its set of the function the fold chooses.
LEMMA SumIs ==
  ASSUME NEW f, NEW S
  PROVE  Sum(f, S) = (CHOOSE g : Unfolds(g, f, S))[S]
BY DEF Sum, FoldFunctionOnSet, MapThenFoldSet, Unfolds, Pick

\* The equation, at one subset.
LEMMA UnfoldsAt ==
  ASSUME NEW f, NEW S, NEW g, Unfolds(g, f, S), NEW s \in SUBSET S
  PROVE  /\ s = {} => g[s] = 0
         /\ s # {} => g[s] = f[Pick(s)] + g[s \ {Pick(s)}]
BY DEF Unfolds

\* Two solutions agree where both are defined.
LEMMA UnfoldsOnce ==
  ASSUME NEW f, NEW A, NEW B, NEW g, NEW h, Unfolds(g, f, A), Unfolds(h, f, B),
         NEW S, IsFiniteSet(S), S \subseteq A, S \subseteq B
  PROVE  g[S] = h[S]
<1> DEFINE G == {s \in SUBSET S : g[s] = h[s]}
<1>1. ASSUME NEW s \in SUBSET S, \A r \in SUBSET s : r # s => r \in G
      PROVE  s \in G
  <2> DEFINE x == Pick(s)
  <2>1. CASE s = {}
    <3>1. g[s] = 0 /\ h[s] = 0
      BY <2>1, UnfoldsAt
    <3> QED BY <3>1
  <2>2. CASE s # {}
    <3>1. x \in s
      BY <2>2, PickIn
    <3>2. g[s \ {x}] = h[s \ {x}]
      BY <3>1, <1>1
    <3>3. s \in SUBSET A /\ s \in SUBSET B
      OBVIOUS
    <3>4. g[s] = f[x] + g[s \ {x}]
      BY <2>2, <3>3, UnfoldsAt
    <3>5. h[s] = f[x] + h[s \ {x}]
      BY <2>2, <3>3, UnfoldsAt
    <3> QED BY <3>2, <3>4, <3>5
  <2> QED BY <2>1, <2>2
<1> HIDE DEF G
<1>2. S \in G
  BY <1>1, SubsetInduction
<1> QED BY <1>2 DEF G

\* And there is one.
LEMMA UnfoldsExists ==
  ASSUME NEW f, NEW S, IsFiniteSet(S)
  PROVE  \E g : Unfolds(g, f, S)
<1> DEFINE G == {s \in SUBSET S : \E g : Unfolds(g, f, s)}
<1>1. ASSUME NEW s \in SUBSET S, \A r \in SUBSET s : r # s => r \in G
      PROVE  s \in G
  <2> DEFINE g == [r \in SUBSET s |-> IF r = {} THEN 0 ELSE f[Pick(r)] + Sum(f, r \ {Pick(r)})]
  <2>1. ASSUME NEW q \in SUBSET s, q # s
        PROVE  g[q] = Sum(f, q)
    <3>1. PICK h : Unfolds(h, f, q) /\ Sum(f, q) = h[q]
      BY <1>1, <2>1, SumIs DEF G
    <3>2. CASE q = {}
      BY <3>1, <3>2, UnfoldsAt
    <3>3. CASE q # {}
      <4>1. Pick(q) \in q
        BY <3>3, PickIn
      <4>2. q \ {Pick(q)} \in SUBSET s /\ q \ {Pick(q)} # s /\ q \ {Pick(q)} \subseteq q
        BY <4>1
      <4>3. PICK k : Unfolds(k, f, q \ {Pick(q)}) /\ Sum(f, q \ {Pick(q)}) = k[q \ {Pick(q)}]
        BY <4>2, <1>1, SumIs DEF G
      <4>4. IsFiniteSet(q \ {Pick(q)})
        BY FS_Subset
      <4>5. k[q \ {Pick(q)}] = h[q \ {Pick(q)}]
        BY <3>1, <4>2, <4>3, <4>4, UnfoldsOnce
      <4>6. h[q] = f[Pick(q)] + h[q \ {Pick(q)}]
        BY <3>1, <3>3, UnfoldsAt
      <4> QED BY <3>1, <3>3, <4>3, <4>5, <4>6
    <3> QED BY <3>2, <3>3
  <2>2. ASSUME NEW r \in SUBSET s, r # {}
        PROVE  g[r \ {Pick(r)}] = Sum(f, r \ {Pick(r)})
    <3>1. Pick(r) \in r
      BY <2>2, PickIn
    <3>2. r \ {Pick(r)} \in SUBSET s /\ r \ {Pick(r)} # s
      BY <3>1
    <3> QED BY <3>2, <2>1
  <2>3. g = [r \in SUBSET s |-> IF r = {} THEN 0 ELSE f[Pick(r)] + g[r \ {Pick(r)}]]
    BY <2>2
  <2>4. Unfolds(g, f, s)
    <3> HIDE DEF g
    <3> QED BY <2>3 DEF Unfolds
  <2> QED BY <2>4
<1> HIDE DEF G
<1>2. S \in G
  BY <1>1, SubsetInduction
<1> QED BY <1>2 DEF G

\* The sums of the subsets are a solution.
LEMMA SumSolves ==
  ASSUME NEW f, NEW S, IsFiniteSet(S)
  PROVE  \E g : Unfolds(g, f, S) /\ \A s \in SUBSET S : g[s] = Sum(f, s)
<1>1. PICK g : Unfolds(g, f, S)
  BY UnfoldsExists
<1>2. ASSUME NEW s \in SUBSET S PROVE g[s] = Sum(f, s)
  <2>1. IsFiniteSet(s)
    BY FS_Subset
  <2>2. PICK h : Unfolds(h, f, s) /\ Sum(f, s) = h[s]
    BY <2>1, UnfoldsExists, SumIs
  <2> QED BY <1>1, <2>1, <2>2, UnfoldsOnce
<1> QED BY <1>1, <1>2

\* Nothing sums to 0.
LEMMA SumEmpty == \A f : Sum(f, {}) = 0
<1> TAKE f
<1>1. PICK g : Unfolds(g, f, {}) /\ \A s \in SUBSET {} : g[s] = Sum(f, s)
  BY FS_EmptySet, SumSolves
<1> QED BY <1>1, UnfoldsAt

\* The equation, for sums.
LEMMA SumPick ==
  ASSUME NEW f, NEW S, IsFiniteSet(S), S # {}
  PROVE  Sum(f, S) = f[Pick(S)] + Sum(f, S \ {Pick(S)})
<1>1. PICK g : Unfolds(g, f, S) /\ \A s \in SUBSET S : g[s] = Sum(f, s)
  BY SumSolves
<1>2. S \in SUBSET S /\ S \ {Pick(S)} \in SUBSET S
  OBVIOUS
<1>3. g[S] = f[Pick(S)] + g[S \ {Pick(S)}]
  BY <1>1, <1>2, UnfoldsAt
<1> QED BY <1>1, <1>2, <1>3

IntegersOn(f, S) == \A x \in S : f[x] \in Int

\* A sum of integers is one.
LEMMA SumType ==
  ASSUME NEW f, NEW S, IsFiniteSet(S), IntegersOn(f, S)
  PROVE  Sum(f, S) \in Int
<1> DEFINE G == {s \in SUBSET S : Sum(f, s) \in Int}
<1>1. ASSUME NEW s \in SUBSET S, \A r \in SUBSET s : r # s => r \in G
      PROVE  s \in G
  <2>1. CASE s = {}
    BY <2>1, SumEmpty
  <2>2. CASE s # {}
    <3>1. Pick(s) \in s /\ s \ {Pick(s)} \in SUBSET s /\ s \ {Pick(s)} # s
      BY <2>2, PickIn
    <3>2. IsFiniteSet(s)
      BY FS_Subset
    <3>3. Sum(f, s) = f[Pick(s)] + Sum(f, s \ {Pick(s)})
      BY <2>2, <3>2, SumPick
    <3>4. f[Pick(s)] \in Int /\ Sum(f, s \ {Pick(s)}) \in Int
      BY <1>1, <3>1 DEF IntegersOn
    <3> QED BY <3>3, <3>4
  <2> QED BY <2>1, <2>2
<1> HIDE DEF G
<1>2. S \in G
  BY <1>1, SubsetInduction
<1> QED BY <1>2 DEF G

\* Any element may be split off.
LEMMA SumSplit ==
  ASSUME NEW f, NEW S, IsFiniteSet(S), IntegersOn(f, S), NEW x \in S
  PROVE  Sum(f, S) = f[x] + Sum(f, S \ {x})
<1> DEFINE G == {s \in SUBSET S : \A z \in s : Sum(f, s) = f[z] + Sum(f, s \ {z})}
<1>1. ASSUME NEW s \in SUBSET S, \A r \in SUBSET s : r # s => r \in G
      PROVE  s \in G
  <2> SUFFICES ASSUME NEW z \in s PROVE Sum(f, s) = f[z] + Sum(f, s \ {z})
    OBVIOUS
  <2> DEFINE y == Pick(s)
             rest == s \ {y, z}
  <2>1. y \in s
    BY PickIn
  <2>2. IsFiniteSet(s)
    BY FS_Subset
  <2>3. Sum(f, s) = f[y] + Sum(f, s \ {y})
    BY <2>2, SumPick
  <2>4. CASE y # z
    <3>1. Sum(f, s \ {y}) = f[z] + Sum(f, (s \ {y}) \ {z})
      BY <1>1, <2>1, <2>4
    <3>2. Sum(f, s \ {z}) = f[y] + Sum(f, (s \ {z}) \ {y})
      BY <1>1, <2>1, <2>4
    <3>3. (s \ {y}) \ {z} = rest /\ (s \ {z}) \ {y} = rest
      OBVIOUS
    <3>4. IsFiniteSet(rest) /\ IntegersOn(f, rest)
      BY <2>2, FS_Subset DEF IntegersOn
    <3>5. f[y] \in Int /\ f[z] \in Int /\ Sum(f, rest) \in Int
      BY <2>1, <3>4, SumType DEF IntegersOn
    <3>6. Sum(f, s \ {y}) = f[z] + Sum(f, rest) /\ Sum(f, s \ {z}) = f[y] + Sum(f, rest)
      BY <3>1, <3>2, <3>3
    <3> HIDE DEF y, rest
    <3> QED BY <2>3, <3>5, <3>6
  <2>5. CASE y = z
    BY <2>3, <2>5
  <2> QED BY <2>4, <2>5
<1> HIDE DEF G
<1>2. S \in G
  BY <1>1, SubsetInduction
<1> QED BY <1>2 DEF G

\* An element more is its value more.
LEMMA SumAdd ==
  ASSUME NEW f, NEW S, IsFiniteSet(S), IntegersOn(f, S), NEW x, x \notin S, f[x] \in Int
  PROVE  Sum(f, S \cup {x}) = f[x] + Sum(f, S)
<1>1. IsFiniteSet(S \cup {x}) /\ IntegersOn(f, S \cup {x}) /\ (S \cup {x}) \ {x} = S
  BY FS_AddElement DEF IntegersOn
<1> QED BY <1>1, SumSplit

\* A sum is of the values alone.
LEMMA SumSame ==
  ASSUME NEW f, NEW g, NEW S, IsFiniteSet(S), \A x \in S : f[x] = g[x]
  PROVE  Sum(f, S) = Sum(g, S)
<1> DEFINE G == {s \in SUBSET S : Sum(f, s) = Sum(g, s)}
<1>1. ASSUME NEW s \in SUBSET S, \A r \in SUBSET s : r # s => r \in G
      PROVE  s \in G
  <2>1. CASE s = {}
    BY <2>1, SumEmpty
  <2>2. CASE s # {}
    <3>1. Pick(s) \in s /\ s \ {Pick(s)} \in SUBSET s /\ s \ {Pick(s)} # s
      BY <2>2, PickIn
    <3>2. IsFiniteSet(s)
      BY FS_Subset
    <3>3. Sum(f, s) = f[Pick(s)] + Sum(f, s \ {Pick(s)})
      BY <2>2, <3>2, SumPick
    <3>4. Sum(g, s) = g[Pick(s)] + Sum(g, s \ {Pick(s)})
      BY <2>2, <3>2, SumPick
    <3>5. f[Pick(s)] = g[Pick(s)] /\ Sum(f, s \ {Pick(s)}) = Sum(g, s \ {Pick(s)})
      BY <1>1, <3>1
    <3> QED BY <3>3, <3>4, <3>5
  <2> QED BY <2>1, <2>2
<1> HIDE DEF G
<1>2. S \in G
  BY <1>1, SubsetInduction
<1> QED BY <1>2 DEF G

PositiveOn(f, S) == \A x \in S : f[x] \in Int /\ f[x] > 0

\* More of a positive function is more, and a part is at most the whole.
LEMMA SumPart ==
  ASSUME NEW f, NEW S, IsFiniteSet(S), PositiveOn(f, S), NEW T \in SUBSET S
  PROVE  Sum(f, T) <= Sum(f, S)
<1> DEFINE G == {s \in SUBSET S : T \subseteq s => Sum(f, T) <= Sum(f, s)}
<1>1. ASSUME NEW s \in SUBSET S, \A r \in SUBSET s : r # s => r \in G
      PROVE  s \in G
  <2> SUFFICES ASSUME T \subseteq s PROVE Sum(f, T) <= Sum(f, s)
    OBVIOUS
  <2>1. IsFiniteSet(s) /\ IntegersOn(f, s) /\ IsFiniteSet(T) /\ IntegersOn(f, T)
    BY FS_Subset DEF PositiveOn, IntegersOn
  <2>2. Sum(f, T) \in Int
    BY <2>1, SumType
  <2>3. CASE s = T
    BY <2>2, <2>3
  <2>4. CASE s # T
    <3>1. PICK x \in s : x \notin T
      BY <2>4
    <3>2. Sum(f, s) = f[x] + Sum(f, s \ {x})
      BY <2>1, SumSplit
    <3>3. Sum(f, T) <= Sum(f, s \ {x})
      BY <1>1, <3>1
    <3>4. IsFiniteSet(s \ {x}) /\ IntegersOn(f, s \ {x})
      BY <2>1, FS_Subset DEF IntegersOn
    <3>5. Sum(f, s \ {x}) \in Int /\ f[x] \in Int /\ f[x] > 0
      BY <3>4, SumType DEF PositiveOn
    <3> QED BY <2>2, <3>2, <3>3, <3>5
  <2> QED BY <2>3, <2>4
<1> HIDE DEF G
<1>2. S \in G
  BY <1>1, SubsetInduction
<1> QED BY <1>2 DEF G

\* What has no value outside T sums over T as over the whole.
LEMMA SumZeros ==
  ASSUME NEW f, NEW S, IsFiniteSet(S), IntegersOn(f, S), NEW T \in SUBSET S,
         \A x \in S \ T : f[x] = 0
  PROVE  Sum(f, S) = Sum(f, T)
<1> DEFINE G == {s \in SUBSET S : T \subseteq s => Sum(f, s) = Sum(f, T)}
<1>1. ASSUME NEW s \in SUBSET S, \A r \in SUBSET s : r # s => r \in G
      PROVE  s \in G
  <2> SUFFICES ASSUME T \subseteq s, s # T PROVE Sum(f, s) = Sum(f, T)
    OBVIOUS
  <2>1. PICK x \in s : x \notin T
    OBVIOUS
  <2>2. IsFiniteSet(s) /\ IntegersOn(f, s)
    BY FS_Subset DEF IntegersOn
  <2>3. Sum(f, s) = f[x] + Sum(f, s \ {x})
    BY <2>2, SumSplit
  <2>4. Sum(f, s \ {x}) = Sum(f, T)
    BY <1>1, <2>1
  <2>5. IsFiniteSet(T) /\ IntegersOn(f, T)
    BY FS_Subset DEF IntegersOn
  <2>6. f[x] = 0 /\ Sum(f, T) \in Int
    BY <2>1, <2>5, SumType
  <2> QED BY <2>3, <2>4, <2>6
<1> HIDE DEF G
<1>2. S \in G
  BY <1>1, SubsetInduction
<1> QED BY <1>2 DEF G

\* A sum of two is the two sums.
LEMMA SumOfTwo ==
  ASSUME NEW f, NEW g, NEW h, NEW S, IsFiniteSet(S), IntegersOn(g, S), IntegersOn(h, S),
         \A x \in S : f[x] = g[x] + h[x]
  PROVE  Sum(f, S) = Sum(g, S) + Sum(h, S)
<1> DEFINE G == {s \in SUBSET S : Sum(f, s) = Sum(g, s) + Sum(h, s)}
<1>1. ASSUME NEW s \in SUBSET S, \A r \in SUBSET s : r # s => r \in G
      PROVE  s \in G
  <2>1. CASE s = {}
    BY <2>1, SumEmpty
  <2>2. CASE s # {}
    <3>1. PICK x : x \in s
      BY <2>2
    <3> DEFINE r == s \ {x}
    <3>2. IsFiniteSet(s) /\ IntegersOn(f, s) /\ IntegersOn(g, s) /\ IntegersOn(h, s)
      BY FS_Subset DEF IntegersOn
    <3>3. IsFiniteSet(r) /\ IntegersOn(f, r) /\ IntegersOn(g, r) /\ IntegersOn(h, r)
      BY <3>2, FS_Subset DEF IntegersOn
    <3>4. /\ Sum(f, s) = f[x] + Sum(f, r)
          /\ Sum(g, s) = g[x] + Sum(g, r)
          /\ Sum(h, s) = h[x] + Sum(h, r)
      BY <3>1, <3>2, SumSplit
    <3>5. Sum(f, r) = Sum(g, r) + Sum(h, r)
      BY <1>1, <3>1
    <3>6. Sum(g, r) \in Int /\ Sum(h, r) \in Int
      BY <3>3, SumType
    <3>7. f[x] = g[x] + h[x] /\ g[x] \in Int /\ h[x] \in Int
      BY <3>1 DEF IntegersOn
    <3> HIDE DEF r
    <3> QED BY <3>4, <3>5, <3>6, <3>7
  <2> QED BY <2>1, <2>2
<1> HIDE DEF G
<1>2. S \in G
  BY <1>1, SubsetInduction
<1> QED BY <1>2 DEF G

\* A finite set of integers that is not empty has a last element either way.
LEMMA LastEitherWay ==
  ASSUME NEW side \in Sides, NEW S \in SUBSET Int, IsFiniteSet(S), S # {}
  PROVE  \E x \in S : \A y \in S \ {x} : Better(side, y, x)
<1> DEFINE G == {s \in SUBSET S : s # {} => \E x \in s : \A y \in s \ {x} : Better(side, y, x)}
<1>1. ASSUME NEW s \in SUBSET S, \A r \in SUBSET s : r # s => r \in G
      PROVE  s \in G
  <2> SUFFICES ASSUME NEW z \in s
               PROVE  \E x \in s : \A y \in s \ {x} : Better(side, y, x)
    OBVIOUS
  <2>1. CASE s = {z}
    BY <2>1
  <2>2. CASE s # {z}
    <3> DEFINE r == s \ {z}
    <3>0. r \in G /\ r # {}
      BY <1>1, <2>2
    <3>1. PICK x \in r : \A y \in r \ {x} : Better(side, y, x)
      BY <3>0
    <3>2. CASE Better(side, z, x)
      BY <3>1, <3>2
    <3>3. CASE ~Better(side, z, x)
      <4>1. \A y \in s \ {z} : Better(side, y, z)
        BY <3>1, <3>3 DEF Better, Sides
      <4> QED BY <4>1
    <3> QED BY <3>2, <3>3
  <2> QED BY <2>1, <2>2
<1> HIDE DEF G
<1>2. S \in G
  BY <1>1, SubsetInduction
<1> QED BY <1>2 DEF G

-----------------------------------------------------------------------------
(* Books and what the operations do to their depth.                        *)

\* One side of the book: finitely many integer prices, something at each.
Book(b) ==
  /\ IsFiniteSet(Levels(b)) /\ Levels(b) \subseteq Int
  /\ b = [x \in Levels(b) |-> b[x]]
  /\ PositiveOn(b, Levels(b))

\* Depth and the quantity in front of a level are sums.
LEMMA DepthIs == \A b : Depth(b) = Sum(b, Levels(b))
BY DEF Depth, FoldFunction, Sum, Levels

LEMMA AheadIs ==
  \A side, b, x : Ahead(side, b, x) = Sum(b, {y \in Levels(b) : Better(side, y, x)})
BY DEF Ahead, Sum

\* The depth of a book is an integer.
LEMMA DepthType ==
  ASSUME NEW b, Book(b)
  PROVE  IntegersOn(b, Levels(b)) /\ Depth(b) \in Int
<1>1. IntegersOn(b, Levels(b))
  BY DEF Book, PositiveOn, IntegersOn
<1> QED BY <1>1, SumType, DepthIs DEF Book

LEMMA EmptyBook == Book(Empty) /\ Depth(Empty) = 0
<1>1. Levels(Empty) = {}
  BY DEF Levels, Empty
<1>2. Empty = [x \in Levels(Empty) |-> Empty[x]]
  BY DEF Empty, Levels
<1> QED
  BY <1>1, <1>2, FS_EmptySet, SumEmpty, DepthIs DEF Book, PositiveOn

\* Without a level the depth is less by what the level held.
LEMMA WithoutDepth ==
  ASSUME NEW b, Book(b), NEW x
  PROVE  /\ Book(Without(b, x)) /\ Levels(Without(b, x)) = Levels(b) \ {x}
         /\ \A y \in Levels(b) \ {x} : Without(b, x)[y] = b[y]
         /\ Depth(b) = Depth(Without(b, x)) + IF x \in Levels(b) THEN b[x] ELSE 0
<1> DEFINE c == Without(b, x)
<1>1. Levels(c) = Levels(b) \ {x} /\ c = [y \in Levels(b) \ {x} |-> b[y]]
  BY DEF Without, Levels
<1>2. \A y \in Levels(b) \ {x} : c[y] = b[y]
  BY <1>1
<1> HIDE DEF c
<1>3. IsFiniteSet(Levels(b)) /\ IsFiniteSet(Levels(b) \ {x})
  BY FS_RemoveElement DEF Book
<1>4. c = [y \in Levels(c) |-> c[y]]
  BY <1>1
<1>5. Book(c)
  BY <1>1, <1>2, <1>3, <1>4 DEF Book, PositiveOn
<1>6. Depth(c) = Sum(b, Levels(b) \ {x})
  BY <1>1, <1>2, <1>3, SumSame, DepthIs
<1>7. Depth(c) \in Int
  BY <1>5, DepthType
<1>8. CASE x \in Levels(b)
  <2>1. Sum(b, Levels(b)) = b[x] + Sum(b, Levels(b) \ {x})
    BY <1>3, <1>8, DepthType, SumSplit
  <2>2. b[x] \in Int
    BY <1>8 DEF Book, PositiveOn
  <2>3. Depth(b) = Depth(c) + b[x]
    BY <1>6, <1>7, <2>1, <2>2, DepthIs
  <2> QED BY <1>1, <1>2, <1>5, <1>8, <2>3 DEF c
<1>9. CASE x \notin Levels(b)
  <2>1. Levels(b) \ {x} = Levels(b)
    BY <1>9
  <2>2. Depth(b) = Depth(c)
    BY <1>6, <2>1, DepthIs
  <2>3. Depth(b) = Depth(c) + 0
    BY <1>7, <2>2
  <2> QED BY <1>1, <1>2, <1>5, <1>9, <2>3 DEF c
<1> QED BY <1>8, <1>9

\* With v at level x it is more by v than without the level.
LEMMA WithDepth ==
  ASSUME NEW b, Book(b), NEW x \in Int, NEW v \in Int, v > 0
  PROVE  /\ Book(With(b, x, v))
         /\ Depth(With(b, x, v)) = Depth(Without(b, x)) + v
<1> DEFINE c == With(b, x, v)
           w == Without(b, x)
<1>1. Levels(c) = Levels(b) \cup {x} /\ c = [y \in Levels(b) \cup {x} |-> IF y = x THEN v ELSE b[y]]
  BY DEF With, Levels
<1>2. c[x] = v /\ \A y \in Levels(b) \ {x} : c[y] = b[y]
  BY <1>1
<1> HIDE DEF c
<1>3. Book(w) /\ Levels(w) = Levels(b) \ {x} /\ \A y \in Levels(b) \ {x} : w[y] = b[y]
  BY WithoutDepth
<1> HIDE DEF w
<1>4. IsFiniteSet(Levels(w)) /\ IsFiniteSet(Levels(c))
  BY <1>1, <1>3, FS_AddElement DEF Book
<1>5. c = [y \in Levels(c) |-> c[y]]
  BY <1>1
<1>6. Book(c)
  BY <1>1, <1>2, <1>4, <1>5 DEF Book, PositiveOn
<1>7. Levels(c) = Levels(w) \cup {x} /\ x \notin Levels(w)
  BY <1>1, <1>3
<1>8. IntegersOn(c, Levels(w))
  BY <1>1, <1>6, <1>7, DepthType DEF IntegersOn
<1>9. Sum(c, Levels(c)) = v + Sum(c, Levels(w))
  BY <1>2, <1>4, <1>7, <1>8, SumAdd
<1>10. Sum(c, Levels(w)) = Sum(w, Levels(w))
  BY <1>2, <1>3, <1>4, SumSame
<1>11. Depth(w) \in Int
  BY <1>3, DepthType
<1>12. Depth(c) = Depth(w) + v
  BY <1>9, <1>10, <1>11, DepthIs
<1> QED BY <1>6, <1>12 DEF c, w

-----------------------------------------------------------------------------
(* A market order.                                                         *)

\* Of two prices one is better, and better than better is better.
LEMMA BetterOrder ==
  ASSUME NEW side \in Sides, NEW x \in Int, NEW y \in Int, NEW z \in Int
  PROVE  /\ ~Better(side, x, x)
         /\ Better(side, x, y) => ~Better(side, y, x)
         /\ Better(side, x, y) /\ Better(side, y, z) => Better(side, x, z)
BY DEF Better, Sides

\* What an order takes of each level, and what is in front of one.
FilledAt(fills, b) == [x \in Levels(b) |-> IF x \in DOMAIN fills THEN fills[x] ELSE 0]

\* The quantity in front of a level is an integer.
LEMMA AheadType ==
  ASSUME NEW side, NEW b, Book(b), NEW x
  PROVE  Ahead(side, b, x) \in Int
<1> DEFINE s == {y \in Levels(b) : Better(side, y, x)}
<1>1. s \in SUBSET Levels(b)
  OBVIOUS
<1>2. IsFiniteSet(s)
  BY <1>1, FS_Subset DEF Book
<1>3. IntegersOn(b, s)
  BY DepthType DEF IntegersOn
<1> QED BY <1>2, <1>3, SumType, AheadIs

\* What a market order takes of each level.
LEMMA FillsAre ==
  ASSUME NEW side \in Sides, NEW b, Book(b), NEW q \in Nat \ {0}, NEW x \in Levels(b)
  PROVE  LET a == Ahead(side, b, x)
             fills == Fills(side, b, q)
         IN  /\ a \in Int /\ DOMAIN fills \subseteq Levels(b)
             /\ x \in DOMAIN fills <=> a < q
             /\ x \in DOMAIN fills => fills[x] = Lower(b[x], q - a)
             /\ FilledAt(fills, b)[x] = IF a < q THEN Lower(b[x], q - a) ELSE 0
             /\ FilledAt(fills, b)[x] \in 0 .. b[x]
<1> DEFINE a == Ahead(side, b, x)
           fills == Fills(side, b, q)
<1>1. a \in Int
  BY AheadType
<1>2. DOMAIN fills = {y \in Levels(b) : Ahead(side, b, y) < q}
  BY DEF Fills
<1>3. x \in DOMAIN fills => fills[x] = Lower(b[x], q - a)
  BY DEF Fills
<1> HIDE DEF fills
<1>4. FilledAt(fills, b)[x] = IF x \in DOMAIN fills THEN fills[x] ELSE 0
  BY DEF FilledAt
<1>5. b[x] \in Int /\ b[x] > 0
  BY DEF Book, PositiveOn
<1> HIDE DEF a
<1>6. x \in DOMAIN fills <=> a < q
  BY <1>2 DEF a
<1>7. FilledAt(fills, b)[x] = IF a < q THEN Lower(b[x], q - a) ELSE 0
  BY <1>3, <1>4, <1>6
<1>8. FilledAt(fills, b)[x] \in 0 .. b[x]
  BY <1>1, <1>5, <1>7 DEF Lower
<1>9. DOMAIN fills \subseteq Levels(b)
  BY <1>2
<1> QED BY <1>1, <1>3, <1>6, <1>7, <1>8, <1>9 DEF a, fills

\* From the best price inward an order takes all there is, or all it asked for.
LEMMA TakesBestFirst ==
  ASSUME NEW side \in Sides, NEW b, Book(b), NEW q \in Nat \ {0}
  PROVE  Sum(FilledAt(Fills(side, b, q), b), Levels(b)) = Lower(Sum(b, Levels(b)), q)
<1> DEFINE L == Levels(b)
           f == FilledAt(Fills(side, b, q), b)
           Inward(s) == \A x \in s, y \in L : Better(side, y, x) => y \in s
           G == {s \in SUBSET L : Inward(s) => Sum(f, s) = Lower(Sum(b, s), q)}
<1>0. L \subseteq Int /\ IsFiniteSet(L) /\ IntegersOn(b, L) /\ IntegersOn(f, L)
  <2>1. \A x \in L : f[x] \in 0 .. b[x] /\ b[x] \in Int
    BY FillsAre DEF Book, PositiveOn
  <2> QED BY <2>1 DEF Book, IntegersOn
<1>1. ASSUME NEW s \in SUBSET L, \A r \in SUBSET s : r # s => r \in G
      PROVE  s \in G
  <2> SUFFICES ASSUME Inward(s) PROVE Sum(f, s) = Lower(Sum(b, s), q)
    OBVIOUS
  <2>1. CASE s = {}
    BY <2>1, SumEmpty DEF Lower
  <2>2. CASE s # {}
    <3>1. IsFiniteSet(s) /\ s \subseteq Int /\ IntegersOn(b, s) /\ IntegersOn(f, s)
      BY <1>0, FS_Subset DEF IntegersOn
    <3>2. PICK x \in s : \A y \in s \ {x} : Better(side, y, x)
      BY <2>2, <3>1, LastEitherWay
    <3> DEFINE r == s \ {x}
               a == Sum(b, r)
    <3>3. r = {y \in L : Better(side, y, x)}
      BY <1>0, <3>1, <3>2, BetterOrder
    <3>4. Inward(r)
      BY <1>0, <3>1, <3>3, BetterOrder
    <3>5. r \in G
      BY <1>1, <3>2
    <3>6. Sum(f, r) = Lower(a, q)
      BY <3>4, <3>5
    <3>7. Ahead(side, b, x) = a
      BY <3>3, AheadIs
    <3>8. a \in Int
      BY <3>1, SumType, FS_Subset, <3>7, AheadType
    <3>9. b[x] \in Int /\ b[x] > 0
      BY <3>2 DEF Book, PositiveOn
    <3>10. f[x] = IF a < q THEN Lower(b[x], q - a) ELSE 0
      BY <3>2, <3>7, FillsAre
    <3>11. Sum(b, s) = b[x] + a
      BY <3>1, <3>2, SumSplit
    <3>12. Sum(f, s) = f[x] + Sum(f, r)
      BY <3>1, <3>2, SumSplit
    <3> HIDE DEF a, r, f
    <3> QED BY <3>6, <3>8, <3>9, <3>10, <3>11, <3>12 DEF Lower
  <2> QED BY <2>1, <2>2
<1> HIDE DEF G
<1>2. L \in G
  BY <1>0, <1>1, SubsetInduction
<1>3. Inward(L)
  OBVIOUS
<1> QED BY <1>2, <1>3 DEF G

\* What it leaves.
LEMMA ConsumedIs ==
  ASSUME NEW side \in Sides, NEW b, Book(b), NEW q \in Nat \ {0}
  PROVE  LET fills == Fills(side, b, q)
             f == FilledAt(fills, b)
             c == Consumed(b, fills)
         IN  /\ Book(c)
             /\ Levels(c) = {x \in Levels(b) : f[x] < b[x]}
             /\ \A x \in Levels(c) : c[x] = b[x] - f[x]
<1> DEFINE fills == Fills(side, b, q)
           f == FilledAt(fills, b)
           c == Consumed(b, fills)
<1>1. \A x \in Levels(b) : /\ f[x] \in 0 .. b[x] /\ b[x] \in Int /\ b[x] > 0
                           /\ f[x] = IF x \in DOMAIN fills THEN fills[x] ELSE 0
  BY FillsAre DEF Book, PositiveOn, FilledAt
<1>2. Levels(c) = {y \in Levels(b) : y \notin DOMAIN fills \/ fills[y] < b[y]}
  BY DEF Consumed, Levels
<1>3. \A x \in Levels(c) : c[x] = IF x \in DOMAIN fills THEN b[x] - fills[x] ELSE b[x]
  BY DEF Consumed, Levels
<1>4. c = [x \in Levels(c) |-> c[x]]
  BY DEF Consumed, Levels
<1> HIDE DEF c, f, fills
<1>5. Levels(c) = {x \in Levels(b) : f[x] < b[x]}
  BY <1>1, <1>2
<1>6. \A x \in Levels(c) : c[x] = b[x] - f[x]
  BY <1>1, <1>3, <1>5
<1>7. PositiveOn(c, Levels(c))
  BY <1>1, <1>5, <1>6 DEF PositiveOn
<1>8. IsFiniteSet(Levels(c)) /\ Levels(c) \subseteq Int
  BY <1>5, FS_Subset DEF Book
<1>9. Book(c)
  BY <1>4, <1>7, <1>8 DEF Book
<1> QED BY <1>5, <1>6, <1>9 DEF c, f, fills

\* What the fills and the levels left make up is what there was.
LEMMA MatchConserves ==
  ASSUME NEW side \in Sides, NEW b, Book(b), NEW q \in Nat \ {0}
  PROVE  LET fills == Fills(side, b, q)
         IN  /\ Depth(fills) = Lower(Depth(b), q)
             /\ Depth(fills) \in Int
             /\ Depth(b) = Depth(Consumed(b, fills)) + Depth(fills)
<1> DEFINE L == Levels(b)
           fills == Fills(side, b, q)
           f == FilledAt(fills, b)
           c == Consumed(b, fills)
           g == [x \in L |-> b[x] - f[x]]
<1>1. \A x \in L : f[x] \in 0 .. b[x] /\ b[x] \in Int
  BY FillsAre DEF Book, PositiveOn
<1>2. IsFiniteSet(L) /\ IntegersOn(f, L) /\ IntegersOn(g, L)
  BY <1>1 DEF Book, IntegersOn
<1>3. DOMAIN fills \subseteq L /\ \A x \in L : f[x] = IF x \in DOMAIN fills THEN fills[x] ELSE 0
  BY DEF FilledAt, Fills, Levels
<1>4. /\ Levels(c) = {x \in L : f[x] < b[x]}
      /\ \A x \in Levels(c) : c[x] = b[x] - f[x]
  BY ConsumedIs
<1>5. \A x \in L : g[x] = b[x] - f[x]
  OBVIOUS
<1> HIDE DEF g, f, c, fills
<1>6. Sum(fills, DOMAIN fills) = Sum(f, L)
  <2>1. IsFiniteSet(DOMAIN fills)
    BY <1>2, <1>3, FS_Subset
  <2>2. Sum(f, L) = Sum(f, DOMAIN fills)
    BY <1>2, <1>3, SumZeros
  <2>3. Sum(fills, DOMAIN fills) = Sum(f, DOMAIN fills)
    BY <1>3, <2>1, SumSame
  <2> QED BY <2>2, <2>3
<1>7. Sum(c, Levels(c)) = Sum(g, L)
  <2>1. Levels(c) \in SUBSET L /\ IsFiniteSet(Levels(c))
    BY <1>2, <1>4, FS_Subset
  <2>2. \A x \in L \ Levels(c) : g[x] = 0
    BY <1>1, <1>4, <1>5
  <2>3. Sum(g, L) = Sum(g, Levels(c))
    BY <1>2, <2>1, <2>2, SumZeros
  <2>4. \A x \in Levels(c) : c[x] = g[x]
    BY <1>4, <1>5
  <2>5. Sum(c, Levels(c)) = Sum(g, Levels(c))
    BY <2>1, <2>4, SumSame
  <2> QED BY <2>3, <2>5
<1>8. Sum(b, L) = Sum(g, L) + Sum(f, L)
  <2>1. \A x \in L : b[x] = g[x] + f[x]
    BY <1>1, <1>5
  <2> QED BY <1>2, <2>1, SumOfTwo
<1>9. Sum(f, L) = Lower(Sum(b, L), q)
  BY TakesBestFirst DEF f, fills
<1>10. Depth(fills) = Sum(f, L)
  BY <1>6, DepthIs DEF Levels
<1>11. Depth(c) = Sum(g, L) /\ Depth(b) = Sum(b, L)
  BY <1>7, DepthIs
<1>12. Sum(f, L) \in Int
  BY <1>2, SumType
<1>13. Depth(fills) = Lower(Depth(b), q) /\ Depth(fills) \in Int /\ Depth(b) = Depth(c) + Depth(fills)
  BY <1>8, <1>9, <1>10, <1>11, <1>12
<1> QED BY <1>13 DEF c, fills

\* A level in front of another is in what is in front of it.
LEMMA AheadOfBoth ==
  ASSUME NEW side \in Sides, NEW b, Book(b),
         NEW x \in Levels(b), NEW y \in Levels(b), Better(side, x, y)
  PROVE  Ahead(side, b, x) + b[x] <= Ahead(side, b, y)
<1> DEFINE r == {z \in Levels(b) : Better(side, z, x)}
           s == {z \in Levels(b) : Better(side, z, y)}
<1>1. x \in s /\ x \notin r /\ r \subseteq s
  BY BetterOrder DEF Book
<1>2. IsFiniteSet(s) /\ PositiveOn(b, s) /\ IsFiniteSet(r) /\ IntegersOn(b, r)
  <2>1. s \in SUBSET Levels(b) /\ r \in SUBSET Levels(b)
    OBVIOUS
  <2> QED BY <2>1, FS_Subset DEF Book, PositiveOn, IntegersOn
<1>3. b[x] \in Int
  BY DEF Book, PositiveOn
<1> HIDE DEF r, s
<1>4. r \cup {x} \in SUBSET s
  BY <1>1
<1>5. Sum(b, r \cup {x}) <= Sum(b, s)
  BY <1>2, <1>4, SumPart
<1>6. Sum(b, r \cup {x}) = b[x] + Sum(b, r)
  BY <1>1, <1>2, <1>3, SumAdd
<1>7. Ahead(side, b, x) = Sum(b, r) /\ Ahead(side, b, y) = Sum(b, s)
  BY AheadIs DEF r, s
<1>8. Sum(b, r) \in Int
  BY <1>2, SumType
<1> QED BY <1>3, <1>5, <1>6, <1>7, <1>8

\* A market order ends behind all it took, and short only of an empty side.
LEMMA MatchTakesBest ==
  ASSUME NEW side \in Sides, NEW b, Book(b), NEW q \in Nat \ {0}
  PROVE  LET fills == Fills(side, b, q)
             left == Consumed(b, fills)
         IN  /\ \A x \in Levels(left), y \in DOMAIN fills : ~Better(side, x, y)
             /\ Depth(fills) <= q
             /\ Depth(fills) < q => left = Empty
<1> DEFINE fills == Fills(side, b, q)
           f == FilledAt(fills, b)
           left == Consumed(b, fills)
<1>1. DOMAIN fills \subseteq Levels(b) /\ \A y \in DOMAIN fills : Ahead(side, b, y) < q
  BY DEF Fills
<1>2. Levels(left) = {x \in Levels(b) : f[x] < b[x]} /\ Book(left)
  BY ConsumedIs
<1>3. \A x \in Levels(b) : f[x] = IF Ahead(side, b, x) < q THEN Lower(b[x], q - Ahead(side, b, x)) ELSE 0
  BY FillsAre
<1>4. \A x \in Levels(b) : b[x] \in Int /\ b[x] > 0 /\ Ahead(side, b, x) \in Int
  BY AheadType DEF Book, PositiveOn
<1>5. Depth(fills) = Lower(Depth(b), q) /\ Depth(b) \in Int
  BY MatchConserves, DepthType
<1> HIDE DEF fills, f, left
<1>6. ASSUME NEW x \in Levels(left), NEW y \in DOMAIN fills, Better(side, x, y)
      PROVE  FALSE
  <2>1. x \in Levels(b) /\ y \in Levels(b) /\ f[x] < b[x] /\ Ahead(side, b, y) < q
    BY <1>1, <1>2, <1>6
  <2>2. Ahead(side, b, x) + b[x] <= Ahead(side, b, y)
    BY <1>6, <2>1, AheadOfBoth
  <2> QED BY <1>3, <1>4, <2>1, <2>2 DEF Lower
<1>7. Depth(fills) <= q
  BY <1>5 DEF Lower
<1>8. ASSUME Depth(fills) < q
      PROVE  left = Empty
  <2>1. Depth(b) < q
    BY <1>5, <1>8 DEF Lower
  <2>2. ASSUME NEW x \in Levels(b) PROVE Ahead(side, b, x) + b[x] <= Depth(b)
    <3> DEFINE r == {z \in Levels(b) : Better(side, z, x)}
    <3>1. r \cup {x} \in SUBSET Levels(b) /\ x \notin r /\ r \in SUBSET Levels(b)
      BY BetterOrder DEF Book
    <3>2. IsFiniteSet(r) /\ IntegersOn(b, r)
      BY <3>1, <1>4, FS_Subset DEF Book, IntegersOn
    <3> HIDE DEF r
    <3>3. Sum(b, r \cup {x}) <= Sum(b, Levels(b))
      BY <3>1, SumPart DEF Book
    <3>4. Sum(b, r \cup {x}) = b[x] + Sum(b, r)
      BY <1>4, <3>1, <3>2, SumAdd
    <3>5. Ahead(side, b, x) = Sum(b, r)
      BY AheadIs DEF r
    <3> QED BY <1>4, <3>3, <3>4, <3>5, DepthIs
  <2>3. Levels(left) = {}
    BY <1>2, <1>3, <1>4, <1>5, <2>1, <2>2 DEF Lower
  <2>4. left = [x \in Levels(left) |-> left[x]]
    BY <1>2 DEF Book
  <2>5. left = [x \in {} |-> left[x]]
    BY <2>3, <2>4
  <2> QED BY <2>5 DEF Empty
<1>9. \A x \in Levels(left), y \in DOMAIN fills : ~Better(side, x, y)
  BY <1>6
<1> QED BY <1>7, <1>8, <1>9 DEF fills, left

-----------------------------------------------------------------------------
(* The state machine.                                                      *)

Ledgers == [added : Int, cancelled : Int, filled : Int]

\* Each side is a book, the accounts balance, and what is left after a market
\* order is behind what it took.
BookInv ==
  /\ resting = [s \in Sides |-> resting[s]]
  /\ \A s \in Sides : Book(resting[s])
  /\ ledger \in [Sides -> Ledgers]
  /\ last = [fresh |-> last.fresh, side |-> last.side, qty |-> last.qty, fills |-> last.fills]
  /\ BookConserved
  /\ BestPricesFirst

LEMMA OppositeSide == \A side \in Sides : Opposite(side) \in Sides
BY DEF Opposite, Sides

LEMMA BookInitInv == BookInit => BookInv
<1> SUFFICES ASSUME BookInit PROVE BookInv
  OBVIOUS
<1>1. \A s \in Sides : resting[s] = Empty /\ ledger[s] = [added |-> 0, cancelled |-> 0, filled |-> 0]
  BY DEF BookInit
<1>2. BookConserved
  <2> SUFFICES ASSUME NEW s \in Sides
               PROVE  /\ ledger[s].added = Depth(resting[s]) + ledger[s].cancelled + ledger[s].filled
                      /\ \A x \in Levels(resting[s]) : resting[s][x] > 0
    BY DEF BookConserved
  <2> QED BY <1>1, EmptyBook DEF Book, PositiveOn
<1>3. BestPricesFirst
  BY DEF BookInit, BestPricesFirst
<1>4. ledger \in [Sides -> Ledgers]
  BY DEF BookInit, Ledgers
<1>5. resting = [s \in Sides |-> resting[s]] /\ \A s \in Sides : Book(resting[s])
  BY <1>1, EmptyBook DEF BookInit
<1>6. last = [fresh |-> last.fresh, side |-> last.side, qty |-> last.qty, fills |-> last.fills]
  BY DEF BookInit
<1> QED BY <1>2, <1>3, <1>4, <1>5, <1>6 DEF BookInv

\* A step that puts b on one side and counts q of one kind there keeps the
\* books in order, if the side's account balances.
LEMMA SideKeeps ==
  ASSUME BookInv, NEW side \in Sides, NEW b, Book(b), NEW q \in Int,
         NEW what \in {"added", "cancelled", "filled"},
         resting' = [resting EXCEPT ![side] = b], Count(side, what, q),
         Depth(b) = Depth(resting[side]) + IF what = "added" THEN q ELSE -q
  PROVE  /\ resting' = [s \in Sides |-> resting'[s]]
         /\ \A s \in Sides : Book(resting'[s])
         /\ ledger' \in [Sides -> Ledgers]
         /\ BookConserved'
<1>1. /\ resting' = [s \in Sides |-> resting'[s]]
      /\ resting'[side] = b /\ \A s \in Sides \ {side} : resting'[s] = resting[s]
  BY DEF BookInv
<1>2. \A s \in Sides : Book(resting'[s])
  BY <1>1 DEF BookInv
<1>3. /\ ledger[side] \in Ledgers /\ ledger' = [ledger EXCEPT ![side][what] = @ + q]
      /\ ledger \in [Sides -> Ledgers]
  BY DEF BookInv, Count
<1>4. /\ ledger'[side] = [ledger[side] EXCEPT ![what] = @ + q]
      /\ \A s \in Sides \ {side} : ledger'[s] = ledger[s]
  BY <1>3
<1>5. [ledger[side] EXCEPT ![what] = @ + q] \in Ledgers
  BY <1>3 DEF Ledgers
<1>6. ledger' \in [Sides -> Ledgers]
  BY <1>3, <1>4, <1>5
<1>7. ASSUME NEW s \in Sides
      PROVE  ledger'[s].added = Depth(resting'[s]) + ledger'[s].cancelled + ledger'[s].filled
  <2>1. ledger[s].added = Depth(resting[s]) + ledger[s].cancelled + ledger[s].filled
    BY DEF BookInv, BookConserved
  <2>2. CASE s # side
    BY <1>1, <1>4, <2>1, <2>2
  <2>3. CASE s = side
    <3>1. Depth(resting[s]) \in Int /\ Depth(b) \in Int
      BY DepthType DEF BookInv
    <3>2. ledger[s].added \in Int /\ ledger[s].cancelled \in Int /\ ledger[s].filled \in Int
      BY <1>3, <2>3 DEF Ledgers
    <3>3. CASE what = "added"
      BY <1>1, <1>3, <1>4, <2>1, <2>3, <3>1, <3>2, <3>3 DEF Ledgers
    <3>4. CASE what = "cancelled"
      BY <1>1, <1>3, <1>4, <2>1, <2>3, <3>1, <3>2, <3>4 DEF Ledgers
    <3>5. CASE what = "filled"
      BY <1>1, <1>3, <1>4, <2>1, <2>3, <3>1, <3>2, <3>5 DEF Ledgers
    <3> QED BY <3>3, <3>4, <3>5
  <2> QED BY <2>2, <2>3
<1>8. \A s \in Sides : \A x \in Levels(resting'[s]) : resting'[s][x] > 0
  BY <1>2 DEF Book, PositiveOn
<1>9. BookConserved'
  BY <1>7, <1>8 DEF BookConserved
<1> QED BY <1>1, <1>2, <1>6, <1>9

\* After anything but a market order there is nothing to say of the last one.
LEMMA StaleLast ==
  ASSUME BookInv, last' = [last EXCEPT !.fresh = FALSE]
  PROVE  /\ last' = [fresh |-> last'.fresh, side |-> last'.side, qty |-> last'.qty, fills |-> last'.fills]
         /\ BestPricesFirst'
<1>1. last' = [fresh |-> FALSE, side |-> last.side, qty |-> last.qty, fills |-> last.fills]
  BY DEF BookInv
<1> QED BY <1>1 DEF BestPricesFirst

LEMMA AddKeeps ==
  ASSUME BookInv, NEW side \in Sides, NEW x \in Prices, NEW q \in Quantities, Add(side, x, q)
  PROVE  BookInv'
<1> DEFINE b == resting[side]
           v == (IF x \in Levels(b) THEN b[x] ELSE 0) + q
<1>1. Book(b) /\ x \in Int /\ q \in Int /\ q > 0
  BY PricesAssumption, QuantityAssumption DEF BookInv, Quantities
<1>2. x \in Levels(b) => b[x] \in Int /\ b[x] > 0
  BY <1>1 DEF Book, PositiveOn
<1>3. v \in Int /\ v > 0
  BY <1>1, <1>2
<1>4. Depth(b) = Depth(Without(b, x)) + IF x \in Levels(b) THEN b[x] ELSE 0
  BY <1>1, WithoutDepth
<1>5. Book(With(b, x, v)) /\ Depth(With(b, x, v)) = Depth(Without(b, x)) + v
  BY <1>1, <1>3, WithDepth
<1>6. Depth(Without(b, x)) \in Int
  BY <1>1, WithoutDepth, DepthType
<1>7. Depth(With(b, x, v)) = Depth(b) + q
  BY <1>1, <1>2, <1>4, <1>5, <1>6
<1>8. /\ resting' = [resting EXCEPT ![side] = With(b, x, v)]
      /\ Count(side, "added", q) /\ last' = [last EXCEPT !.fresh = FALSE]
  BY DEF Add
<1> HIDE DEF b, v
<1>9. Depth(With(b, x, v)) = Depth(resting[side]) + IF "added" = "added" THEN q ELSE -q
  BY <1>7 DEF b
<1> QED BY <1>1, <1>5, <1>8, <1>9, SideKeeps, StaleLast DEF BookInv

LEMMA CancelKeeps ==
  ASSUME BookInv, NEW side \in Sides, NEW x \in Prices, NEW q \in Quantities \cup {0}, Cancel(side, x, q)
  PROVE  BookInv'
<1> DEFINE b == resting[side]
<1>1. Book(b) /\ x \in Int /\ q \in Int /\ q >= 0
  BY PricesAssumption, QuantityAssumption DEF BookInv, Quantities
<1>2. last' = [last EXCEPT !.fresh = FALSE]
  BY DEF Cancel
<1>3. CASE x \notin Levels(b)
  <2>1. UNCHANGED <<resting, ledger>>
    BY <1>3 DEF Cancel
  <2> QED BY <1>2, <2>1, StaleLast DEF BookInv, BookConserved
<1>4. CASE x \in Levels(b) /\ (q = 0 \/ q >= b[x])
  <2>1. resting' = [resting EXCEPT ![side] = Without(b, x)] /\ Count(side, "cancelled", b[x])
    BY <1>4 DEF Cancel
  <2>2. b[x] \in Int
    BY <1>1, <1>4 DEF Book, PositiveOn
  <2>3. Book(Without(b, x)) /\ Depth(b) = Depth(Without(b, x)) + b[x]
    BY <1>1, <1>4, WithoutDepth
  <2>4. Depth(Without(b, x)) \in Int
    BY <2>3, DepthType
  <2>5. Depth(Without(b, x)) = Depth(b) + IF "cancelled" = "added" THEN b[x] ELSE -b[x]
    BY <2>2, <2>3, <2>4
  <2> HIDE DEF b
  <2>6. Depth(Without(b, x)) = Depth(resting[side]) + IF "cancelled" = "added" THEN b[x] ELSE -b[x]
    BY <2>5 DEF b
  <2> QED BY <1>2, <2>1, <2>2, <2>3, <2>6, SideKeeps, StaleLast DEF BookInv
<1>5. CASE x \in Levels(b) /\ ~(q = 0 \/ q >= b[x])
  <2>1. resting' = [resting EXCEPT ![side] = With(b, x, b[x] - q)] /\ Count(side, "cancelled", q)
    BY <1>5 DEF Cancel
  <2>2. b[x] \in Int /\ b[x] - q \in Int /\ b[x] - q > 0
    BY <1>1, <1>5 DEF Book, PositiveOn
  <2>3. Book(Without(b, x)) /\ Depth(b) = Depth(Without(b, x)) + b[x]
    BY <1>1, <1>5, WithoutDepth
  <2>4. Depth(Without(b, x)) \in Int
    BY <2>3, DepthType
  <2>5. Book(With(b, x, b[x] - q)) /\ Depth(With(b, x, b[x] - q)) = Depth(Without(b, x)) + (b[x] - q)
    BY <1>1, <2>2, WithDepth
  <2>6. Depth(With(b, x, b[x] - q)) = Depth(b) + IF "cancelled" = "added" THEN q ELSE -q
    BY <1>1, <2>2, <2>3, <2>4, <2>5
  <2> HIDE DEF b
  <2>7. Depth(With(b, x, b[x] - q)) = Depth(resting[side]) + IF "cancelled" = "added" THEN q ELSE -q
    BY <2>6 DEF b
  <2> QED BY <1>1, <1>2, <2>1, <2>5, <2>7, SideKeeps, StaleLast DEF BookInv
<1> QED BY <1>3, <1>4, <1>5

LEMMA MatchKeeps ==
  ASSUME BookInv, NEW side \in Sides, NEW q \in Quantities, MatchMarket(side, q)
  PROVE  BookInv'
<1> DEFINE other == Opposite(side)
           b == resting[other]
           fills == Fills(side, b, q)
           left == Consumed(b, fills)
<1>1. other \in Sides /\ Book(b) /\ q \in Nat \ {0}
  BY OppositeSide, QuantityAssumption DEF BookInv, Quantities
<1>2. /\ resting' = [resting EXCEPT ![other] = left]
      /\ Count(other, "filled", Depth(fills))
      /\ last' = [fresh |-> TRUE, side |-> side, qty |-> q, fills |-> fills]
  BY DEF MatchMarket
<1>3. Book(left)
  BY <1>1, ConsumedIs
<1>4. Depth(fills) \in Int /\ Depth(b) = Depth(left) + Depth(fills)
  BY <1>1, MatchConserves
<1>5. Depth(left) \in Int
  BY <1>3, DepthType
<1>6. Depth(left) = Depth(b) + IF "filled" = "added" THEN Depth(fills) ELSE -Depth(fills)
  BY <1>4, <1>5
<1>7. /\ \A x \in Levels(left), y \in DOMAIN fills : ~Better(side, x, y)
      /\ Depth(fills) <= q
      /\ Depth(fills) < q => left = Empty
  BY <1>1, MatchTakesBest
<1>8. resting'[other] = left
  BY <1>1, <1>2 DEF BookInv
<1> HIDE DEF left, fills
<1>9. BestPricesFirst'
  BY <1>2, <1>7, <1>8 DEF BestPricesFirst
<1>10. last' = [fresh |-> last'.fresh, side |-> last'.side, qty |-> last'.qty, fills |-> last'.fills]
  BY <1>2
<1> HIDE DEF other
<1>11. /\ resting' = [s \in Sides |-> resting'[s]]
       /\ \A s \in Sides : Book(resting'[s])
       /\ ledger' \in [Sides -> Ledgers]
       /\ BookConserved'
  BY <1>1, <1>2, <1>3, <1>4, <1>6, SideKeeps
<1> QED BY <1>9, <1>10, <1>11 DEF BookInv

LEMMA BookStep == BookInv /\ [BookNext]_limitbook => BookInv'
<1> SUFFICES ASSUME BookInv, [BookNext]_limitbook PROVE BookInv'
  OBVIOUS
<1>1. CASE BookNext
  BY <1>1, AddKeeps, CancelKeeps, MatchKeeps DEF BookNext
<1>2. CASE UNCHANGED limitbook
  BY <1>2 DEF limitbook, BookInv, BookConserved, BestPricesFirst
<1> QED BY <1>1, <1>2

\* Every side stays a book and its account balances, from one operation to the
\* next; the fills of a market order are the best there were.
\* (orderbook.py:42-79)
THEOREM BookInductive == BookSpec => []BookInv
BY BookInitInv, BookStep, PTL DEF BookSpec

\* Nothing is created or lost by the book, for any prices, any quantities and
\* any number of operations.  (orderbook.py:42-79)
THEOREM BookConservedAlways == BookSpec => []BookConserved
BY BookInductive, PTL DEF BookInv

\* A market order takes the best prices there are and all it can, for any
\* prices, any quantities and any number of operations.  (orderbook.py:57-79)
THEOREM BestPricesFirstAlways == BookSpec => []BestPricesFirst
BY BookInductive, PTL DEF BookInv
=============================================================================
