--------------------------- MODULE ExecutorProofs ---------------------------
(***************************************************************************)
(* Proofs about Executor, for any number of overlapping runs, any books,   *)
(* markets and initial positions, and every fault.                         *)
(***************************************************************************)
EXTENDS Executor, TLAPS

Assumptions ==
    /\ Symbols \subseteq Nat \ {0}
    /\ Scale \in Nat \ {0}
    /\ MaxGross \in Nat /\ MaxPosition \in Nat /\ MinOrder \in Nat \ {0}
    /\ ShortMultiples \subseteq Nat \ {0, 1}
    /\ LowDeltas \subseteq Int \X Int \X Nat \X Nat
    /\ Modes \subseteq BOOLEAN
    /\ Books \subseteq [Symbols -> Int]
    /\ Markets \subseteq
         [equity: Int, price: [Symbols -> Nat], spec: [Symbols -> Spec1]]
    /\ InitPositions \subseteq [Symbols -> Int]
    /\ MaxFaults \in Nat

LEMMA AssumptionsHold == Assumptions
BY SymbolsAssumption, ScaleAssumption, LimitsAssumption, ShortAssumption,
   ModesAssumption, BooksAssumption, MarketsAssumption, PositionsAssumption,
   FaultsAssumption
   DEF Assumptions

-----------------------------------------------------------------------------
(* The arithmetic of the plan.                                             *)

LEMMA ProductNat ==
    ASSUME NEW a \in Nat, NEW b \in Nat
    PROVE  a * b \in Nat
BY SMT

LEMMA ProductPositive ==
    ASSUME NEW a \in Nat \ {0}, NEW b \in Nat \ {0}
    PROVE  a * b \in Nat \ {0}
BY SMT

LEMMA QuotientNat ==
    ASSUME NEW a \in Nat, NEW b \in Nat \ {0}
    PROVE  /\ a \div b \in Nat
           /\ b * (a \div b) <= a
BY SMT

LEMMA ProductMonotone ==
    ASSUME NEW j \in Nat, NEW k \in Nat, j <= k, NEW c \in Nat
    PROVE  c * j <= c * k
BY SMT

\* round_step_down: a multiple of the step that is never more than intended.
LEMMA RoundsDown ==
    ASSUME NEW num \in Nat, NEW den \in Nat \ {0}, NEW step \in Nat \ {0},
           NEW low \in BOOLEAN
    PROVE  /\ RoundStepDown(num, den, step, low) \in Nat
           /\ RoundStepDown(num, den, step, low) * den <= num
<1> DEFINE k == num \div (den * step)
           j == IF low /\ k > 0 /\ num = k * (den * step) THEN k - 1 ELSE k
<1>1. den * step \in Nat \ {0}
  BY ProductPositive
<1>2. k \in Nat /\ (den * step) * k <= num
  BY <1>1, QuotientNat
<1>3. RoundStepDown(num, den, step, low) = j * step
  BY DEF RoundStepDown
<1>4. j \in Nat /\ j <= k
  BY <1>2
<1> HIDE DEF j, k
<1>5. j * step \in Nat /\ (den * step) * j \in Nat /\ (den * step) * k \in Nat
  BY <1>1, <1>2, <1>4, ProductNat
<1>6. (den * step) * j <= (den * step) * k
  BY <1>1, <1>2, <1>4, ProductMonotone
<1>7. (j * step) * den = (den * step) * j
  BY <1>4, SMT
<1> QED
  BY <1>2, <1>3, <1>5, <1>6, <1>7

LEMMA QuotientLowBoolean ==
    ASSUME NEW v, NEW s
    PROVE  QuotientLow(v, s) \in BOOLEAN
BY DEF QuotientLow

LEMMA MagnitudeNat == \A x \in Int : Magnitude(x) \in Nat
BY DEF Magnitude

LEMMA DeltaInt ==
    ASSUME NEW v \in Views, NEW s \in Symbols
    PROVE  ScaledDelta(v, s) \in Int
<1>1. v.book[s] \in Int /\ v.equity \in Int /\ v.held[s] \in Int
      /\ v.price[s] \in Int /\ Scale \in Int
  BY AssumptionsHold DEF Assumptions, Views
<1> QED
  BY <1>1 DEF ScaledDelta

\* What reconcile() plans for a tradeable symbol is an order, and its value is
\* at most the distance to the target.
LEMMA PlannedOrderTyped ==
    ASSUME NEW v \in Views, NEW s \in Symbols, Tradeable(v, s)
    PROVE  /\ PlannedOrder(v, s) \in Orders
           /\ OrderQty(v, s) \in Nat
           /\ OrderQty(v, s) * (Scale * v.price[s]) <= Magnitude(ScaledDelta(v, s))
<1>1. v.price[s] \in Nat \ {0} /\ Scale \in Nat \ {0} /\ v.spec[s].step \in Nat \ {0}
  BY AssumptionsHold DEF Assumptions, Views, Spec1, Tradeable
<1>2. Scale * v.price[s] \in Nat \ {0}
  BY <1>1, ProductPositive
<1>3. Magnitude(ScaledDelta(v, s)) \in Nat
  BY DeltaInt, MagnitudeNat
<1>4. /\ OrderQty(v, s) \in Nat
      /\ OrderQty(v, s) * (Scale * v.price[s]) <= Magnitude(ScaledDelta(v, s))
  BY <1>1, <1>2, <1>3, QuotientLowBoolean, RoundsDown DEF OrderQty
<1>5. OrderQty(v, s) * v.price[s] \in Nat
  BY <1>1, <1>4, ProductNat
<1>6. Side(v, s) \in Sides
  BY DEF Side, Sides
<1>7. Reason(v, s) \in Reasons
  <2>1. CASE v.held[s] = 0
    BY <2>1, <1>6 DEF Reason, Reasons, Sides
  <2>2. CASE v.held[s] # 0 /\ v.book[s] = 0
    BY <2>2 DEF Reason, Reasons
  <2>3. CASE v.held[s] # 0 /\ v.book[s] # 0
    BY <2>3 DEF Reason, Reasons
  <2> QED
    BY <2>1, <2>2, <2>3
<1> QED
  BY <1>4, <1>5, <1>6, <1>7 DEF PlannedOrder, Orders

LEMMA PlanTyped ==
    ASSUME NEW v \in Views
    PROVE  Reconcile(v) \subseteq Orders
BY PlannedOrderTyped DEF Reconcile, Considered

\* A plan holds at most one order per symbol.
LEMMA PlanFunctional ==
    ASSUME NEW v, NEW o \in Reconcile(v), NEW p \in Reconcile(v), o.sym = p.sym
    PROVE  o = p
BY DEF Reconcile, PlannedOrder

\* The next order of a plan is the only next order.
LEMMA NextUnique ==
    ASSUME NEW S \in SUBSET Orders, NEW o, NEW p, IsNext(o, S), IsNext(p, S)
    PROVE  o = p
<1>1. o.sym \in Nat /\ p.sym \in Nat
  BY AssumptionsHold DEF IsNext, Orders, Assumptions
<1> QED
  BY <1>1 DEF IsNext, Before

\* fmt_qty: what is sent is at most what is planned, and not negative.
LEMMA SentNat ==
    ASSUME NEW v \in Views, NEW o \in Orders
    PROVE  Sent(v, o) \in Nat /\ Sent(v, o) <= o.qty
<1> DEFINE step == v.spec[o.sym].step
           low == o.qty \div step \in ShortMultiples
<1>1. o.qty \in Nat /\ step \in Nat \ {0} /\ low \in BOOLEAN
  BY DEF Orders, Views, Spec1
<1>2. Sent(v, o) = RoundStepDown(o.qty, 1, step, low)
  BY DEF Sent, FmtQty
<1> HIDE DEF low, step
<1>3. Sent(v, o) \in Nat /\ Sent(v, o) * 1 <= o.qty
  BY <1>1, <1>2, RoundsDown
<1> QED
  BY <1>3

-----------------------------------------------------------------------------
(* Type correctness.                                                       *)

LEMMA NoViewTyped == NoView \in Views
BY DEF NoView, Views, Spec1


\* An action of the run r that leaves the exchange alone keeps the types when
\* what it does to the variables of r is typed.
RunVarsTyped(r) ==
    /\ pc' \in [Runs -> Stages]
    /\ view' \in [Runs -> Views]
    /\ todo' \in [Runs -> SUBSET Orders]
    /\ uncapped' \in [Runs -> SUBSET Orders]
    /\ cur' \in [Runs -> Symbols \cup {0}]
    /\ log' \in [Runs -> SUBSET Lines]

LEMMA RunVarsSuffice ==
    ASSUME TypeOK, NEW r \in Runs, RunVarsTyped(r), Environment,
           faults' \in 0..MaxFaults
    PROVE  TypeOK'
BY DEF TypeOK, RunVarsTyped, Environment, exchange

LEMMA FaultTyped ==
    ASSUME TypeOK, NEW kind, Fault(kind) \/ NoFault
    PROVE  faults' \in 0..MaxFaults
BY AssumptionsHold DEF TypeOK, Fault, NoFault, Assumptions

LEMMA GotoTyped ==
    ASSUME TypeOK, NEW r \in Runs, NEW from, NEW to \in Stages, Goto(r, from, to)
    PROVE  pc' \in [Runs -> Stages]
BY DEF TypeOK, Goto

LEMMA WriteTyped ==
    ASSUME TypeOK, NEW r \in Runs, NEW e \in Events, NEW s \in Symbols \cup {0},
           Write(r, e, s)
    PROVE  log' \in [Runs -> SUBSET Lines]
BY DEF TypeOK, Write, Lines

LEMMA ViewTyped ==
    ASSUME TypeOK, NEW r \in Runs
    PROVE  /\ view[r] \in Views
           /\ market.equity \in Int
           /\ market.price \in [Symbols -> Nat]
           /\ market.spec \in [Symbols -> Spec1]
BY AssumptionsHold DEF TypeOK, Assumptions

LEMMA ReadingTyped ==
    ASSUME TypeOK, NEW r \in Runs,
           \/ Start(r) \/ StartKilled(r) \/ ReadAccount(r) \/ ReadSpecs(r)
           \/ ReadPrices(r) \/ ReadPositions(r) \/ ReadRaises(r)
    PROVE  TypeOK'
<1> USE DEF TypeOK, RunVarsTyped
<1>1. CASE Start(r)
  <2>1. PICK b \in Books, live \in Modes :
          view' = [view EXCEPT ![r].book = b, ![r].live = live]
    BY <1>1 DEF Start
  <2>2. view' \in [Runs -> Views]
    <3>1. view[r] \in Views /\ b \in [Symbols -> Int] /\ live \in BOOLEAN
      BY <2>1, ViewTyped, AssumptionsHold DEF Assumptions
    <3>2. [[view[r] EXCEPT !.book = b] EXCEPT !.live = live] \in Views
      BY <3>1 DEF Views
    <3>3. view' = [view EXCEPT ![r] =
                     [[view[r] EXCEPT !.book = b] EXCEPT !.live = live]]
      BY <2>1, <3>1 DEF Views
    <3> QED
      BY <3>2, <3>3
  <2>3. pc' \in [Runs -> Stages]
    BY <1>1, GotoTyped DEF Start, Stages, Reading
  <2> QED
    BY <1>1, <2>2, <2>3, FaultTyped, RunVarsSuffice DEF Start
<1>2. CASE StartKilled(r)
  <2>1. pc' \in [Runs -> Stages]
    BY <1>2, GotoTyped DEF StartKilled, Stages, Ended
  <2>2. log' \in [Runs -> SUBSET Lines]
    BY <1>2, WriteTyped DEF StartKilled, Events
  <2> QED
    BY <1>2, <2>1, <2>2, FaultTyped, RunVarsSuffice DEF StartKilled
<1>3. CASE ReadAccount(r)
  <2>1. pc' \in [Runs -> Stages]
    BY <1>3, GotoTyped DEF ReadAccount, Stages, Reading
  <2>2. log' \in [Runs -> SUBSET Lines]
    BY <1>3, WriteTyped DEF ReadAccount, Events
  <2>3. view' \in [Runs -> Views]
    BY <1>3, ViewTyped DEF ReadAccount, Views
  <2> QED
    BY <1>3, <2>1, <2>2, <2>3, FaultTyped, RunVarsSuffice DEF ReadAccount
<1>4. CASE ReadSpecs(r)
  <2>1. pc' \in [Runs -> Stages]
    BY <1>4, GotoTyped DEF ReadSpecs, Stages, Reading
  <2>2. view' \in [Runs -> Views]
    BY <1>4, ViewTyped DEF ReadSpecs, Views
  <2> QED
    BY <1>4, <2>1, <2>2, FaultTyped, RunVarsSuffice DEF ReadSpecs
<1>5. CASE ReadPrices(r)
  <2>1. pc' \in [Runs -> Stages]
    BY <1>5, GotoTyped DEF ReadPrices, Stages, Reading
  <2>2. view' \in [Runs -> Views]
    BY <1>5, ViewTyped DEF ReadPrices, Views
  <2> QED
    BY <1>5, <2>1, <2>2, FaultTyped, RunVarsSuffice DEF ReadPrices
<1>6. CASE ReadPositions(r)
  <2>1. pc' \in [Runs -> Stages]
    BY <1>6, GotoTyped DEF ReadPositions, Stages
  <2>2. view' \in [Runs -> Views]
    BY <1>6 DEF ReadPositions, Views
  <2> QED
    BY <1>6, <2>1, <2>2, FaultTyped, RunVarsSuffice DEF ReadPositions
<1>7. CASE ReadRaises(r)
  <2>1. pc' \in [Runs -> Stages]
    BY <1>7 DEF ReadRaises, Stages, Ended
  <2>2. log' \in [Runs -> SUBSET Lines]
    BY <1>7, WriteTyped DEF ReadRaises, Events
  <2> QED
    BY <1>7, <2>1, <2>2, FaultTyped, RunVarsSuffice DEF ReadRaises
<1> QED
  BY <1>1, <1>2, <1>3, <1>4, <1>5, <1>6, <1>7


LEMMA PlanningTyped ==
    ASSUME TypeOK, NEW r \in Runs,
           \/ MakePlan(r) \/ CheckBlocks(r) \/ CheckDryRun(r)
           \/ CheckNothingToDo(r) \/ CheckClears(r)
    PROVE  TypeOK'
<1> USE DEF TypeOK, RunVarsTyped
<1>1. CASE MakePlan(r)
  <2>1. pc' \in [Runs -> Stages]
    BY <1>1, GotoTyped DEF MakePlan, Stages
  <2>2. log' \in [Runs -> SUBSET Lines]
    BY <1>1, WriteTyped DEF MakePlan, Events
  <2>3. todo' \in [Runs -> SUBSET Orders]
    BY <1>1, ViewTyped, PlanTyped DEF MakePlan
  <2> QED
    BY <1>1, <2>1, <2>2, <2>3, FaultTyped, RunVarsSuffice DEF MakePlan
<1>2. CASE CheckBlocks(r)
  <2>1. pc' \in [Runs -> Stages]
    BY <1>2, GotoTyped DEF CheckBlocks, Stages, Ended
  <2>2. log' \in [Runs -> SUBSET Lines]
    BY <1>2, WriteTyped DEF CheckBlocks, Events
  <2> QED
    BY <1>2, <2>1, <2>2, FaultTyped, RunVarsSuffice DEF CheckBlocks
<1>3. CASE CheckDryRun(r)
  <2>1. pc' \in [Runs -> Stages]
    BY <1>3, GotoTyped DEF CheckDryRun, Stages, Ended
  <2> QED
    BY <1>3, <2>1, FaultTyped, RunVarsSuffice DEF CheckDryRun
<1>4. CASE CheckNothingToDo(r)
  <2>1. pc' \in [Runs -> Stages]
    BY <1>4, GotoTyped DEF CheckNothingToDo, Stages, Ended
  <2>2. log' \in [Runs -> SUBSET Lines]
    BY <1>4, WriteTyped DEF CheckNothingToDo, Events
  <2> QED
    BY <1>4, <2>1, <2>2, FaultTyped, RunVarsSuffice DEF CheckNothingToDo
<1>5. CASE CheckClears(r)
  <2>1. pc' \in [Runs -> Stages]
    BY <1>5, GotoTyped DEF CheckClears, Stages, Cleared
  <2>2. uncapped' \in [Runs -> SUBSET Orders]
    BY <1>5 DEF CheckClears
  <2> QED
    BY <1>5, <2>1, <2>2, FaultTyped, RunVarsSuffice DEF CheckClears
<1> QED
  BY <1>1, <1>2, <1>3, <1>4, <1>5

LEMMA LeverageTyped ==
    ASSUME TypeOK, NEW r \in Runs, SetLeverage(r) \/ SetLeverageRaises(r)
    PROVE  TypeOK'
<1> USE DEF TypeOK, RunVarsTyped
<1>1. ASSUME NEW o \in uncapped[r], AfterLeverage(r, o)
      PROVE  /\ pc' \in [Runs -> Stages]
             /\ uncapped' \in [Runs -> SUBSET Orders]
             /\ o.sym \in Symbols
  <2>1. pc' \in [Runs -> Stages]
    BY <1>1, GotoTyped DEF AfterLeverage, Stages, Cleared
  <2>2. uncapped' \in [Runs -> SUBSET Orders]
    BY <1>1 DEF AfterLeverage
  <2>3. o \in Orders
    BY <1>1
  <2> QED
    BY <2>1, <2>2, <2>3 DEF Orders
<1>2. CASE SetLeverage(r)
  BY <1>1, <1>2, FaultTyped DEF SetLeverage
<1>3. CASE SetLeverageRaises(r)
  <2>1. PICK o \in uncapped[r] : AfterLeverage(r, o) /\ Write(r, "error", o.sym)
    BY <1>3 DEF SetLeverageRaises
  <2>2. log' \in [Runs -> SUBSET Lines]
    BY <1>1, <2>1, WriteTyped DEF Events
  <2> QED
    BY <1>1, <1>3, <2>1, <2>2, FaultTyped, RunVarsSuffice DEF SetLeverageRaises
<1> QED
  BY <1>2, <1>3

\* A run only takes orders that round to something, and posts what it took.
LEMMA TradingTyped ==
    ASSUME TypeOK, NEW r \in Runs,
           TakeOrder(r) \/ OrderReturns(r) \/ OrderTimesOut(r) \/ Complete(r) \/ Crash(r)
    PROVE  TypeOK'
<1> USE DEF TypeOK, RunVarsTyped
<1>1. CASE TakeOrder(r)
  <2>1. PICK o \in todo[r] :
          IF Sent(view[r], o) > 0
          THEN /\ Goto(r, "orders", "post")
               /\ Write(r, "order_placed", o.sym)
               /\ UNCHANGED todo
          ELSE /\ Write(r, "order_skipped", o.sym)
               /\ todo' = [todo EXCEPT ![r] = @ \ {o}]
               /\ UNCHANGED pc
    BY <1>1 DEF TakeOrder
  <2>2. o.sym \in Symbols
    BY DEF Orders
  <2>3. CASE Sent(view[r], o) > 0
    <3>1. pc' \in [Runs -> Stages]
      BY <2>1, <2>3, GotoTyped DEF Stages, Cleared
    <3>2. log' \in [Runs -> SUBSET Lines]
      BY <2>1, <2>2, <2>3, WriteTyped DEF Events
    <3> QED
      BY <1>1, <2>1, <2>3, <3>1, <3>2, FaultTyped, RunVarsSuffice DEF TakeOrder
  <2>4. CASE ~(Sent(view[r], o) > 0)
    <3>1. log' \in [Runs -> SUBSET Lines]
      BY <2>1, <2>2, <2>4, WriteTyped DEF Events
    <3>2. todo' \in [Runs -> SUBSET Orders] /\ pc' = pc
      BY <2>1, <2>4
    <3> QED
      BY <1>1, <3>1, <3>2, FaultTyped, RunVarsSuffice DEF TakeOrder
  <2> QED
    BY <2>3, <2>4
<1>2. CASE OrderReturns(r)
  <2>1. pc' \in [Runs -> Stages]
    BY <1>2, GotoTyped DEF OrderReturns, Stages, Cleared
  <2>2. log' \in [Runs -> SUBSET Lines]
    BY <1>2, WriteTyped DEF OrderReturns, Events
  <2> QED
    BY <1>2, <2>1, <2>2, FaultTyped, RunVarsSuffice DEF OrderReturns
<1>3. CASE OrderTimesOut(r)
  <2>1. pc' \in [Runs -> Stages]
    BY <1>3, GotoTyped DEF OrderTimesOut, Stages, Cleared
  <2>2. log' \in [Runs -> SUBSET Lines]
    BY <1>3, WriteTyped DEF OrderTimesOut, Events
  <2> QED
    BY <1>3, <2>1, <2>2, FaultTyped, RunVarsSuffice DEF OrderTimesOut
<1>4. CASE Complete(r)
  <2>1. pc' \in [Runs -> Stages]
    BY <1>4, GotoTyped DEF Complete, Stages, Ended
  <2>2. log' \in [Runs -> SUBSET Lines]
    BY <1>4, WriteTyped DEF Complete, Events
  <2> QED
    BY <1>4, <2>1, <2>2, FaultTyped, RunVarsSuffice DEF Complete
<1>5. CASE Crash(r)
  <2>1. pc' \in [Runs -> Stages]
    BY <1>5 DEF Crash, Stages, Ended
  <2> QED
    BY <1>5, <2>1, FaultTyped, RunVarsSuffice DEF Crash
<1> QED
  BY <1>1, <1>2, <1>3, <1>4, <1>5


LEMMA WireTyped ==
    ASSUME TypeOK, NEW r \in Runs,
           \/ Post(r) \/ OrderRejected(r)
           \/ \E w \in wire : Execute(w) \/ ExecutePart(w) \/ Lose(w)
    PROVE  TypeOK'
<1> USE DEF TypeOK
<1>1. CASE Post(r)
  <2>1. PICK o \in todo[r] :
          /\ wire' = wire \cup {[run |-> r, sym |-> o.sym, side |-> o.side,
                                 qty |-> Sent(view[r], o)]}
          /\ todo' = [todo EXCEPT ![r] = @ \ {o}]
          /\ cur' = [cur EXCEPT ![r] = o.sym]
          /\ posts' = [posts EXCEPT ![r][o.sym] = @ + 1]
    BY <1>1 DEF Post
  <2>2. o \in Orders
    BY <2>1
  <2>3. o.sym \in Symbols /\ o.side \in Sides /\ Sent(view[r], o) \in Nat
    BY <2>2, ViewTyped, SentNat DEF Orders
  <2>4. wire' \subseteq WireOrders
    BY <2>1, <2>3 DEF WireOrders
  <2>5. todo' \in [Runs -> SUBSET Orders] /\ cur' \in [Runs -> Symbols \cup {0}]
    BY <2>1, <2>3
  <2>6. posts' \in [Runs -> [Symbols -> Nat]]
    <3>1. posts[r] \in [Symbols -> Nat]
      OBVIOUS
    <3>2. posts' = [posts EXCEPT ![r] = [posts[r] EXCEPT ![o.sym] = posts[r][o.sym] + 1]]
      BY <2>1, <2>3
    <3>3. [posts[r] EXCEPT ![o.sym] = posts[r][o.sym] + 1] \in [Symbols -> Nat]
      BY <2>3, <3>1
    <3> QED
      BY <3>2, <3>3
  <2>7. pc' \in [Runs -> Stages]
    BY <1>1, GotoTyped DEF Post, Stages, Cleared
  <2> QED
    BY <1>1, <2>4, <2>5, <2>6, <2>7, FaultTyped DEF Post
<1>2. CASE OrderRejected(r)
  <2>1. pc' \in [Runs -> Stages]
    BY <1>2, GotoTyped DEF OrderRejected, Stages, Cleared
  <2>2. log' \in [Runs -> SUBSET Lines]
    BY <1>2, WriteTyped DEF OrderRejected, Events
  <2>3. wire' \subseteq WireOrders
    BY <1>2 DEF OrderRejected
  <2>4. faults' \in 0..MaxFaults
    BY <1>2, FaultTyped DEF OrderRejected
  <2> QED
    BY <1>2, <2>1, <2>2, <2>3, <2>4 DEF OrderRejected
<1>3. ASSUME NEW w \in wire, NEW qty \in Int, Fill(w, qty), faults' \in 0..MaxFaults
      PROVE  TypeOK'
  <2>1. w.sym \in Symbols
    BY DEF WireOrders
  <2>2. pos' \in [Symbols -> Int]
    BY <1>3, <2>1 DEF Fill
  <2>3. wire' \subseteq WireOrders
    BY <1>3 DEF Fill
  <2> QED
    BY <1>3, <2>2, <2>3 DEF Fill, process
<1>4. ASSUME NEW w \in wire, Execute(w)
      PROVE  TypeOK'
  <2>1. w.qty \in Int
    BY DEF WireOrders
  <2> QED
    BY <1>3, <1>4, <2>1, FaultTyped DEF Execute
<1>5. ASSUME NEW w \in wire, ExecutePart(w)
      PROVE  TypeOK'
  BY <1>3, <1>5, FaultTyped DEF ExecutePart
<1>6. ASSUME NEW w \in wire, Lose(w)
      PROVE  TypeOK'
  BY <1>6, FaultTyped DEF Lose, process
<1> QED
  BY <1>1, <1>2, <1>4, <1>5, <1>6

LEMMA WorldTyped ==
    ASSUME TypeOK, MarketMoves \/ TouchKill \/ RemoveKill
    PROVE  TypeOK'
<1> USE DEF TypeOK, exchange, process
<1>1. CASE MarketMoves
  BY <1>1 DEF MarketMoves
<1>2. CASE TouchKill
  BY <1>2 DEF TouchKill
<1>3. CASE RemoveKill
  BY <1>3 DEF RemoveKill
<1> QED
  BY <1>1, <1>2, <1>3

LEMMA InitTyped == Init => TypeOK
<1> SUFFICES ASSUME Init
             PROVE  TypeOK
  OBVIOUS
<1>1. kill \in BOOLEAN
  <2>1. CASE "kill" \in Faults
    BY <2>1 DEF Init
  <2>2. CASE "kill" \notin Faults
    BY <2>2 DEF Init
  <2> QED
    BY <2>1, <2>2
<1>2. pos \in [Symbols -> Int] /\ faults \in 0..MaxFaults
  BY AssumptionsHold DEF Init, Assumptions
<1>3. view \in [Runs -> Views]
  BY NoViewTyped DEF Init
<1>4. posts \in [Runs -> [Symbols -> Nat]]
  BY DEF Init
<1> QED
  BY <1>1, <1>2, <1>3, <1>4 DEF Init, TypeOK, Stages

LEMMA StepTyped == TypeOK /\ [Next]_vars => TypeOK'
<1> SUFFICES ASSUME TypeOK, [Next]_vars
             PROVE  TypeOK'
  OBVIOUS
<1>1. ASSUME NEW r \in Runs, RunStep(r) \/ RunFault(r)
      PROVE  TypeOK'
  BY <1>1, ReadingTyped, PlanningTyped, LeverageTyped, TradingTyped, WireTyped
     DEF RunStep, RunFault
<1>2. CASE ExchangeStep
  <2>1. PICK w \in wire : Execute(w) \/ ExecutePart(w) \/ Lose(w)
    BY <1>2 DEF ExchangeStep
  <2>2. w.run \in Runs
    BY DEF TypeOK, WireOrders
  <2> QED
    BY <2>1, <2>2, WireTyped
<1>3. CASE MarketMoves \/ TouchKill \/ RemoveKill
  BY <1>3, WorldTyped
<1>4. CASE UNCHANGED vars
  BY <1>4 DEF TypeOK, vars, exchange, process
<1> QED
  BY <1>1, <1>2, <1>3, <1>4 DEF Next

\* Type correctness: every variable of the executor, its exchange and its log
\* keeps its type, whatever the runs, the books, the markets and the faults are.
THEOREM TypeCorrect == Spec => []TypeOK
<1>1. Init => TypeOK
  BY InitTyped
<1>2. TypeOK /\ [Next]_vars => TypeOK'
  BY StepTyped
<1> QED
  BY <1>1, <1>2, PTL DEF Spec


-----------------------------------------------------------------------------
(***************************************************************************)
(* The inductive invariant.  The safety properties are not inductive: that *)
(* an order is not sent twice follows from what todo still holds, that a   *)
(* posted order belongs to a plan that passed every check from how todo    *)
(* and view are tied to pc, and the audit trail from which order the run   *)
(* has in hand at each point.                                              *)
(***************************************************************************)
Planning == {"idle", "plan"} \cup Reading

\* Before it is cleared, a run has sent nothing and logged no order.
NothingYet(r) ==
    /\ pc[r] \in Planning => todo[r] = {}
    /\ pc[r] = "check" => todo[r] = Reconcile(view[r])
    /\ pc[r] \in Planning \cup {"check"} =>
         /\ \A s \in Symbols : posts[r][s] = 0
         /\ LogOf(r, "order_placed") = {}

\* What is left to send is part of the plan and was not sent before.
Unsent(r) ==
    /\ todo[r] \subseteq Reconcile(view[r])
    /\ \A o \in todo[r] : posts[r][o.sym] = 0

PlanPassed(r) == view[r].live /\ ~Preflight(view[r], Reconcile(view[r]), FALSE)

TradesPassedPlan(r) ==
    /\ pc[r] \in Cleared => PlanPassed(r)
    /\ (\E s \in Symbols : posts[r][s] > 0) => PlanPassed(r)

SendsOnce(r) == \A s \in Symbols : posts[r][s] <= 1

ClosesSentFirst(r) ==
    \A o, c \in Reconcile(view[r]) :
        o.reason # "close" /\ c.reason = "close" /\ posts[r][o.sym] > 0
            => c \notin todo[r]

\* Which line the log may lack, at each point of the run.
OrderInHand(r) ==
    /\ \A s \in Symbols : posts[r][s] > 0 => s \in LogOf(r, "order_placed")
    /\ pc[r] \notin {"post", "await", "crashed"} => Unanswered(r) = {}
    /\ pc[r] = "await" => Unanswered(r) \subseteq {cur[r]}
    /\ pc[r] = "post" =>
         \E o \in todo[r] :
            /\ IsNext(o, todo[r])
            /\ o.sym \in LogOf(r, "order_placed")
            /\ Unanswered(r) \subseteq {o.sym}
    /\ \A s, t \in Unanswered(r) : s = t

KnownToKill(r) == kill /\ pc[r] \in Cleared => r \in armed

RunInv(r) ==
    /\ NothingYet(r) /\ Unsent(r) /\ TradesPassedPlan(r)
    /\ SendsOnce(r) /\ ClosesSentFirst(r) /\ OrderInHand(r)

IInv ==
    /\ TypeOK
    /\ \A r \in Runs : RunInv(r) /\ KnownToKill(r)


-----------------------------------------------------------------------------
(* Steps that leave the order lines of a run alone.                        *)

OrderEvents == {"order_placed"} \cup Outcomes

SameLines(r) ==
    \A e \in OrderEvents, s \in Symbols : <<e, s>> \in log'[r] <=> <<e, s>> \in log[r]

LEMMA SameLinesSameLog ==
    ASSUME NEW r \in Runs, SameLines(r)
    PROVE  /\ LogOf(r, "order_placed")' = LogOf(r, "order_placed")
           /\ Unanswered(r)' = Unanswered(r)
<1>1. \A s \in Symbols :
        /\ <<"order_placed", s>> \in log'[r] <=> <<"order_placed", s>> \in log[r]
        /\ \A e \in Outcomes : <<e, s>> \in log'[r] <=> <<e, s>> \in log[r]
  BY DEF SameLines, OrderEvents
<1>2. LogOf(r, "order_placed")' = LogOf(r, "order_placed")
  BY <1>1 DEF LogOf
<1>3. Unanswered(r)' =
        {s \in LogOf(r, "order_placed")' : \A e \in Outcomes : <<e, s>> \notin log'[r]}
  BY DEF Unanswered
<1>4. \A s \in LogOf(r, "order_placed") : s \in Symbols
  BY DEF LogOf
<1> QED
  BY <1>1, <1>2, <1>3, <1>4 DEF Unanswered

LEMMA OtherLine ==
    ASSUME TypeOK, NEW r \in Runs, NEW e, NEW s, Write(r, e, s),
           e \notin OrderEvents
    PROVE  SameLines(r)
BY DEF TypeOK, Write, SameLines

\* A run only writes its own lines and moves its own pc.
LEMMA GotoOwn ==
    ASSUME TypeOK, NEW r \in Runs, NEW from, NEW to, Goto(r, from, to)
    PROVE  /\ pc[r] = from /\ pc'[r] = to
           /\ \A q \in Runs \ {r} : pc'[q] = pc[q]
BY DEF TypeOK, Goto

LEMMA WriteOwn ==
    ASSUME TypeOK, NEW r \in Runs, NEW e, NEW s, Write(r, e, s)
    PROVE  /\ log'[r] = log[r] \cup {<<e, s>>}
           /\ \A q \in Runs \ {r} : log'[q] = log[q]
BY DEF TypeOK, Write

\* What RunInv(r) reads of a run.
Untouched(r) ==
    /\ pc'[r] = pc[r] /\ view'[r] = view[r] /\ todo'[r] = todo[r]
    /\ cur'[r] = cur[r] /\ log'[r] = log[r] /\ posts'[r] = posts[r]

LEMMA Frame ==
    ASSUME NEW r \in Runs, RunInv(r), Untouched(r)
    PROVE  RunInv(r)'
<1>1. SameLines(r)
  BY DEF Untouched, SameLines
<1>2. /\ LogOf(r, "order_placed")' = LogOf(r, "order_placed")
      /\ Unanswered(r)' = Unanswered(r)
  BY <1>1, SameLinesSameLog
<1>3. NothingYet(r)'
  BY <1>2 DEF RunInv, NothingYet, Untouched
<1>4. Unsent(r)' /\ SendsOnce(r)' /\ ClosesSentFirst(r)'
  BY DEF RunInv, Unsent, SendsOnce, ClosesSentFirst, Untouched
<1>5. TradesPassedPlan(r)'
  BY DEF RunInv, TradesPassedPlan, PlanPassed, Untouched
<1>6. OrderInHand(r)'
  BY <1>2 DEF RunInv, OrderInHand, Untouched
<1> QED
  BY <1>3, <1>4, <1>5, <1>6 DEF RunInv

LEMMA ReadingStep ==
    ASSUME TypeOK, NEW r \in Runs, RunInv(r), pc[r] \in Planning,
           pc'[r] \in Planning \cup {"halted", "raised"},
           todo'[r] = todo[r], posts'[r] = posts[r], SameLines(r)
    PROVE  RunInv(r)'
<1>1. /\ LogOf(r, "order_placed")' = LogOf(r, "order_placed")
      /\ Unanswered(r)' = Unanswered(r)
  BY SameLinesSameLog
<1>2. /\ todo[r] = {} /\ LogOf(r, "order_placed") = {} /\ Unanswered(r) = {}
      /\ \A s \in Symbols : posts[r][s] = 0
  BY DEF RunInv, NothingYet, Unanswered
<1>3. NothingYet(r)'
  BY <1>1, <1>2 DEF NothingYet, Planning, Reading
<1>4. Unsent(r)' /\ SendsOnce(r)'
  BY <1>2 DEF Unsent, SendsOnce
<1>5. ClosesSentFirst(r)'
  BY <1>2 DEF ClosesSentFirst
<1>6. TradesPassedPlan(r)'
  BY <1>2 DEF TradesPassedPlan, Planning, Reading, Cleared
<1>7. OrderInHand(r)'
  BY <1>1, <1>2 DEF OrderInHand, Planning, Reading
<1> QED
  BY <1>3, <1>4, <1>5, <1>6, <1>7 DEF RunInv

\* The plan is made: it stays as it is until the run moves on, dies or ends.
LEMMA PlanKept ==
    ASSUME TypeOK, NEW r \in Runs, RunInv(r),
           pc'[r] \notin Planning \cup {"check", "post", "await"},
           pc'[r] \in Cleared => PlanPassed(r),
           pc'[r] # "crashed" => Unanswered(r) = {},
           view'[r] = view[r], todo'[r] = todo[r], posts'[r] = posts[r],
           SameLines(r)
    PROVE  RunInv(r)'
<1>1. /\ LogOf(r, "order_placed")' = LogOf(r, "order_placed")
      /\ Unanswered(r)' = Unanswered(r)
  BY SameLinesSameLog
<1>2. NothingYet(r)'
  BY DEF NothingYet
<1>3. Unsent(r)' /\ SendsOnce(r)' /\ ClosesSentFirst(r)'
  BY DEF RunInv, Unsent, SendsOnce, ClosesSentFirst
<1>4. TradesPassedPlan(r)'
  BY DEF RunInv, TradesPassedPlan, PlanPassed
<1>5. OrderInHand(r)'
  BY <1>1 DEF RunInv, OrderInHand
<1> QED
  BY <1>2, <1>3, <1>4, <1>5 DEF RunInv


-----------------------------------------------------------------------------
(* One step of a run.  OwnStep: the step leaves the other runs alone.      *)

OwnStep(r) == \A q \in Runs \ {r} : Untouched(q)

LEMMA ReadingKeeps ==
    ASSUME TypeOK, NEW r \in Runs, RunInv(r),
           \/ Start(r) \/ StartKilled(r) \/ ReadAccount(r) \/ ReadSpecs(r)
           \/ ReadPrices(r) \/ ReadPositions(r) \/ ReadRaises(r)
    PROVE  RunInv(r)' /\ OwnStep(r)
<1> USE DEF OwnStep, Untouched, Environment
<1>0. ASSUME UNCHANGED log
      PROVE  SameLines(r)
  BY <1>0 DEF SameLines
<1>1. CASE Start(r)
  <2>1. PICK b \in Books, live \in Modes :
          view' = [view EXCEPT ![r].book = b, ![r].live = live]
    BY <1>1 DEF Start
  <2>2. \A q \in Runs \ {r} : view'[q] = view[q]
    BY <2>1 DEF TypeOK
  <2>3. pc[r] = "idle" /\ pc'[r] = "account" /\ \A q \in Runs \ {r} : pc'[q] = pc[q]
    BY <1>1, GotoOwn DEF Start
  <2> QED
    BY <1>0, <1>1, <2>2, <2>3, ReadingStep DEF Start, Planning, Reading
<1>2. CASE StartKilled(r)
  <2>1. pc[r] = "idle" /\ pc'[r] = "halted" /\ \A q \in Runs \ {r} : pc'[q] = pc[q]
    BY <1>2, GotoOwn DEF StartKilled
  <2>2. SameLines(r) /\ \A q \in Runs \ {r} : log'[q] = log[q]
    BY <1>2, OtherLine, WriteOwn DEF StartKilled, OrderEvents, Outcomes
  <2> QED
    BY <1>2, <2>1, <2>2, ReadingStep DEF StartKilled, Planning
<1>3. CASE ReadAccount(r)
  <2>1. pc[r] = "account" /\ pc'[r] = "specs" /\ \A q \in Runs \ {r} : pc'[q] = pc[q]
    BY <1>3, GotoOwn DEF ReadAccount
  <2>2. SameLines(r) /\ \A q \in Runs \ {r} : log'[q] = log[q]
    BY <1>3, OtherLine, WriteOwn DEF ReadAccount, OrderEvents, Outcomes
  <2>3. \A q \in Runs \ {r} : view'[q] = view[q]
    BY <1>3 DEF ReadAccount, TypeOK
  <2> QED
    BY <1>3, <2>1, <2>2, <2>3, ReadingStep DEF ReadAccount, Planning, Reading
<1>4. CASE ReadSpecs(r)
  <2>1. pc[r] = "specs" /\ pc'[r] = "prices" /\ \A q \in Runs \ {r} : pc'[q] = pc[q]
    BY <1>4, GotoOwn DEF ReadSpecs
  <2>2. \A q \in Runs \ {r} : view'[q] = view[q]
    BY <1>4 DEF ReadSpecs, TypeOK
  <2> QED
    BY <1>0, <1>4, <2>1, <2>2, ReadingStep DEF ReadSpecs, Planning, Reading
<1>5. CASE ReadPrices(r)
  <2>1. pc[r] = "prices" /\ pc'[r] = "positions" /\ \A q \in Runs \ {r} : pc'[q] = pc[q]
    BY <1>5, GotoOwn DEF ReadPrices
  <2>2. \A q \in Runs \ {r} : view'[q] = view[q]
    BY <1>5 DEF ReadPrices, TypeOK
  <2> QED
    BY <1>0, <1>5, <2>1, <2>2, ReadingStep DEF ReadPrices, Planning, Reading
<1>6. CASE ReadPositions(r)
  <2>1. pc[r] = "positions" /\ pc'[r] = "plan" /\ \A q \in Runs \ {r} : pc'[q] = pc[q]
    BY <1>6, GotoOwn DEF ReadPositions
  <2>2. \A q \in Runs \ {r} : view'[q] = view[q]
    BY <1>6 DEF ReadPositions, TypeOK
  <2> QED
    BY <1>0, <1>6, <2>1, <2>2, ReadingStep DEF ReadPositions, Planning, Reading
<1>7. CASE ReadRaises(r)
  <2>1. pc[r] \in Reading /\ pc'[r] = "raised" /\ \A q \in Runs \ {r} : pc'[q] = pc[q]
    BY <1>7 DEF ReadRaises, TypeOK
  <2>2. SameLines(r) /\ \A q \in Runs \ {r} : log'[q] = log[q]
    <3>1. CASE pc[r] = "account"
      BY <1>7, <3>1, OtherLine, WriteOwn DEF ReadRaises, OrderEvents, Outcomes
    <3>2. CASE pc[r] # "account"
      BY <1>0, <1>7, <3>2 DEF ReadRaises
    <3> QED
      BY <3>1, <3>2
  <2> QED
    BY <1>7, <2>1, <2>2, ReadingStep DEF ReadRaises, Planning
<1> QED
  BY <1>1, <1>2, <1>3, <1>4, <1>5, <1>6, <1>7

LEMMA MakePlanKeeps ==
    ASSUME TypeOK, NEW r \in Runs, RunInv(r), MakePlan(r)
    PROVE  RunInv(r)' /\ OwnStep(r)
<1>1. pc[r] = "plan" /\ pc'[r] = "check" /\ \A q \in Runs \ {r} : pc'[q] = pc[q]
  BY GotoOwn DEF MakePlan
<1>2. SameLines(r) /\ \A q \in Runs \ {r} : log'[q] = log[q]
  BY OtherLine, WriteOwn DEF MakePlan, OrderEvents, Outcomes
<1>3. /\ view' = view /\ cur' = cur /\ posts' = posts
      /\ todo'[r] = Reconcile(view[r])
      /\ \A q \in Runs \ {r} : todo'[q] = todo[q]
  BY DEF MakePlan, Environment, TypeOK
<1>4. /\ LogOf(r, "order_placed")' = LogOf(r, "order_placed")
      /\ Unanswered(r)' = Unanswered(r)
  BY <1>2, SameLinesSameLog
<1>5. /\ LogOf(r, "order_placed") = {} /\ Unanswered(r) = {}
      /\ \A s \in Symbols : posts[r][s] = 0
  BY <1>1 DEF RunInv, NothingYet, Planning, Unanswered
<1>6. NothingYet(r)'
  BY <1>1, <1>3, <1>4, <1>5 DEF NothingYet, Planning, Reading
<1>7. \A o \in Reconcile(view[r]) : o.sym \in Symbols
  BY DEF Reconcile, PlannedOrder, Considered
<1>8. Unsent(r)' /\ SendsOnce(r)'
  BY <1>3, <1>5, <1>7 DEF Unsent, SendsOnce
<1>9. ClosesSentFirst(r)' /\ TradesPassedPlan(r)'
  BY <1>1, <1>3, <1>5, <1>7 DEF ClosesSentFirst, TradesPassedPlan, Cleared
<1>10. OrderInHand(r)'
  BY <1>1, <1>3, <1>4, <1>5 DEF OrderInHand
<1> QED
  BY <1>1, <1>2, <1>3, <1>6, <1>8, <1>9, <1>10 DEF RunInv, OwnStep, Untouched

LEMMA PreflightIgnoringKill ==
    ASSUME NEW v, NEW orders, NEW k, ~Preflight(v, orders, k)
    PROVE  ~k /\ ~Preflight(v, orders, FALSE)
BY DEF Preflight

LEMMA CheckKeeps ==
    ASSUME TypeOK, NEW r \in Runs, RunInv(r),
           \/ CheckBlocks(r) \/ CheckDryRun(r) \/ CheckNothingToDo(r)
           \/ CheckClears(r)
    PROVE  RunInv(r)' /\ OwnStep(r)
<1> USE DEF OwnStep, Untouched, Environment
<1>1. pc[r] = "check" /\ \A q \in Runs \ {r} : pc'[q] = pc[q]
  BY GotoOwn DEF CheckBlocks, CheckDryRun, CheckNothingToDo, CheckClears
<1>2. todo[r] = Reconcile(view[r]) /\ Unanswered(r) = {}
  BY <1>1 DEF RunInv, NothingYet, Unanswered
<1>3. ASSUME UNCHANGED log
      PROVE  SameLines(r)
  BY <1>3 DEF SameLines
<1>4. CASE CheckBlocks(r)
  <2>1. pc'[r] = "blocked"
    BY <1>4, GotoOwn DEF CheckBlocks
  <2>2. SameLines(r) /\ \A q \in Runs \ {r} : log'[q] = log[q]
    BY <1>4, OtherLine, WriteOwn DEF CheckBlocks, OrderEvents, Outcomes
  <2> QED
    BY <1>1, <1>2, <1>4, <2>1, <2>2, PlanKept DEF CheckBlocks, Planning, Reading, Cleared
<1>5. CASE CheckDryRun(r)
  <2>1. pc'[r] = "dry"
    BY <1>5, GotoOwn DEF CheckDryRun
  <2> QED
    BY <1>1, <1>2, <1>3, <1>5, <2>1, PlanKept DEF CheckDryRun, Planning, Reading, Cleared
<1>6. CASE CheckNothingToDo(r)
  <2>1. pc'[r] = "complete"
    BY <1>6, GotoOwn DEF CheckNothingToDo
  <2>2. SameLines(r) /\ \A q \in Runs \ {r} : log'[q] = log[q]
    BY <1>6, OtherLine, WriteOwn DEF CheckNothingToDo, OrderEvents, Outcomes
  <2> QED
    BY <1>1, <1>2, <1>6, <2>1, <2>2, PlanKept DEF CheckNothingToDo, Planning, Reading, Cleared
<1>7. CASE CheckClears(r)
  <2>1. pc'[r] = "leverage"
    BY <1>7, GotoOwn DEF CheckClears
  <2>2. PlanPassed(r)
    BY <1>2, <1>7, PreflightIgnoringKill DEF CheckClears, PlanPassed
  <2> QED
    BY <1>1, <1>2, <1>3, <1>7, <2>1, <2>2, PlanKept DEF CheckClears, Planning, Reading
<1> QED
  BY <1>4, <1>5, <1>6, <1>7

LEMMA LeverageKeeps ==
    ASSUME TypeOK, NEW r \in Runs, RunInv(r), SetLeverage(r) \/ SetLeverageRaises(r)
    PROVE  RunInv(r)' /\ OwnStep(r)
<1>1. PICK o \in uncapped[r] :
        /\ AfterLeverage(r, o)
        /\ UNCHANGED log \/ Write(r, "error", o.sym)
  BY DEF SetLeverage, SetLeverageRaises
<1>2. /\ pc[r] = "leverage" /\ pc'[r] \in {"orders", "leverage"}
      /\ \A q \in Runs \ {r} : pc'[q] = pc[q]
  BY <1>1, GotoOwn DEF AfterLeverage
<1>3. SameLines(r) /\ \A q \in Runs \ {r} : log'[q] = log[q]
  <2>1. CASE UNCHANGED log
    BY <2>1 DEF SameLines
  <2>2. CASE Write(r, "error", o.sym)
    BY <2>2, OtherLine, WriteOwn DEF OrderEvents, Outcomes
  <2> QED
    BY <1>1, <2>1, <2>2
<1>4. view' = view /\ todo' = todo /\ cur' = cur /\ posts' = posts
  BY DEF SetLeverage, SetLeverageRaises, Environment
<1>5. PlanPassed(r) /\ Unanswered(r) = {}
  BY <1>2 DEF RunInv, TradesPassedPlan, OrderInHand, Cleared
<1>6. RunInv(r)'
  BY <1>2, <1>3, <1>4, <1>5, PlanKept DEF Planning, Reading
<1> QED
  BY <1>2, <1>3, <1>4, <1>6 DEF OwnStep, Untouched


\* The order taken gets its order_placed line before the run can post it; one
\* that rounds to zero leaves the plan.
LEMMA TakeOrderKeeps ==
    ASSUME TypeOK, NEW r \in Runs, RunInv(r), TakeOrder(r)
    PROVE  RunInv(r)' /\ OwnStep(r)
<1>1. PICK o \in todo[r] :
        /\ IsNext(o, todo[r])
        /\ IF Sent(view[r], o) > 0
           THEN /\ Goto(r, "orders", "post")
                /\ Write(r, "order_placed", o.sym)
                /\ UNCHANGED todo
           ELSE /\ Write(r, "order_skipped", o.sym)
                /\ todo' = [todo EXCEPT ![r] = @ \ {o}]
                /\ UNCHANGED pc
  BY DEF TakeOrder
<1>2. /\ pc[r] = "orders" /\ view' = view /\ cur' = cur /\ posts' = posts
  BY DEF TakeOrder, Environment
<1>3. o \in Reconcile(view[r]) /\ posts[r][o.sym] = 0 /\ o.sym \in Symbols
  BY DEF RunInv, Unsent, TypeOK, Orders
<1>4. Unanswered(r) = {} /\ PlanPassed(r)
  BY <1>2 DEF RunInv, OrderInHand, TradesPassedPlan, Cleared
<1>5. CASE Sent(view[r], o) > 0
  <2>1. /\ pc'[r] = "post" /\ \A q \in Runs \ {r} : pc'[q] = pc[q]
        /\ log'[r] = log[r] \cup {<<"order_placed", o.sym>>}
        /\ \A q \in Runs \ {r} : log'[q] = log[q]
        /\ todo' = todo
    BY <1>1, <1>5, GotoOwn, WriteOwn
  <2>2. LogOf(r, "order_placed")' = LogOf(r, "order_placed") \cup {o.sym}
    BY <1>3, <2>1 DEF LogOf
  <2>3. Unanswered(r)' \subseteq {o.sym}
    <3>1. \A s \in Symbols, e \in Outcomes : <<e, s>> \in log[r] => <<e, s>> \in log'[r]
      BY <2>1
    <3> QED
      BY <1>4, <2>2, <3>1 DEF Unanswered, LogOf
  <2>4. NothingYet(r)' /\ Unsent(r)' /\ SendsOnce(r)' /\ ClosesSentFirst(r)'
    BY <1>2, <2>1 DEF RunInv, NothingYet, Unsent, SendsOnce, ClosesSentFirst,
                      Planning, Reading
  <2>5. TradesPassedPlan(r)'
    BY <1>2, <1>4, <2>1 DEF TradesPassedPlan, PlanPassed
  <2>6. OrderInHand(r)'
    BY <1>1, <1>2, <2>1, <2>2, <2>3 DEF RunInv, OrderInHand
  <2> QED
    BY <1>2, <2>1, <2>4, <2>5, <2>6 DEF RunInv, OwnStep, Untouched
<1>6. CASE ~(Sent(view[r], o) > 0)
  <2>1. /\ Write(r, "order_skipped", o.sym)
        /\ todo'[r] = todo[r] \ {o}
        /\ \A q \in Runs \ {r} : todo'[q] = todo[q]
        /\ pc' = pc
    BY <1>1, <1>6 DEF TypeOK
  <2>2. SameLines(r) /\ \A q \in Runs \ {r} : log'[q] = log[q]
    BY <2>1, OtherLine, WriteOwn DEF OrderEvents, Outcomes
  <2>3. /\ LogOf(r, "order_placed")' = LogOf(r, "order_placed")
        /\ Unanswered(r)' = Unanswered(r)
    BY <2>2, SameLinesSameLog
  <2>4. NothingYet(r)' /\ Unsent(r)' /\ SendsOnce(r)' /\ ClosesSentFirst(r)'
    BY <1>2, <2>1 DEF RunInv, NothingYet, Unsent, SendsOnce, ClosesSentFirst,
                      Planning, Reading
  <2>5. TradesPassedPlan(r)'
    BY <1>2, <1>4, <2>1 DEF TradesPassedPlan, PlanPassed
  <2>6. OrderInHand(r)'
    BY <1>2, <2>1, <2>3 DEF RunInv, OrderInHand
  <2> QED
    BY <1>2, <2>1, <2>2, <2>4, <2>5, <2>6 DEF RunInv, OwnStep, Untouched
<1> QED
  BY <1>5, <1>6

\* Posting: the order is the one that was logged, it was not sent before, and
\* if it is no close then no close is left in the plan.
LEMMA PostKeeps ==
    ASSUME TypeOK, NEW r \in Runs, RunInv(r), Post(r)
    PROVE  RunInv(r)' /\ OwnStep(r)
<1>1. PICK o \in todo[r] :
        /\ IsNext(o, todo[r])
        /\ todo' = [todo EXCEPT ![r] = @ \ {o}]
        /\ cur' = [cur EXCEPT ![r] = o.sym]
        /\ posts' = [posts EXCEPT ![r][o.sym] = @ + 1]
  BY DEF Post
<1>2. /\ pc[r] = "post" /\ pc'[r] = "await" /\ \A q \in Runs \ {r} : pc'[q] = pc[q]
      /\ view' = view /\ log' = log
  BY GotoOwn DEF Post
<1>3. o.sym \in Symbols /\ o \in Reconcile(view[r]) /\ posts[r][o.sym] = 0
  BY DEF RunInv, Unsent, TypeOK, Orders
<1>4. /\ todo'[r] = todo[r] \ {o} /\ cur'[r] = o.sym
      /\ \A q \in Runs \ {r} : todo'[q] = todo[q] /\ cur'[q] = cur[q] /\ posts'[q] = posts[q]
      /\ posts'[r] = [posts[r] EXCEPT ![o.sym] = @ + 1]
  BY <1>1 DEF TypeOK
<1>5. /\ posts'[r][o.sym] = 1
      /\ \A s \in Symbols \ {o.sym} : posts'[r][s] = posts[r][s]
  BY <1>3, <1>4 DEF TypeOK
<1>6. o.sym \in LogOf(r, "order_placed") /\ Unanswered(r) \subseteq {o.sym}
  <2>1. PICK p \in todo[r] :
          /\ IsNext(p, todo[r])
          /\ p.sym \in LogOf(r, "order_placed")
          /\ Unanswered(r) \subseteq {p.sym}
    BY <1>2 DEF RunInv, OrderInHand
  <2>2. todo[r] \in SUBSET Orders
    BY DEF TypeOK
  <2>3. p = o
    BY <1>1, <2>1, <2>2, NextUnique
  <2> QED
    BY <2>1, <2>3
<1>7. /\ LogOf(r, "order_placed")' = LogOf(r, "order_placed")
      /\ Unanswered(r)' = Unanswered(r)
  BY <1>2, SameLinesSameLog DEF SameLines
<1>8. NothingYet(r)'
  BY <1>2 DEF NothingYet, Planning, Reading
<1>9. Unsent(r)'
  <2>1. \A p \in todo'[r] : p \in todo[r] /\ p.sym \in Symbols /\ p.sym # o.sym
    BY <1>3, <1>4, PlanFunctional DEF RunInv, Unsent, TypeOK, Orders
  <2> QED
    BY <1>2, <1>5, <2>1 DEF RunInv, Unsent
<1>10. SendsOnce(r)'
  BY <1>5 DEF RunInv, SendsOnce
<1>11. TradesPassedPlan(r)'
  BY <1>2 DEF RunInv, TradesPassedPlan, PlanPassed, Cleared
<1>12. ClosesSentFirst(r)'
  <2> SUFFICES ASSUME NEW p \in Reconcile(view[r]), NEW c \in Reconcile(view[r]),
                      p.reason # "close", c.reason = "close", posts'[r][p.sym] > 0
               PROVE  c \notin todo'[r]
    BY <1>2 DEF ClosesSentFirst
  <2>1. p.sym \in Symbols
    BY DEF Reconcile, PlannedOrder, Considered
  <2>2. CASE p.sym = o.sym
    <3>1. p = o
      BY <1>3, <2>2, PlanFunctional
    <3>2. ASSUME c \in todo[r] \ {o}
          PROVE  FALSE
      BY <1>1, <3>1, <3>2 DEF IsNext, Before
    <3> QED
      BY <1>4, <3>2
  <2>3. CASE p.sym # o.sym
    BY <1>4, <1>5, <2>1, <2>3 DEF RunInv, ClosesSentFirst
  <2> QED
    BY <2>2, <2>3
<1>13. OrderInHand(r)'
  BY <1>2, <1>4, <1>5, <1>6, <1>7 DEF RunInv, OrderInHand
<1> QED
  BY <1>2, <1>4, <1>8, <1>9, <1>10, <1>11, <1>12, <1>13 DEF RunInv, OwnStep, Untouched

\* Whatever the answer is, or if none comes, the order gets its outcome line.
LEMMA AnswerKeeps ==
    ASSUME TypeOK, NEW r \in Runs, RunInv(r),
           OrderReturns(r) \/ OrderRejected(r) \/ OrderTimesOut(r)
    PROVE  RunInv(r)' /\ OwnStep(r)
<1>1. PICK e \in Outcomes : Write(r, e, cur[r])
  BY DEF OrderReturns, OrderRejected, OrderTimesOut, Outcomes
<1>2. /\ pc[r] = "await" /\ pc'[r] = "orders" /\ \A q \in Runs \ {r} : pc'[q] = pc[q]
  BY GotoOwn DEF OrderReturns, OrderRejected, OrderTimesOut
<1>3. view' = view /\ todo' = todo /\ cur' = cur /\ posts' = posts
  BY DEF OrderReturns, OrderRejected, OrderTimesOut, Environment
<1>4. /\ log'[r] = log[r] \cup {<<e, cur[r]>>}
      /\ \A q \in Runs \ {r} : log'[q] = log[q]
  BY <1>1, WriteOwn
<1>5. e # "order_placed"
  BY DEF Outcomes
<1>6. LogOf(r, "order_placed")' = LogOf(r, "order_placed")
  BY <1>4, <1>5 DEF LogOf
<1>7. Unanswered(r) \subseteq {cur[r]}
  BY <1>2 DEF RunInv, OrderInHand
<1>8. Unanswered(r)' = {}
  <2>1. Unanswered(r)' =
          {s \in LogOf(r, "order_placed")' : \A x \in Outcomes : <<x, s>> \notin log'[r]}
    BY DEF Unanswered
  <2>2. \A s \in Unanswered(r)' : s \in Unanswered(r) /\ s # cur[r]
    BY <1>4, <1>6, <2>1 DEF Unanswered
  <2> QED
    BY <1>7, <2>2
<1>9. NothingYet(r)' /\ Unsent(r)' /\ SendsOnce(r)' /\ ClosesSentFirst(r)'
  BY <1>2, <1>3 DEF RunInv, NothingYet, Unsent, SendsOnce, ClosesSentFirst,
                    Planning, Reading
<1>10. TradesPassedPlan(r)'
  BY <1>2, <1>3 DEF RunInv, TradesPassedPlan, PlanPassed, Cleared
<1>11. OrderInHand(r)'
  BY <1>2, <1>3, <1>6, <1>8 DEF RunInv, OrderInHand
<1> QED
  BY <1>2, <1>3, <1>4, <1>9, <1>10, <1>11 DEF RunInv, OwnStep, Untouched

LEMMA EndingKeeps ==
    ASSUME TypeOK, NEW r \in Runs, RunInv(r), Complete(r) \/ Crash(r)
    PROVE  RunInv(r)' /\ OwnStep(r)
<1>1. CASE Complete(r)
  <2>1. pc[r] = "orders" /\ pc'[r] = "complete" /\ \A q \in Runs \ {r} : pc'[q] = pc[q]
    BY <1>1, GotoOwn DEF Complete
  <2>2. SameLines(r) /\ \A q \in Runs \ {r} : log'[q] = log[q]
    BY <1>1, OtherLine, WriteOwn DEF Complete, OrderEvents, Outcomes
  <2>3. Unanswered(r) = {}
    BY <2>1 DEF RunInv, OrderInHand
  <2>4. view' = view /\ todo' = todo /\ cur' = cur /\ posts' = posts
    BY <1>1 DEF Complete, Environment
  <2>5. RunInv(r)'
    BY <2>1, <2>2, <2>3, <2>4, PlanKept DEF Planning, Reading, Cleared
  <2> QED
    BY <2>1, <2>2, <2>4, <2>5 DEF OwnStep, Untouched
<1>2. CASE Crash(r)
  <2>1. pc'[r] = "crashed" /\ \A q \in Runs \ {r} : pc'[q] = pc[q]
    BY <1>2 DEF Crash, TypeOK
  <2>2. view' = view /\ todo' = todo /\ cur' = cur /\ posts' = posts /\ log' = log
    BY <1>2 DEF Crash, Environment
  <2>3. SameLines(r)
    BY <2>2 DEF SameLines
  <2>4. RunInv(r)'
    BY <2>1, <2>2, <2>3, PlanKept DEF Planning, Reading, Cleared
  <2> QED
    BY <2>1, <2>2, <2>4 DEF OwnStep, Untouched
<1> QED
  BY <1>1, <1>2


-----------------------------------------------------------------------------
(* The invariant holds in every state.                                     *)

LEMMA RunStepKeeps ==
    ASSUME TypeOK, NEW r \in Runs, RunInv(r), RunStep(r) \/ RunFault(r)
    PROVE  RunInv(r)' /\ OwnStep(r)
BY ReadingKeeps, MakePlanKeeps, CheckKeeps, LeverageKeeps, TakeOrderKeeps,
   PostKeeps, AnswerKeeps, EndingKeeps
   DEF RunStep, RunFault

\* The exchange, the market and the operator do not touch the runs.
LEMMA WorldKeepsRuns ==
    ASSUME ExchangeStep \/ MarketMoves \/ TouchKill \/ RemoveKill \/ UNCHANGED vars,
           NEW r \in Runs
    PROVE  Untouched(r)
BY DEF ExchangeStep, Execute, ExecutePart, Fill, Lose, MarketMoves, TouchKill,
       RemoveKill, vars, process, Untouched

\* The only way into Cleared is CheckClears, which looks at the kill switch.
LEMMA ClearsOnlyUnkilled ==
    ASSUME TypeOK, NEW r \in Runs, RunStep(r) \/ RunFault(r),
           pc[r] \notin Cleared, pc'[r] \in Cleared
    PROVE  ~kill
<1> USE DEF Cleared
<1>1. CASE CheckClears(r)
  BY <1>1, PreflightIgnoringKill DEF CheckClears
<1>2. CASE \/ Start(r) \/ StartKilled(r) \/ ReadAccount(r) \/ ReadSpecs(r)
           \/ ReadPrices(r) \/ ReadPositions(r) \/ MakePlan(r)
           \/ CheckBlocks(r) \/ CheckDryRun(r) \/ CheckNothingToDo(r)
           \/ Complete(r)
  BY <1>2, GotoOwn DEF Start, StartKilled, ReadAccount, ReadSpecs, ReadPrices,
     ReadPositions, MakePlan, CheckBlocks, CheckDryRun, CheckNothingToDo, Complete
<1>3. CASE \/ SetLeverage(r) \/ SetLeverageRaises(r) \/ TakeOrder(r) \/ Post(r)
           \/ OrderReturns(r) \/ OrderRejected(r) \/ OrderTimesOut(r)
  BY <1>3, GotoOwn DEF SetLeverage, SetLeverageRaises, AfterLeverage, TakeOrder,
     Post, OrderReturns, OrderRejected, OrderTimesOut
<1>4. CASE ReadRaises(r) \/ Crash(r)
  BY <1>4 DEF ReadRaises, Crash, TypeOK
<1> QED
  BY <1>1, <1>2, <1>3, <1>4 DEF RunStep, RunFault

LEMMA RunsLeaveKill ==
    ASSUME NEW r \in Runs, RunStep(r) \/ RunFault(r)
    PROVE  kill' = kill /\ armed' = armed
BY DEF RunStep, RunFault, Environment, Start, StartKilled, ReadAccount, ReadSpecs,
       ReadPrices, ReadPositions, ReadRaises, MakePlan, CheckBlocks, CheckDryRun,
       CheckNothingToDo, CheckClears, SetLeverage, SetLeverageRaises, TakeOrder,
       Post, OrderReturns, OrderRejected, OrderTimesOut, Complete, Crash

LEMMA KnownToKillKept ==
    ASSUME IInv, Next, NEW q \in Runs
    PROVE  KnownToKill(q)'
<1> USE DEF IInv, KnownToKill
<1>1. ASSUME NEW r \in Runs, RunStep(r) \/ RunFault(r)
      PROVE  KnownToKill(q)'
  <2>1. RunInv(r)' /\ OwnStep(r) /\ kill' = kill /\ armed' = armed
    BY <1>1, RunStepKeeps, RunsLeaveKill
  <2>2. CASE q = r
    BY <1>1, <2>1, <2>2, ClearsOnlyUnkilled
  <2>3. CASE q # r
    BY <2>1, <2>3 DEF OwnStep, Untouched
  <2> QED
    BY <2>2, <2>3
<1>2. CASE ExchangeStep \/ MarketMoves
  BY <1>2 DEF ExchangeStep, Execute, ExecutePart, Fill, Lose, MarketMoves, process
<1>3. CASE TouchKill
  BY <1>3 DEF TouchKill, process
<1>4. CASE RemoveKill
  BY <1>4 DEF RemoveKill
<1> QED
  BY <1>1, <1>2, <1>3, <1>4 DEF Next

LEMMA InitIInv == Init => IInv
<1> SUFFICES ASSUME Init, NEW r \in Runs
             PROVE  RunInv(r) /\ KnownToKill(r)
  BY InitTyped DEF IInv
<1>1. /\ pc[r] = "idle" /\ todo[r] = {} /\ log[r] = {}
      /\ \A s \in Symbols : posts[r][s] = 0
  BY DEF Init
<1>2. LogOf(r, "order_placed") = {} /\ Unanswered(r) = {}
  BY <1>1 DEF LogOf, Unanswered
<1>3. NothingYet(r) /\ Unsent(r) /\ SendsOnce(r)
  BY <1>1, <1>2 DEF NothingYet, Unsent, SendsOnce
<1>4. ClosesSentFirst(r) /\ TradesPassedPlan(r) /\ OrderInHand(r) /\ KnownToKill(r)
  BY <1>1, <1>2 DEF ClosesSentFirst, TradesPassedPlan, OrderInHand, KnownToKill, Cleared
<1> QED
  BY <1>3, <1>4 DEF RunInv

LEMMA StepIInv == IInv /\ [Next]_vars => IInv'
<1> SUFFICES ASSUME IInv, [Next]_vars
             PROVE  IInv'
  OBVIOUS
<1>1. TypeOK'
  BY StepTyped DEF IInv
<1>2. ASSUME NEW q \in Runs
      PROVE  RunInv(q)'
  <2>1. ASSUME NEW r \in Runs, RunStep(r) \/ RunFault(r)
        PROVE  RunInv(q)'
    <3>1. RunInv(r)' /\ OwnStep(r)
      BY <2>1, RunStepKeeps DEF IInv
    <3> QED
      BY <3>1, Frame DEF IInv, OwnStep
  <2>2. CASE ExchangeStep \/ MarketMoves \/ TouchKill \/ RemoveKill \/ UNCHANGED vars
    BY <2>2, WorldKeepsRuns, Frame DEF IInv
  <2> QED
    BY <2>1, <2>2 DEF Next
<1>3. ASSUME NEW q \in Runs
      PROVE  KnownToKill(q)'
  <2>1. CASE Next
    BY <2>1, KnownToKillKept
  <2>2. CASE UNCHANGED vars
    BY <2>2 DEF IInv, KnownToKill, vars, process
  <2> QED
    BY <2>1, <2>2
<1> QED
  BY <1>1, <1>2, <1>3 DEF IInv

THEOREM Inductive == Spec => []IInv
<1>1. Init => IInv
  BY InitIInv
<1>2. IInv /\ [Next]_vars => IInv'
  BY StepIInv
<1> QED
  BY <1>1, <1>2, PTL DEF Spec

-----------------------------------------------------------------------------
(* The safety properties.                                                  *)

\* The audit trail: however runs overlap, fail or die, an order that went to
\* the exchange has its line in execution_log.jsonl, and a run leaves at most
\* the last of its orders without an outcome.
THEOREM AuditTrailHolds == Spec => []AuditTrail
<1>1. IInv => AuditTrail
  <2> SUFFICES ASSUME IInv, NEW r \in Runs
               PROVE  /\ {s \in Symbols : posts[r][s] > 0} \subseteq LogOf(r, "order_placed")
                      /\ \A s, t \in Unanswered(r) : s = t
                      /\ Unanswered(r) # {} => pc[r] \in {"post", "await", "crashed"}
    BY DEF AuditTrail
  <2> QED
    BY DEF IInv, RunInv, OrderInHand
<1> QED
  BY <1>1, Inductive, PTL

\* No order is sent twice by a run, whatever becomes of the first one.
THEOREM OneOrderPerSymbolHolds == Spec => []OneOrderPerSymbol
<1>1. IInv => OneOrderPerSymbol
  BY DEF IInv, RunInv, SendsOnce, OneOrderPerSymbol
<1> QED
  BY <1>1, Inductive, PTL

\* A run that touched the exchange was live and its whole plan within limits.
THEOREM AllOrNothingHolds == Spec => []AllOrNothing
<1>1. IInv => AllOrNothing
  BY DEF IInv, RunInv, TradesPassedPlan, PlanPassed, AllOrNothing
<1> QED
  BY <1>1, Inductive, PTL

\* Every full close of a plan goes before its other orders.
THEOREM ClosesFirstHolds == Spec => []ClosesFirst
<1>1. IInv => ClosesFirst
  BY DEF IInv, RunInv, ClosesSentFirst, ClosesFirst
<1> QED
  BY <1>1, Inductive, PTL

\* While the kill switch is engaged, only runs already cleared when it was
\* engaged post orders.
THEOREM KillSwitchHoldsAlways == Spec => KillSwitchHolds
<1> DEFINE Sends == \A r \in Runs : posts'[r] # posts[r] /\ kill => r \in armed
<1>1. IInv /\ [Next]_vars => [Sends]_vars
  <2> SUFFICES ASSUME IInv, Next, NEW q \in Runs, posts'[q] # posts[q], kill
               PROVE  q \in armed
    OBVIOUS
  <2>1. PICK r \in Runs : RunStep(r) \/ RunFault(r)
    BY WorldKeepsRuns DEF Next, Untouched
  <2>2. q = r
    BY <2>1, RunStepKeeps DEF IInv, OwnStep, Untouched
  <2>3. Post(r)
    BY <2>1, <2>2 DEF RunStep, RunFault, Environment, Start, StartKilled,
       ReadAccount, ReadSpecs, ReadPrices, ReadPositions, ReadRaises, MakePlan,
       CheckBlocks, CheckDryRun, CheckNothingToDo, CheckClears, SetLeverage,
       SetLeverageRaises, TakeOrder, OrderReturns, OrderRejected, OrderTimesOut,
       Complete, Crash
  <2>4. pc[r] = "post"
    BY <2>3 DEF Post, Goto
  <2> QED
    BY <2>2, <2>4 DEF IInv, KnownToKill, Cleared
<1> QED
  BY <1>1, Inductive, PTL DEF Spec, KillSwitchHolds

=============================================================================
