------------------------- MODULE ExecutorRefinement -------------------------
(***************************************************************************)
(* Executor implements Allowance: for any number of overlapping runs and   *)
(* every fault, each run moves each position at most once, in the planned  *)
(* direction and by no more than planned.  Runs that come one after the    *)
(* other never take a position past its target, and one that is alone and  *)
(* meets no fault leaves a second run next to nothing to do.               *)
(***************************************************************************)
EXTENDS ExecutorProofs

Granted == Cleared \cup Ended

\* What the mapping needs to know of the orders on their way: they belong to
\* runs that were granted something, there is one per run and symbol, and the
\* run has nothing left to send for that symbol.
WireInv ==
    \A w \in wire :
        /\ pc[w.run] \in Granted
        /\ posts[w.run][w.sym] > 0
        /\ \A x \in wire : x.run = w.run /\ x.sym = w.sym => x = w

\* A granted run stays granted, and never takes an order back.
Forward(r) ==
    /\ pc[r] \in Granted => pc'[r] \in Granted
    /\ \A s \in Symbols : posts[r][s] > 0 => posts'[r][s] > 0

LEMMA StagesApart ==
    /\ Planning \cap Granted = {} /\ "check" \notin Granted
    /\ Cleared \cap Ended = {}
    /\ Stages = Planning \cup {"check"} \cup Granted
BY DEF Planning, Reading, Granted, Cleared, Ended, Stages

LEMMA StepsForward ==
    ASSUME TypeOK, NEW r \in Runs, RunStep(r) \/ RunFault(r)
    PROVE  Forward(r)
<1> USE DEF Forward
<1>1. CASE \/ Start(r) \/ StartKilled(r) \/ ReadAccount(r) \/ ReadSpecs(r)
           \/ ReadPrices(r) \/ ReadPositions(r) \/ MakePlan(r)
           \/ CheckBlocks(r) \/ CheckDryRun(r) \/ CheckNothingToDo(r)
           \/ CheckClears(r)
  <2>1. posts' = posts
    BY <1>1 DEF Environment, Start, StartKilled, ReadAccount, ReadSpecs, ReadPrices,
       ReadPositions, MakePlan, CheckBlocks, CheckDryRun, CheckNothingToDo, CheckClears
  <2>2. pc[r] \in Planning \cup {"check"}
    BY <1>1, GotoOwn DEF Planning, Reading, Start, StartKilled, ReadAccount,
       ReadSpecs, ReadPrices, ReadPositions, MakePlan, CheckBlocks, CheckDryRun,
       CheckNothingToDo, CheckClears
  <2> QED
    BY <2>1, <2>2, StagesApart
<1>2. CASE \/ SetLeverage(r) \/ SetLeverageRaises(r)
           \/ OrderReturns(r) \/ OrderRejected(r) \/ OrderTimesOut(r) \/ Complete(r)
  <2>1. posts' = posts
    BY <1>2 DEF Environment, SetLeverage, SetLeverageRaises, OrderReturns,
       OrderRejected, OrderTimesOut, Complete
  <2>2. pc'[r] \in {"orders", "leverage", "complete"}
    BY <1>2, GotoOwn DEF SetLeverage, SetLeverageRaises, AfterLeverage,
       OrderReturns, OrderRejected, OrderTimesOut, Complete
  <2> QED
    BY <2>1, <2>2 DEF Granted, Cleared, Ended
<1>3. CASE TakeOrder(r)
  <2>1. posts' = posts
    BY <1>3 DEF Environment, TakeOrder
  <2>2. pc'[r] \in {"orders", "post"}
    BY <1>3, GotoOwn DEF TakeOrder
  <2> QED
    BY <2>1, <2>2 DEF Granted, Cleared, Ended
<1>4. CASE Post(r)
  <2>1. PICK o \in todo[r] : posts' = [posts EXCEPT ![r][o.sym] = @ + 1]
    BY <1>4 DEF Post
  <2>2. o.sym \in Symbols /\ posts[r] \in [Symbols -> Nat]
    BY DEF TypeOK, Orders
  <2>3. posts'[r] = [posts[r] EXCEPT ![o.sym] = @ + 1]
    BY <2>1, <2>2 DEF TypeOK
  <2>4. \A s \in Symbols : posts[r][s] > 0 => posts'[r][s] > 0
    BY <2>2, <2>3
  <2>5. pc'[r] = "await"
    BY <1>4, GotoOwn DEF Post
  <2> QED
    BY <2>4, <2>5 DEF Granted, Cleared
<1>5. CASE ReadRaises(r) \/ Crash(r)
  <2>1. posts' = posts
    BY <1>5 DEF Environment, ReadRaises, Crash
  <2>2. pc'[r] \in Ended
    BY <1>5 DEF ReadRaises, Crash, TypeOK, Ended
  <2> QED
    BY <2>1, <2>2 DEF Granted
<1> QED
  BY <1>1, <1>2, <1>3, <1>4, <1>5 DEF RunStep, RunFault

\* What a step of the run r does to the orders on their way.
LEMMA RunWire ==
    ASSUME TypeOK, NEW r \in Runs, RunStep(r) \/ RunFault(r), ~Post(r)
    PROVE  wire' \subseteq wire
BY DEF RunStep, RunFault, Environment, exchange, Start, StartKilled, ReadAccount,
       ReadSpecs, ReadPrices, ReadPositions, ReadRaises, MakePlan, CheckBlocks,
       CheckDryRun, CheckNothingToDo, CheckClears, SetLeverage, SetLeverageRaises,
       TakeOrder, OrderReturns, OrderRejected, OrderTimesOut, Complete, Crash

LEMMA WireInvKept ==
    ASSUME IInv, WireInv, wire' \subseteq wire, \A q \in Runs : Forward(q)
    PROVE  WireInv'
<1>1. \A w \in wire : w.run \in Runs /\ w.sym \in Symbols
  BY DEF IInv, TypeOK, WireOrders
<1> QED
  BY <1>1 DEF WireInv, Forward

LEMMA PostWire ==
    ASSUME IInv, WireInv, NEW r \in Runs, Post(r), \A q \in Runs : Forward(q)
    PROVE  WireInv'
<1>1. PICK o \in todo[r] :
        /\ wire' = wire \cup {[run |-> r, sym |-> o.sym, side |-> o.side,
                               qty |-> Sent(view[r], o)]}
        /\ posts' = [posts EXCEPT ![r][o.sym] = @ + 1]
  BY DEF Post
<1> DEFINE new == [run |-> r, sym |-> o.sym, side |-> o.side, qty |-> Sent(view[r], o)]
<1>2. o.sym \in Symbols /\ posts[r][o.sym] = 0
  BY DEF IInv, RunInv, Unsent, TypeOK, Orders
<1>3. pc'[r] \in Granted
  BY GotoOwn DEF Post, IInv, Granted, Cleared
<1>4. posts'[r][o.sym] > 0
  <2>1. posts[r] \in [Symbols -> Nat]
    BY DEF IInv, TypeOK
  <2>2. posts'[r] = [posts[r] EXCEPT ![o.sym] = @ + 1]
    BY <1>1, <1>2, <2>1 DEF IInv, TypeOK
  <2> QED
    BY <1>2, <2>1, <2>2
<1>5. \A w \in wire : w.run \in Runs /\ w.sym \in Symbols
  BY DEF IInv, TypeOK, WireOrders
<1>6. \A w \in wire : pc'[w.run] \in Granted /\ posts'[w.run][w.sym] > 0
  BY <1>5 DEF WireInv, Forward
<1>7. \A w \in wire : ~(w.run = r /\ w.sym = o.sym)
  BY <1>2 DEF WireInv
<1>8. new.run = r /\ new.sym = o.sym
  OBVIOUS
<1>9. wire' = wire \cup {new}
  BY <1>1
<1> HIDE DEF new
<1> QED
  BY <1>3, <1>4, <1>6, <1>7, <1>8, <1>9 DEF WireInv

LEMMA InitWire == Init => WireInv
BY DEF Init, WireInv

LEMMA StepWire == IInv /\ WireInv /\ [Next]_vars => WireInv'
<1> SUFFICES ASSUME IInv, WireInv, [Next]_vars
             PROVE  WireInv'
  OBVIOUS
<1>1. ASSUME NEW q \in Runs, Untouched(q)
      PROVE  Forward(q)
  BY <1>1 DEF Untouched, Forward
<1>2. ASSUME NEW r \in Runs, RunStep(r) \/ RunFault(r)
      PROVE  WireInv'
  <2>1. \A q \in Runs : Forward(q)
    BY <1>1, <1>2, StepsForward, RunStepKeeps DEF IInv, OwnStep
  <2> QED
    BY <1>2, <2>1, PostWire, RunWire, WireInvKept DEF IInv
<1>3. CASE ExchangeStep \/ MarketMoves \/ TouchKill \/ RemoveKill \/ UNCHANGED vars
  <2>1. \A q \in Runs : Forward(q)
    BY <1>1, <1>3, WorldKeepsRuns
  <2>2. wire' \subseteq wire
    BY <1>3 DEF ExchangeStep, Execute, ExecutePart, Fill, Lose, MarketMoves,
       TouchKill, RemoveKill, vars, exchange
  <2> QED
    BY <2>1, <2>2, WireInvKept
<1> QED
  BY <1>2, <1>3 DEF Next

THEOREM Implementing == Spec => [](IInv /\ WireInv)
<1>1. Init => IInv /\ WireInv
  BY InitIInv, InitWire
<1>2. IInv /\ WireInv /\ [Next]_vars => (IInv /\ WireInv)'
  BY StepIInv, StepWire
<1> QED
  BY <1>1, <1>2, PTL DEF Spec

-----------------------------------------------------------------------------
(* The mapping.                                                            *)

LEMMA WithinFacts ==
    ASSUME NEW x \in Int
    PROVE  Promise!Within(x, x) /\ Promise!Within(0, x)
BY DEF Promise!Within

\* A plan has one order per symbol, so a run's allowance is that order's.
LEMMA AllowanceByOrder ==
    ASSUME IInv, NEW r \in Runs, NEW s \in Symbols, WireOf(r, s) = {},
           NEW o \in todo[r], o.sym = s, pc[r] \in Cleared
    PROVE  AllowanceOf(r, s) = Signed(o)
<1>1. \A p \in OrderOf(r, s) : p = o
  BY PlanFunctional DEF OrderOf, IInv, RunInv, Unsent
<1>2. o \in OrderOf(r, s)
  BY DEF OrderOf
<1>3. (CHOOSE p \in OrderOf(r, s) : TRUE) = o
  BY <1>1, <1>2
<1> QED
  BY <1>2, <1>3 DEF AllowanceOf

LEMMA AllowanceByWire ==
    ASSUME WireInv, NEW w \in wire
    PROVE  /\ WireOf(w.run, w.sym) = {w}
           /\ AllowanceOf(w.run, w.sym) = Signed(w)
<1>1. WireOf(w.run, w.sym) = {w}
  BY DEF WireInv, WireOf
<1>2. (CHOOSE x \in {w} : TRUE) = w
  OBVIOUS
<1> QED
  BY <1>1, <1>2 DEF AllowanceOf

LEMMA AllowanceNone ==
    ASSUME NEW r, NEW s, WireOf(r, s) = {},
           pc[r] \notin Cleared \/ OrderOf(r, s) = {}
    PROVE  AllowanceOf(r, s) = 0
BY DEF AllowanceOf

LEMMA SignedInt ==
    ASSUME NEW o, o.qty \in Nat
    PROVE  Signed(o) \in Int
BY DEF Signed

AllowancesInt == \A r \in Runs, s \in Symbols : AllowanceOf(r, s) \in Int

LEMMA AllowanceInt == IInv /\ WireInv => AllowancesInt
<1> SUFFICES ASSUME IInv, WireInv, NEW r \in Runs, NEW s \in Symbols
             PROVE  AllowanceOf(r, s) \in Int
  BY DEF AllowancesInt
<1>1. ASSUME NEW w \in WireOf(r, s)
      PROVE  AllowanceOf(r, s) \in Int
  <2>1. w \in wire /\ w.run = r /\ w.sym = s
    BY <1>1 DEF WireOf
  <2>2. w.qty \in Nat
    BY <2>1 DEF IInv, TypeOK, WireOrders
  <2> QED
    BY <2>1, <2>2, AllowanceByWire, SignedInt
<1>2. ASSUME WireOf(r, s) = {}, pc[r] \in Cleared, NEW o \in OrderOf(r, s)
      PROVE  AllowanceOf(r, s) \in Int
  <2>1. o \in todo[r] /\ o.sym = s
    BY <1>2 DEF OrderOf
  <2>2. o.qty \in Nat
    BY <2>1 DEF IInv, TypeOK, Orders
  <2> QED
    BY <1>2, <2>1, <2>2, AllowanceByOrder, SignedInt
<1> QED
  BY <1>1, <1>2, AllowanceNone

LEMMA AllowanceIntNext == IInv' /\ WireInv' => AllowancesInt'
BY AllowanceInt, PTL

\* An allowance changes only with the run's own stage, plan and orders.
LEMMA AllowanceFrame ==
    ASSUME NEW r, NEW s,
           pc'[r] \in Cleared <=> pc[r] \in Cleared,
           todo'[r] = todo[r], WireOf(r, s)' = WireOf(r, s)
    PROVE  AllowanceOf(r, s)' = AllowanceOf(r, s)
<1>1. OrderOf(r, s)' = OrderOf(r, s)
  BY DEF OrderOf
<1> QED
  BY <1>1 DEF AllowanceOf

\* A run without a grant has no allowance.
LEMMA Ungranted ==
    ASSUME WireInv, NEW r, pc[r] \notin Granted, NEW s
    PROVE  WireOf(r, s) = {} /\ AllowanceOf(r, s) = 0
<1>1. WireOf(r, s) = {}
  BY DEF WireInv, WireOf
<1> QED
  BY <1>1, AllowanceNone DEF Granted

SameAllowance(q) == \A s \in Symbols : AllowanceOf(q, s)' = AllowanceOf(q, s)
SameGrant(q) == pc'[q] \in Granted <=> pc[q] \in Granted

\* The four kinds of steps of Allowance, in terms of the executor.
LEMMA AbstractStutter ==
    ASSUME pos' = pos, \A q \in Runs : SameGrant(q) /\ SameAllowance(q)
    PROVE  UNCHANGED Promise!vars
BY DEF Promise!vars, SameGrant, SameAllowance, Granted

LEMMA AbstractGrant ==
    ASSUME NEW r \in Runs, pos' = pos, pc[r] \notin Granted, pc'[r] \in Granted,
           \A q \in Runs \ {r} : SameGrant(q) /\ SameAllowance(q),
           \A s \in Symbols : AllowanceOf(r, s)' \in Int
    PROVE  Promise!Next
<1>1. Promise!Grant(r)
  BY DEF Promise!Grant, SameGrant, SameAllowance, Granted
<1> QED
  BY <1>1 DEF Promise!Next

LEMMA AbstractGiveUp ==
    ASSUME NEW r \in Runs, pos' = pos, \A q \in Runs : SameGrant(q),
           \A q \in Runs \ {r} : SameAllowance(q),
           \A s \in Symbols : Promise!Within(AllowanceOf(r, s)', AllowanceOf(r, s))
    PROVE  Promise!Next
<1>1. Promise!GiveUp(r)
  BY DEF Promise!GiveUp, SameGrant, SameAllowance, Granted
<1> QED
  BY <1>1 DEF Promise!Next

LEMMA AbstractUse ==
    ASSUME NEW r \in Runs, NEW s \in Symbols, \A q \in Runs : SameGrant(q),
           \A q \in Runs \ {r} : SameAllowance(q),
           \A t \in Symbols \ {s} : AllowanceOf(r, t)' = AllowanceOf(r, t),
           AllowanceOf(r, s)' = 0,
           Promise!Within(pos'[s] - pos[s], AllowanceOf(r, s)),
           pos' = [pos EXCEPT ![s] = pos'[s]]
    PROVE  Promise!Next
<1> DEFINE before == [q \in Runs |-> [t \in Symbols |-> AllowanceOf(q, t)]]
           after == [q \in Runs |-> [t \in Symbols |-> AllowanceOf(q, t)']]
<1>1. after[r] = [before[r] EXCEPT ![s] = 0]
  OBVIOUS
<1>2. \A q \in Runs \ {r} : after[q] = before[q]
  BY DEF SameAllowance
<1>3. after = [before EXCEPT ![r] = [before[r] EXCEPT ![s] = 0]]
  <2> DEFINE used == [before EXCEPT ![r] = [before[r] EXCEPT ![s] = 0]]
  <2>1. used \in [Runs -> {used[q] : q \in Runs}] /\ DOMAIN after = Runs
    OBVIOUS
  <2>2. used[r] = after[r]
    BY <1>1
  <2>3. \A q \in Runs \ {r} : used[q] = before[q]
    OBVIOUS
  <2>4. \A q \in Runs : used[q] = after[q]
    <3> HIDE DEF used, after, before
    <3> QED
      BY <1>2, <2>2, <2>3
  <2> QED
    BY <2>4
<1>4. Promise!Use(r, s)
  BY <1>3 DEF Promise!Use, SameGrant, Granted
<1> QED
  BY <1>4 DEF Promise!Next

-----------------------------------------------------------------------------
(* Steps of the runs.                                                      *)

\* The other runs, when r leaves the orders on their way alone or changes only
\* its own.
LEMMA OthersSame ==
    ASSUME NEW r \in Runs, OwnStep(r),
           \A q \in Runs \ {r}, s \in Symbols : WireOf(q, s)' = WireOf(q, s)
    PROVE  \A q \in Runs \ {r} : SameGrant(q) /\ SameAllowance(q)
BY AllowanceFrame DEF OwnStep, Untouched, SameGrant, SameAllowance

LEMMA SameWire ==
    ASSUME wire' = wire
    PROVE  \A q, s : WireOf(q, s)' = WireOf(q, s)
BY DEF WireOf

\* Until it is granted, a run that moves on is granted something or nothing
\* happens to the account.
LEMMA UngrantedStep ==
    ASSUME WireInv, NEW r \in Runs, OwnStep(r), pos' = pos, wire' = wire,
           pc[r] \notin Granted, IInv', WireInv'
    PROVE  [Promise!Next]_Promise!vars
<1>1. \A q \in Runs \ {r} : SameGrant(q) /\ SameAllowance(q)
  BY SameWire, OthersSame
<1>2. CASE pc'[r] \in Granted
  <2>1. \A s \in Symbols : AllowanceOf(r, s)' \in Int
    BY AllowanceIntNext DEF AllowancesInt
  <2> QED
    BY <1>1, <1>2, <2>1, AbstractGrant
<1>3. CASE pc'[r] \notin Granted
  <2>1. \A s \in Symbols : AllowanceOf(r, s) = 0
    BY Ungranted
  <2>2. \A s \in Symbols : WireOf(r, s)' = {}
    BY SameWire, Ungranted
  <2>3. \A s \in Symbols : AllowanceOf(r, s)' = 0
    BY <1>3, <2>2 DEF AllowanceOf, Granted
  <2> QED
    BY <1>1, <1>3, <2>1, <2>3, AbstractStutter DEF SameGrant, SameAllowance
<1> QED
  BY <1>2, <1>3

\* A granted run that neither posts nor is refused keeps or gives up what it
\* was granted.
LEMMA GrantedStep ==
    ASSUME IInv, WireInv, NEW r \in Runs, OwnStep(r), pos' = pos, wire' = wire,
           pc[r] \in Cleared, pc'[r] \in Granted, todo'[r] \subseteq todo[r]
    PROVE  [Promise!Next]_Promise!vars
<1>1. \A q \in Runs \ {r} : SameGrant(q) /\ SameAllowance(q)
  BY SameWire, OthersSame
<1>2. \A s \in Symbols : WireOf(r, s)' = WireOf(r, s)
  BY SameWire
<1>3. SUFFICES ASSUME NEW s \in Symbols
               PROVE  Promise!Within(AllowanceOf(r, s)', AllowanceOf(r, s))
  BY <1>1, AbstractGiveUp DEF SameGrant, Granted
<1>4. AllowanceOf(r, s) \in Int
  BY AllowanceInt DEF AllowancesInt
<1>5. CASE WireOf(r, s) # {}
  BY <1>2, <1>4, <1>5, WithinFacts DEF AllowanceOf
<1>6. ASSUME WireOf(r, s) = {}, pc'[r] \in Cleared, NEW o \in OrderOf(r, s)'
      PROVE  AllowanceOf(r, s)' = AllowanceOf(r, s)
  <2>1. o \in todo'[r] /\ o \in todo[r] /\ o.sym = s
    BY <1>6 DEF OrderOf
  <2>2. AllowanceOf(r, s) = Signed(o)
    BY <1>6, <2>1, AllowanceByOrder
  <2>3. OrderOf(r, s)' = {o}
    <3>1. \A p \in OrderOf(r, s)' : p \in todo[r] /\ p.sym = s
      BY DEF OrderOf
    <3>2. \A p \in OrderOf(r, s)' : p = o
      BY <2>1, <3>1, PlanFunctional DEF IInv, RunInv, Unsent
    <3> QED
      BY <1>6, <3>2
  <2>4. (CHOOSE p \in {o} : TRUE) = o
    OBVIOUS
  <2>5. AllowanceOf(r, s)' = Signed(o)
    BY <1>2, <1>6, <2>3, <2>4 DEF AllowanceOf, Signed
  <2> QED
    BY <2>2, <2>5
<1>7. CASE WireOf(r, s) = {} /\ (pc'[r] \notin Cleared \/ OrderOf(r, s)' = {})
  <2>1. AllowanceOf(r, s)' = 0
    BY <1>2, <1>7 DEF AllowanceOf
  <2> QED
    BY <1>4, <2>1, WithinFacts
<1> QED
  BY <1>4, <1>5, <1>6, <1>7, WithinFacts

\* Posting turns the allowance of the order into one that may be a step smaller.
LEMMA PostStep ==
    ASSUME IInv, WireInv, NEW r \in Runs, Post(r)
    PROVE  [Promise!Next]_Promise!vars
<1>1. PICK o \in todo[r] :
        /\ wire' = wire \cup {[run |-> r, sym |-> o.sym, side |-> o.side,
                               qty |-> Sent(view[r], o)]}
        /\ todo' = [todo EXCEPT ![r] = @ \ {o}]
  BY DEF Post
<1> DEFINE new == [run |-> r, sym |-> o.sym, side |-> o.side, qty |-> Sent(view[r], o)]
<1>2. /\ o \in Orders /\ o.sym \in Symbols /\ o.qty \in Nat
      /\ view[r] \in Views /\ posts[r][o.sym] = 0
  BY ViewTyped DEF IInv, RunInv, Unsent, TypeOK, Orders
<1>3. Sent(view[r], o) \in Nat /\ Sent(view[r], o) <= o.qty
  BY <1>2, SentNat
<1>4. pc[r] \in Cleared /\ pc'[r] \in Cleared /\ pos' = pos
  BY GotoOwn DEF Post, IInv, Cleared
<1>5. OwnStep(r)
  BY PostKeeps DEF IInv
<1>6. WireOf(r, o.sym) = {}
  BY <1>2 DEF WireInv, WireOf
<1>7. \A q \in Runs, s \in Symbols :
        ~(q = r /\ s = o.sym) => WireOf(q, s)' = WireOf(q, s)
  BY <1>1 DEF WireOf
<1>8. \A q \in Runs \ {r} : SameGrant(q) /\ SameAllowance(q)
  BY <1>5, <1>7, OthersSame
<1>9. AllowanceOf(r, o.sym) = Signed(o)
  BY <1>1, <1>2, <1>4, <1>6, AllowanceByOrder
<1>10. AllowanceOf(r, o.sym)' = Signed(new)
  <2>1. new.run = r /\ new.sym = o.sym
    OBVIOUS
  <2>2. wire' = wire \cup {new}
    BY <1>1
  <2>3. WireOf(r, o.sym)' = {new}
    <3> HIDE DEF new
    <3> QED
      BY <1>6, <2>1, <2>2 DEF WireOf
  <2>4. (CHOOSE x \in {new} : TRUE) = new
    OBVIOUS
  <2> HIDE DEF new
  <2> QED
    BY <2>3, <2>4 DEF AllowanceOf, Signed
<1>11. Promise!Within(AllowanceOf(r, o.sym)', AllowanceOf(r, o.sym))
  <2>1. new.side = o.side /\ new.qty = Sent(view[r], o)
    OBVIOUS
  <2>2. Promise!Within(Signed(new), Signed(o))
    <3> HIDE DEF new
    <3> QED
      BY <1>2, <1>3, <2>1 DEF Promise!Within, Signed
  <2> HIDE DEF new
  <2> QED
    BY <1>9, <1>10, <2>2
<1>12. ASSUME NEW s \in Symbols, s # o.sym
       PROVE  AllowanceOf(r, s)' = AllowanceOf(r, s)
  <2>1. WireOf(r, s)' = WireOf(r, s)
    BY <1>7, <1>12
  <2>2. todo'[r] = todo[r] \ {o}
    BY <1>1 DEF IInv, TypeOK
  <2>3. OrderOf(r, s)' = OrderOf(r, s)
    BY <1>12, <2>2 DEF OrderOf
  <2> QED
    BY <1>4, <2>1, <2>3 DEF AllowanceOf
<1>13. \A s \in Symbols : Promise!Within(AllowanceOf(r, s)', AllowanceOf(r, s))
  BY <1>11, <1>12, AllowanceInt, WithinFacts DEF AllowancesInt
<1> QED
  BY <1>4, <1>8, <1>13, AbstractGiveUp DEF SameGrant, Granted

-----------------------------------------------------------------------------
(* Orders that leave the wire.                                             *)

\* An order that is gone was the whole allowance of its run for its symbol, and
\* no other allowance is touched.
LEMMA OrderGone ==
    ASSUME IInv, WireInv, NEW w \in wire, wire' = wire \ {w}, todo' = todo,
           \A q \in Runs : pc'[q] \in Cleared <=> pc[q] \in Cleared,
           NEW q \in Runs, NEW s \in Symbols
    PROVE  AllowanceOf(q, s)' =
             IF q = w.run /\ s = w.sym THEN 0 ELSE AllowanceOf(q, s)
<1>1. CASE q = w.run /\ s = w.sym
  <2>1. WireOf(q, s)' = {}
    BY <1>1 DEF WireInv, WireOf
  <2>2. \A o \in todo[q] : o.sym # s
    BY <1>1 DEF IInv, RunInv, Unsent, WireInv
  <2>3. OrderOf(q, s)' = {}
    BY <2>2 DEF OrderOf
  <2> QED
    BY <1>1, <2>1, <2>3 DEF AllowanceOf
<1>2. CASE ~(q = w.run /\ s = w.sym)
  <2>1. WireOf(q, s)' = WireOf(q, s)
    BY <1>2 DEF WireOf
  <2> QED
    BY <1>2, <2>1, AllowanceFrame
<1> QED
  BY <1>1, <1>2

\* Refused or lost, it gives up the allowance.
LEMMA WithdrawStep ==
    ASSUME IInv, WireInv, NEW w \in wire, wire' = wire \ {w}, todo' = todo,
           pos' = pos, \A q \in Runs : SameGrant(q),
           \A q \in Runs : pc'[q] \in Cleared <=> pc[q] \in Cleared
    PROVE  [Promise!Next]_Promise!vars
<1>1. w.run \in Runs
  BY DEF IInv, TypeOK, WireOrders
<1>2. \A q \in Runs \ {w.run} : SameAllowance(q)
  BY OrderGone DEF SameAllowance
<1>3. ASSUME NEW s \in Symbols
      PROVE  Promise!Within(AllowanceOf(w.run, s)', AllowanceOf(w.run, s))
  <2>1. AllowanceOf(w.run, s) \in Int
    BY <1>1, AllowanceInt DEF AllowancesInt
  <2>2. AllowanceOf(w.run, s)' = 0 \/ AllowanceOf(w.run, s)' = AllowanceOf(w.run, s)
    BY <1>1, OrderGone
  <2> QED
    BY <2>1, <2>2, WithinFacts
<1> QED
  BY <1>1, <1>2, <1>3, AbstractGiveUp

\* Executed, in part or in full, it uses the allowance.
LEMMA FillStep ==
    ASSUME IInv, WireInv, NEW w \in wire, NEW qty \in Nat, qty <= w.qty, Fill(w, qty)
    PROVE  [Promise!Next]_Promise!vars
<1>1. w.run \in Runs /\ w.sym \in Symbols /\ w.side \in Sides /\ w.qty \in Nat
  BY DEF IInv, TypeOK, WireOrders
<1>2. wire' = wire \ {w} /\ todo' = todo /\ pc' = pc
  BY DEF Fill, process
<1>3. /\ \A q \in Runs \ {w.run} : SameAllowance(q)
      /\ \A t \in Symbols \ {w.sym} : AllowanceOf(w.run, t)' = AllowanceOf(w.run, t)
      /\ AllowanceOf(w.run, w.sym)' = 0
  BY <1>1, <1>2, OrderGone DEF SameAllowance
<1>4. AllowanceOf(w.run, w.sym) = Signed(w)
  BY AllowanceByWire
<1>5. pos \in [Symbols -> Int]
  BY DEF IInv, TypeOK
<1>6. pos'[w.sym] = IF w.side = "BUY" THEN pos[w.sym] + qty ELSE pos[w.sym] - qty
  BY <1>1, <1>5 DEF Fill
<1>7. pos' = [pos EXCEPT ![w.sym] = pos'[w.sym]]
  BY <1>1, <1>5, <1>6 DEF Fill
<1>8. Promise!Within(pos'[w.sym] - pos[w.sym], AllowanceOf(w.run, w.sym))
  <2>1. pos[w.sym] \in Int
    BY <1>1, <1>5
  <2>2. CASE w.side = "BUY"
    <3>1. pos'[w.sym] - pos[w.sym] = qty /\ Signed(w) = w.qty
      BY <1>6, <2>1, <2>2 DEF Signed
    <3> QED
      BY <1>1, <1>4, <3>1 DEF Promise!Within
  <2>3. CASE w.side # "BUY"
    <3>1. pos'[w.sym] - pos[w.sym] = -qty /\ Signed(w) = -w.qty
      BY <1>6, <2>1, <2>3 DEF Signed
    <3> QED
      BY <1>1, <1>4, <3>1 DEF Promise!Within
  <2> QED
    BY <2>2, <2>3
<1> QED
  BY <1>1, <1>2, <1>3, <1>7, <1>8, AbstractUse DEF SameGrant

-----------------------------------------------------------------------------
LEMMA RunImplements ==
    ASSUME IInv, WireInv, IInv', WireInv', NEW r \in Runs, RunStep(r) \/ RunFault(r)
    PROVE  [Promise!Next]_Promise!vars
<1>1. OwnStep(r) /\ Forward(r)
  BY RunStepKeeps, StepsForward DEF IInv
<1>2. CASE \/ Start(r) \/ StartKilled(r) \/ ReadAccount(r) \/ ReadSpecs(r)
           \/ ReadPrices(r) \/ ReadPositions(r) \/ ReadRaises(r) \/ MakePlan(r)
           \/ CheckBlocks(r) \/ CheckDryRun(r) \/ CheckNothingToDo(r)
           \/ CheckClears(r)
  <2>1. pc[r] \in Planning \cup {"check"}
    BY <1>2, GotoOwn DEF IInv, Planning, Reading, Start, StartKilled, ReadAccount,
       ReadSpecs, ReadPrices, ReadPositions, ReadRaises, MakePlan, CheckBlocks,
       CheckDryRun, CheckNothingToDo, CheckClears
  <2>2. pos' = pos /\ wire' = wire
    BY <1>2 DEF Environment, exchange, Start, StartKilled, ReadAccount,
       ReadSpecs, ReadPrices, ReadPositions, ReadRaises, MakePlan, CheckBlocks,
       CheckDryRun, CheckNothingToDo, CheckClears
  <2> QED
    BY <1>1, <2>1, <2>2, StagesApart, UngrantedStep
<1>3. CASE \/ SetLeverage(r) \/ SetLeverageRaises(r) \/ OrderReturns(r)
           \/ OrderTimesOut(r) \/ Complete(r)
  <2>1. pc[r] \in Cleared
    BY <1>3, GotoOwn DEF IInv, Cleared, SetLeverage, SetLeverageRaises,
       AfterLeverage, OrderReturns, OrderTimesOut, Complete
  <2>2. pos' = pos /\ wire' = wire /\ todo' = todo
    BY <1>3 DEF Environment, exchange, SetLeverage, SetLeverageRaises,
       OrderReturns, OrderTimesOut, Complete
  <2> QED
    BY <1>1, <2>1, <2>2, GrantedStep DEF Forward, Granted
<1>4. CASE TakeOrder(r)
  <2>1. pc[r] \in Cleared /\ pos' = pos /\ wire' = wire
    BY <1>4 DEF TakeOrder, Environment, exchange, Cleared
  <2>2. todo'[r] \subseteq todo[r]
    BY <1>4 DEF TakeOrder, IInv, TypeOK
  <2> QED
    BY <1>1, <2>1, <2>2, GrantedStep DEF Forward, Granted
<1>5. CASE Post(r)
  BY <1>5, PostStep
<1>6. CASE OrderRejected(r)
  <2>1. PICK w \in wire : wire' = wire \ {w}
    BY <1>6 DEF OrderRejected
  <2>2. pos' = pos /\ todo' = todo
    BY <1>6 DEF OrderRejected
  <2>3. \A q \in Runs : SameGrant(q) /\ (pc'[q] \in Cleared <=> pc[q] \in Cleared)
    BY <1>6, GotoOwn DEF OrderRejected, IInv, Cleared, Granted, SameGrant
  <2> QED
    BY <2>1, <2>2, <2>3, WithdrawStep
<1>7. CASE Crash(r)
  <2>1. pos' = pos /\ wire' = wire /\ todo' = todo /\ pc'[r] \in Granted
    BY <1>7 DEF Crash, Environment, exchange, IInv, TypeOK, Granted, Ended
  <2>2. pc[r] \notin Ended
    BY <1>7 DEF Crash
  <2> QED
    BY <1>1, <2>1, <2>2, UngrantedStep, GrantedStep DEF Granted
<1> QED
  BY <1>2, <1>3, <1>4, <1>5, <1>6, <1>7 DEF RunStep, RunFault

LEMMA WorldImplements ==
    ASSUME IInv, WireInv,
           ExchangeStep \/ MarketMoves \/ TouchKill \/ RemoveKill \/ UNCHANGED vars
    PROVE  [Promise!Next]_Promise!vars
<1>1. ASSUME NEW w \in wire, Execute(w) \/ ExecutePart(w)
      PROVE  [Promise!Next]_Promise!vars
  <2>1. w.qty \in Nat
    BY DEF IInv, TypeOK, WireOrders
  <2>2. PICK qty \in Nat : qty <= w.qty /\ Fill(w, qty)
    BY <1>1, <2>1 DEF Execute, ExecutePart
  <2> QED
    BY <2>2, FillStep
<1>2. ASSUME NEW w \in wire, Lose(w)
      PROVE  [Promise!Next]_Promise!vars
  BY <1>2, WithdrawStep DEF Lose, process, SameGrant
<1>3. CASE MarketMoves \/ TouchKill \/ RemoveKill \/ UNCHANGED vars
  <2>1. pos' = pos /\ wire' = wire /\ pc' = pc /\ todo' = todo
    BY <1>3 DEF MarketMoves, TouchKill, RemoveKill, vars, exchange, process
  <2>2. \A q \in Runs : SameGrant(q) /\ SameAllowance(q)
    BY <2>1, SameWire, AllowanceFrame DEF SameGrant, SameAllowance
  <2> QED
    BY <2>1, <2>2, AbstractStutter
<1> QED
  BY <1>1, <1>2, <1>3 DEF ExchangeStep

LEMMA InitImplements == Init => Promise!Init
<1> SUFFICES ASSUME Init
             PROVE  Promise!Init
  OBVIOUS
<1>1. pos \in [Symbols -> Int]
  BY AssumptionsHold DEF Init, Assumptions
<1>2. \A r \in Runs : pc[r] = "idle"
  BY DEF Init
<1>3. {r \in Runs : pc[r] \in Cleared \cup Ended} = {}
  BY <1>2 DEF Cleared, Ended
<1>4. \A r \in Runs, s \in Symbols : WireOf(r, s) = {}
  BY DEF Init, WireOf
<1>5. \A r \in Runs, s \in Symbols : AllowanceOf(r, s) = 0
  BY <1>2, <1>4, AllowanceNone DEF Cleared
<1> QED
  BY <1>1, <1>3, <1>5 DEF Promise!Init

LEMMA StepImplements ==
    IInv /\ WireInv /\ (IInv /\ WireInv)' /\ [Next]_vars
      => [Promise!Next]_Promise!vars
BY RunImplements, WorldImplements DEF Next

\* However runs overlap and whatever fails, a run moves each position at most
\* once, in the direction it planned and by no more than it planned, and
\* nothing else moves a position: the executor implements Allowance.
THEOREM ExecutorImplementsAllowance == Spec => ImplementsAllowance
<1>1. Init => Promise!Init
  BY InitImplements
<1> QED
  BY <1>1, StepImplements, Implementing, PTL DEF Spec, Promise!Spec, ImplementsAllowance

-----------------------------------------------------------------------------
(***************************************************************************)
(* No overshoot.  When runs come one after the other, each order settled   *)
(* before the next run, a run is alone with the account from the moment it *)
(* reads the positions: what it holds and what it may still move stay      *)
(* within its plan, by the four kinds of steps of Allowance.               *)
(***************************************************************************)
Serial == "overlap" \notin Faults /\ "late" \notin Faults

Busy == Reading \cup {"plan", "check"} \cup Cleared

\* What the plan moves a position by.
PlannedMove(v, s) ==
    IF PlannedOrder(v, s) \in Reconcile(v) THEN Signed(PlannedOrder(v, s)) ELSE 0

Moved(r, s) == pos[s] - view[r].held[s]

OnTheWay(r) ==
    \A s \in Symbols :
        /\ Promise!Within(Moved(r, s), PlannedMove(view[r], s))
        /\ Promise!Within(Moved(r, s) + AllowanceOf(r, s), PlannedMove(view[r], s))

SerialInv ==
    \A r \in Runs : pc[r] \in Busy =>
        /\ \A q \in Runs : pc[q] \in Busy => q = r
        /\ \A w \in wire : w.run = r
        /\ pc[r] \in {"plan", "check"} => view[r].held = pos
        /\ pc[r] \in Cleared => OnTheWay(r)

LEMMA BusyStages ==
    /\ Cleared \subseteq Busy /\ Busy \cap Ended = {} /\ "idle" \notin Busy
    /\ Stages = Busy \cup Ended \cup {"idle"}
    /\ {"plan", "check"} \cap Granted = {} /\ {"plan", "check"} \cap Cleared = {}
    /\ \A x \in Stages : x \in Granted /\ x \in Busy => x \in Cleared
BY DEF Busy, Reading, Cleared, Ended, Stages, Granted

\* How a run comes to a stage, and what happens to what it has read.
LEMMA HowBusy ==
    ASSUME IInv, NEW r \in Runs, RunStep(r) \/ RunFault(r)
    PROVE  /\ pc'[r] \in Busy => pc[r] \in Busy \/ Start(r)
           /\ pc'[r] \in {"plan", "check"} =>
                ReadPositions(r) \/ (pc[r] = "plan" /\ view'[r] = view[r])
           /\ pc'[r] \in Cleared =>
                CheckClears(r) \/ (pc[r] \in Cleared /\ view'[r] = view[r])
           /\ pos' = pos
<1> USE DEF IInv, TypeOK, Goto, Environment, exchange
<1>1. CASE Start(r) \/ StartKilled(r)
  BY <1>1 DEF Start, StartKilled, Cleared, Busy, Reading
<1>2. CASE ReadAccount(r) \/ ReadSpecs(r) \/ ReadPrices(r) \/ ReadPositions(r) \/ ReadRaises(r)
  BY <1>2 DEF ReadAccount, ReadSpecs, ReadPrices, ReadPositions, ReadRaises, Cleared, Busy,
              Reading
<1>3. CASE MakePlan(r) \/ CheckBlocks(r) \/ CheckDryRun(r) \/ CheckNothingToDo(r)
  BY <1>3 DEF MakePlan, CheckBlocks, CheckDryRun, CheckNothingToDo, Cleared, Busy, Reading
<1>4. CASE CheckClears(r)
  BY <1>4 DEF CheckClears, Busy, Cleared
<1>5. CASE SetLeverage(r) \/ SetLeverageRaises(r)
  <2>1. pc[r] = "leverage" /\ view' = view /\ pos' = pos
    BY <1>5 DEF SetLeverage, SetLeverageRaises, AfterLeverage
  <2>2. pc'[r] \in {"orders", "leverage"}
    BY <1>5 DEF SetLeverage, SetLeverageRaises, AfterLeverage
  <2> QED
    BY <2>1, <2>2 DEF Busy, Cleared
<1>6. CASE TakeOrder(r)
  <2>1. pc[r] = "orders" /\ view' = view /\ pos' = pos
    BY <1>6 DEF TakeOrder
  <2>2. pc'[r] \in {"orders", "post"}
    BY <1>6 DEF TakeOrder
  <2> QED
    BY <2>1, <2>2 DEF Busy, Cleared
<1>7. CASE Post(r) \/ OrderReturns(r) \/ OrderRejected(r) \/ OrderTimesOut(r) \/ Complete(r)
  BY <1>7 DEF Post, OrderReturns, OrderRejected, OrderTimesOut, Complete, Busy, Cleared
<1>8. CASE Crash(r)
  BY <1>8 DEF Crash, Busy, Cleared, Reading
<1> QED
  BY <1>1, <1>2, <1>3, <1>4, <1>5, <1>6, <1>7, <1>8 DEF RunStep, RunFault

\* A run that starts finds nobody else busy and no order on its way.
LEMMA StartsAlone ==
    ASSUME IInv, WireInv, Serial, NEW r \in Runs, Start(r)
    PROVE  wire = {} /\ wire' = {} /\ \A q \in Runs : pc[q] \notin Busy
<1>1. /\ \A q \in Runs \ {r} : pc[q] \in Ended \cup {"idle"}
      /\ \A w \in wire : pc[w.run] \notin Ended
      /\ pc[r] = "idle" /\ wire' = wire
  BY DEF Start, MayStart, Serial, Goto, Environment, exchange
<1>2. \A q \in Runs : pc[q] \notin Busy
  BY <1>1, BusyStages
<1>3. ASSUME NEW w \in wire PROVE FALSE
  <2>1. w.run \in Runs /\ pc[w.run] \in Granted
    BY DEF IInv, TypeOK, WireOrders, WireInv
  <2> QED
    BY <1>1, <1>2, <2>1, BusyStages DEF Granted
<1> QED
  BY <1>1, <1>2, <1>3

LEMMA WithinTransfers ==
    ASSUME NEW x \in Int, NEW y \in Int, NEW a \in Int, NEW b \in Int, NEW q \in Int,
           Promise!Within(x, q), Promise!Within(x + a, q),
           \/ y = x /\ Promise!Within(b, a)
           \/ Promise!Within(y - x, a) /\ b = 0
    PROVE  Promise!Within(y, q) /\ Promise!Within(y + b, q)
BY DEF Promise!Within

\* One step of Allowance, seen from a granted run that is alone.
LEMMA AloneStep ==
    ASSUME NEW r \in Runs, pc[r] \in Granted, AllowancesInt,
           pos \in [Symbols -> Int], pos' \in [Symbols -> Int],
           [Promise!Next]_Promise!vars, \A q \in Runs \ {r}, t \in Symbols : AllowanceOf(q, t) = 0,
           NEW s \in Symbols
    PROVE  \/ pos'[s] = pos[s] /\ Promise!Within(AllowanceOf(r, s)', AllowanceOf(r, s))
           \/ Promise!Within(pos'[s] - pos[s], AllowanceOf(r, s)) /\ AllowanceOf(r, s)' = 0
<1> DEFINE before == [q \in Runs |-> [t \in Symbols |-> AllowanceOf(q, t)]]
           after == [q \in Runs |-> [t \in Symbols |-> AllowanceOf(q, t)']]
           a == AllowanceOf(r, s)
           b == AllowanceOf(r, s)'
<1>1. before[r][s] = a /\ after[r][s] = b /\ a \in Int
  BY DEF AllowancesInt
<1>2. \A q \in Runs \ {r}, t \in Symbols : before[q][t] = 0
  OBVIOUS
<1>3. Promise!Within(a, a)
  BY <1>1, WithinFacts
<1>4. CASE UNCHANGED Promise!vars
  <2>1. after = before /\ pos' = pos
    BY <1>4 DEF Promise!vars
  <2> HIDE DEF before, after, a, b
  <2> QED
    BY <1>1, <1>3, <2>1 DEF a, b
<1>5. ASSUME NEW q \in Runs, Promise!Grant(q)
      PROVE  pos' = pos /\ b = a
  <2>1. q # r /\ pos' = pos
    BY <1>5 DEF Promise!Grant, Granted
  <2>2. after = [before EXCEPT ![q] = after[q]]
    BY <1>5 DEF Promise!Grant
  <2> HIDE DEF before, after
  <2>3. after[r] = before[r]
    <3>1. DOMAIN before = Runs
      BY DEF before
    <3> QED
      BY <2>1, <2>2, <3>1
  <2> QED
    BY <1>1, <2>1, <2>3
<1>6. ASSUME NEW q \in Runs, Promise!GiveUp(q)
      PROVE  pos' = pos /\ Promise!Within(b, a)
  <2>1. pos' = pos /\ \A t \in Symbols : Promise!Within(after[q][t], before[q][t])
    BY <1>6 DEF Promise!GiveUp
  <2>2. after = [before EXCEPT ![q] = after[q]]
    BY <1>6 DEF Promise!GiveUp
  <2>3. DOMAIN before = Runs
    OBVIOUS
  <2> HIDE DEF before, after
  <2>4. CASE q = r
    BY <1>1, <2>1, <2>4
  <2>5. CASE q # r
    <3>1. after[r] = before[r]
      BY <2>2, <2>3, <2>5
    <3> QED
      BY <1>1, <1>3, <2>1, <3>1
  <2> QED
    BY <2>4, <2>5
<1>7. ASSUME NEW q \in Runs, NEW t \in Symbols, Promise!Use(q, t)
      PROVE  \/ pos'[s] = pos[s] /\ Promise!Within(b, a)
             \/ Promise!Within(pos'[s] - pos[s], a) /\ b = 0
  <2>1. /\ Promise!Within(pos'[t] - pos[t], before[q][t])
        /\ pos' = [pos EXCEPT ![t] = pos'[t]]
        /\ after = [before EXCEPT ![q][t] = 0]
    BY <1>7 DEF Promise!Use
  <2>2. DOMAIN before = Runs /\ \A u \in Runs : DOMAIN before[u] = Symbols
    OBVIOUS
  <2> HIDE DEF before, after
  <2>3. CASE q = r /\ t = s
    BY <1>1, <2>1, <2>2, <2>3
  <2>4. CASE q = r /\ t # s
    <3>1. pos'[s] = pos[s] /\ after[r][s] = before[r][s]
      BY <2>1, <2>2, <2>4
    <3> QED
      BY <1>1, <1>3, <3>1
  <2>5. CASE q # r
    <3>1. after[r] = before[r]
      BY <2>1, <2>2, <2>5
    <3>2. Promise!Within(pos'[t] - pos[t], 0)
      BY <1>2, <2>1, <2>5
    <3>3. pos[t] \in Int /\ pos'[t] \in Int
      OBVIOUS
    <3>4. pos'[t] = pos[t]
      BY <3>2, <3>3 DEF Promise!Within
    <3>5. t # s => pos'[s] = pos[s]
      BY <2>1
    <3> QED
      BY <1>1, <1>3, <3>1, <3>4, <3>5
  <2> QED
    BY <2>3, <2>4, <2>5
<1> HIDE DEF a, b
<1>8. CASE Promise!Next
  <2>1. PICK q \in Runs : \/ Promise!Grant(q) \/ Promise!GiveUp(q)
                          \/ \E t \in Symbols : Promise!Use(q, t)
    BY <1>8 DEF Promise!Next
  <2>2. CASE Promise!Grant(q)
    BY <1>1, <1>3, <1>5, <2>2
  <2>3. CASE Promise!GiveUp(q)
    BY <1>6, <2>3 DEF a, b
  <2>4. CASE \E t \in Symbols : Promise!Use(q, t)
    BY <1>7, <2>4 DEF a, b
  <2> QED
    BY <2>1, <2>2, <2>3, <2>4 DEF a, b
<1> QED
  BY <1>4, <1>8

\* In a plan, what a run may move a position by is what the plan says.
LEMMA GrantIsPlan ==
    ASSUME IInv, NEW r \in Runs, NEW s \in Symbols, WireOf(r, s) = {},
           todo[r] = Reconcile(view[r]), pc[r] \in Cleared
    PROVE  AllowanceOf(r, s) = PlannedMove(view[r], s)
<1> DEFINE o == PlannedOrder(view[r], s)
<1>1. o.sym = s
  BY DEF PlannedOrder
<1> HIDE DEF o
<1>2. CASE o \in Reconcile(view[r])
  BY <1>1, <1>2, AllowanceByOrder DEF PlannedMove, o
<1>3. CASE o \notin Reconcile(view[r])
  <2>1. \A x \in Reconcile(view[r]) : \E u \in Symbols : x = PlannedOrder(view[r], u) /\ x.sym = u
    BY DEF Reconcile, Considered, PlannedOrder
  <2>2. OrderOf(r, s) = {}
    BY <1>3, <2>1 DEF OrderOf, o
  <2> QED
    BY <1>3, <2>2, AllowanceNone DEF PlannedMove, o
<1> QED
  BY <1>2, <1>3

LEMMA PlannedMoveInt ==
    ASSUME NEW v \in Views, NEW s \in Symbols PROVE PlannedMove(v, s) \in Int
<1>1. ASSUME PlannedOrder(v, s) \in Reconcile(v) PROVE PlannedOrder(v, s).qty \in Nat
  <2>1. PlannedOrder(v, s) \in Orders
    BY <1>1, PlanTyped
  <2> QED
    BY <2>1 DEF Orders
<1> QED
  BY <1>1, SignedInt DEF PlannedMove

\* A run that is cleared has what it read, and may move what it planned.
LEMMA ClearedOnTheWay ==
    ASSUME IInv, WireInv, IInv', WireInv', NEW r \in Runs, CheckClears(r), view[r].held = pos
    PROVE  OnTheWay(r)'
<1>1. /\ pc[r] = "check" /\ pc'[r] = "leverage" /\ pos' = pos /\ view' = view
      /\ todo' = todo /\ wire' = wire
  BY DEF CheckClears, Goto, IInv, TypeOK, Environment, exchange
<1>2. todo'[r] = Reconcile(view'[r])
  BY <1>1 DEF IInv, RunInv, NothingYet
<1>3. pc'[r] \in Cleared
  BY <1>1 DEF Cleared
<1>4. \A s \in Symbols : WireOf(r, s)' = {}
  BY <1>1, Ungranted, SameWire, BusyStages
<1>5. ASSUME NEW s \in Symbols
      PROVE  /\ Moved(r, s)' = 0
             /\ AllowanceOf(r, s)' = PlannedMove(view[r], s)'
  <2>1. Moved(r, s)' = pos[s] - pos[s] /\ pos[s] \in Int
    BY <1>1 DEF Moved, IInv, TypeOK
  <2>2. (WireOf(r, s) = {} /\ todo[r] = Reconcile(view[r]) /\ pc[r] \in Cleared
          => AllowanceOf(r, s) = PlannedMove(view[r], s))'
    BY GrantIsPlan, PTL
  <2>3. AllowanceOf(r, s)' = PlannedMove(view[r], s)'
    BY <1>2, <1>3, <1>4, <2>2
  <2> QED
    BY <2>1, <2>3
<1>6. \A s \in Symbols : PlannedMove(view[r], s)' \in Int
  BY <1>1, PlannedMoveInt DEF IInv, TypeOK
<1> QED
  BY <1>5, <1>6, WithinFacts DEF OnTheWay

\* Nobody but the run that is busy may move a position.
LEMMA OthersQuiet ==
    ASSUME IInv, WireInv, SerialInv, NEW r \in Runs, pc[r] \in Busy
    PROVE  \A q \in Runs \ {r}, s \in Symbols : AllowanceOf(q, s) = 0
<1> SUFFICES ASSUME NEW q \in Runs \ {r}, NEW s \in Symbols
             PROVE  AllowanceOf(q, s) = 0
  OBVIOUS
<1>1. WireOf(q, s) = {}
  BY DEF SerialInv, WireOf
<1>2. pc[q] \notin Cleared
  BY BusyStages DEF SerialInv
<1> QED
  BY <1>1, <1>2, AllowanceNone

\* Whatever happens to a cleared run that is alone, it stays within its plan.
LEMMA OnTheWayKept ==
    ASSUME IInv, WireInv, IInv', WireInv', SerialInv, [Next]_vars, NEW r \in Runs,
           pc[r] \in Cleared, view'[r] = view[r]
    PROVE  OnTheWay(r)'
<1>1. \A q \in Runs \ {r}, s \in Symbols : AllowanceOf(q, s) = 0
  BY OthersQuiet, BusyStages
<1>2. /\ AllowancesInt /\ AllowancesInt' /\ [Promise!Next]_Promise!vars
      /\ pos \in [Symbols -> Int] /\ pos' \in [Symbols -> Int]
      /\ view[r] \in Views /\ pc[r] \in Granted
  BY AllowanceInt, AllowanceIntNext, StepImplements DEF IInv, TypeOK, Granted
<1>3. OnTheWay(r)
  BY BusyStages DEF SerialInv
<1> SUFFICES ASSUME NEW s \in Symbols
             PROVE  (/\ Promise!Within(Moved(r, s), PlannedMove(view[r], s))
                     /\ Promise!Within(Moved(r, s) + AllowanceOf(r, s), PlannedMove(view[r], s)))'
  BY DEF OnTheWay
<1> DEFINE x == Moved(r, s)
           y == Moved(r, s)'
           a == AllowanceOf(r, s)
           b == AllowanceOf(r, s)'
           q == PlannedMove(view[r], s)
<1>4. PlannedMove(view[r], s)' = q
  BY DEF PlannedMove
<1>5. view[r].held[s] \in Int
  BY <1>2 DEF Views
<1>6. x \in Int /\ y \in Int /\ a \in Int /\ b \in Int /\ q \in Int
  BY <1>2, <1>5, PlannedMoveInt DEF Moved, AllowancesInt
<1>7. y - x = pos'[s] - pos[s]
  BY <1>2, <1>5 DEF Moved
<1>8. Promise!Within(x, q) /\ Promise!Within(x + a, q)
  BY <1>3 DEF OnTheWay
<1>9. \/ pos'[s] = pos[s] /\ Promise!Within(b, a)
      \/ Promise!Within(pos'[s] - pos[s], a) /\ b = 0
  BY <1>1, <1>2, AloneStep
<1>10. \/ y = x /\ Promise!Within(b, a)
       \/ Promise!Within(y - x, a) /\ b = 0
  <2>1. pos[s] \in Int /\ pos'[s] \in Int
    BY <1>2
  <2> HIDE DEF a, b, x, y
  <2>2. pos'[s] = pos[s] => y = x
    BY <1>6, <1>7, <2>1
  <2> QED
    BY <1>7, <1>9, <2>2
<1> HIDE DEF a, b, x, y, q
<1>11. Promise!Within(y, q) /\ Promise!Within(y + b, q)
  BY <1>6, <1>8, <1>10, WithinTransfers
<1> QED
  BY <1>4, <1>11 DEF y, b, q

\* A run that comes to a stage of Busy is alone there, with its own orders.
SoleBusy(r) ==
    /\ \A q \in Runs : pc[q] \in Busy => q = r
    /\ \A w \in wire : w.run = r

LEMMA OwnOrders ==
    ASSUME IInv, NEW r \in Runs, NEW p \in Runs, RunStep(p) \/ RunFault(p),
           \A w \in wire : w.run = r, p = r \/ pc[p] \notin Busy
    PROVE  \A w \in wire' : w.run = r
<1>1. CASE Post(p)
  <2>1. p = r
    BY <1>1, BusyStages DEF Post, Goto, Busy, Cleared
  <2> QED
    BY <1>1, <2>1 DEF Post
<1> QED
  BY <1>1, RunWire DEF IInv

LEMMA SoleBusyKept ==
    ASSUME IInv, WireInv, SerialInv, Serial, NEW p \in Runs, RunStep(p) \/ RunFault(p),
           NEW r \in Runs, pc'[r] \in Busy
    PROVE  SoleBusy(r)' /\ (Start(r) \/ pc[r] \in Busy)
<1>1. \A q \in Runs \ {p} : pc'[q] = pc[q]
  BY RunStepKeeps DEF IInv, OwnStep, Untouched
<1>2. CASE Start(p)
  <2>1. wire' = {} /\ \A q \in Runs : pc[q] \notin Busy
    BY <1>2, StartsAlone
  <2>2. r = p
    BY <1>1, <2>1
  <2> QED
    BY <1>1, <1>2, <2>1, <2>2 DEF SoleBusy
<1>3. CASE ~Start(p)
  <2>1. \A q \in Runs : pc'[q] \in Busy => pc[q] \in Busy
    BY <1>1, <1>3, HowBusy
  <2>2. pc[r] \in Busy /\ (\A q \in Runs : pc[q] \in Busy => q = r) /\ \A w \in wire : w.run = r
    BY <2>1 DEF SerialInv
  <2>3. \A w \in wire' : w.run = r
    BY <2>2, OwnOrders
  <2> QED
    BY <2>1, <2>2, <2>3 DEF SoleBusy
<1> QED
  BY <1>2, <1>3

LEMMA InitSerial == Init => SerialInv
BY BusyStages DEF Init, SerialInv

LEMMA RunSerial ==
    ASSUME IInv, WireInv, IInv', WireInv', SerialInv, Serial,
           NEW p \in Runs, RunStep(p) \/ RunFault(p)
    PROVE  SerialInv'
<1>1. OwnStep(p) /\ Next
  BY RunStepKeeps DEF IInv, Next
<1> SUFFICES ASSUME NEW r \in Runs, pc'[r] \in Busy
             PROVE  /\ SoleBusy(r)'
                    /\ pc'[r] \in {"plan", "check"} => view'[r].held = pos'
                    /\ pc'[r] \in Cleared => OnTheWay(r)'
  BY DEF SerialInv, SoleBusy
<1>2. SoleBusy(r)' /\ (Start(r) \/ pc[r] \in Busy)
  BY SoleBusyKept
<1>3. pos' = pos
  BY HowBusy
<1>4. ASSUME pc'[r] \in {"plan", "check"}
      PROVE  view'[r].held = pos'
  <2>1. CASE p = r /\ ReadPositions(r)
    <3>1. view'[r] = [view[r] EXCEPT !.held = pos]
      BY <2>1 DEF ReadPositions, IInv, TypeOK
    <3>2. view[r] \in Views
      BY DEF IInv, TypeOK
    <3> QED
      BY <1>3, <3>1, <3>2 DEF Views
  <2>2. CASE ~(p = r /\ ReadPositions(r))
    <3>1. pc[r] \in {"plan", "check"} /\ view'[r] = view[r]
      BY <1>1, <1>4, <2>2, HowBusy DEF OwnStep, Untouched
    <3> QED
      BY <1>3, <3>1, BusyStages DEF SerialInv, Busy
  <2> QED
    BY <2>1, <2>2
<1>5. ASSUME pc'[r] \in Cleared
      PROVE  OnTheWay(r)'
  <2>1. CASE p = r /\ CheckClears(r)
    <3>1. pc[r] = "check" /\ pc[r] \in Busy
      BY <2>1 DEF CheckClears, Goto, Busy
    <3>2. view[r].held = pos
      BY <3>1 DEF SerialInv
    <3> QED
      BY <2>1, <3>2, ClearedOnTheWay
  <2>2. CASE ~(p = r /\ CheckClears(r))
    <3>1. pc[r] \in Cleared /\ view'[r] = view[r]
      BY <1>1, <1>5, <2>2, HowBusy DEF OwnStep, Untouched
    <3> QED
      BY <1>1, <3>1, OnTheWayKept
  <2> QED
    BY <2>1, <2>2
<1> QED
  BY <1>2, <1>4, <1>5

LEMMA WorldSerial ==
    ASSUME IInv, WireInv, IInv', WireInv', SerialInv,
           ExchangeStep \/ MarketMoves \/ TouchKill \/ RemoveKill \/ UNCHANGED vars
    PROVE  SerialInv'
<1> SUFFICES ASSUME NEW r \in Runs, pc'[r] \in Busy
             PROVE  /\ SoleBusy(r)'
                    /\ pc'[r] \in {"plan", "check"} => view'[r].held = pos'
                    /\ pc'[r] \in Cleared => OnTheWay(r)'
  BY DEF SerialInv, SoleBusy
<1>1. \A q \in Runs : pc'[q] = pc[q] /\ view'[q] = view[q]
  BY WorldKeepsRuns DEF Untouched
<1>2. wire' \subseteq wire /\ (wire = {} => pos' = pos)
  BY DEF ExchangeStep, Execute, ExecutePart, Fill, Lose, MarketMoves, TouchKill,
         RemoveKill, vars, exchange
<1>3. SoleBusy(r)'
  BY <1>1, <1>2 DEF SoleBusy, SerialInv
<1>4. ASSUME pc[r] \in {"plan", "check"}
      PROVE  view'[r].held = pos'
  <2>1. \A w \in wire : w.run = r
    BY <1>1 DEF SerialInv
  <2>2. wire = {}
    BY <1>4, <2>1, BusyStages DEF WireInv
  <2> QED
    BY <1>1, <1>2, <1>4, <2>2 DEF SerialInv
<1>5. ASSUME pc[r] \in Cleared
      PROVE  OnTheWay(r)'
  BY <1>1, <1>5, OnTheWayKept DEF Next
<1> QED
  BY <1>1, <1>3, <1>4, <1>5

LEMMA StepSerial ==
    Serial /\ SerialInv /\ IInv /\ WireInv /\ (IInv /\ WireInv)' /\ [Next]_vars => SerialInv'
BY RunSerial, WorldSerial DEF Next

LEMMA ProductOrder ==
    ASSUME NEW x \in Nat, NEW q \in Nat, NEW c \in Nat, x <= q
    PROVE  0 <= x * c /\ x * c <= q * c
BY SMT

\* A move within the plan takes a position towards its target.
LEMMA WithinPlanTowards ==
    ASSUME NEW v \in Views, NEW s \in Symbols, Tradeable(v, s), NEW p \in Int,
           Promise!Within(p - v.held[s], PlannedMove(v, s))
    PROVE  LET before == Distance(v, s, v.held[s])
               now == Distance(v, s, p)
           IN (0 <= now /\ now <= before) \/ (before <= now /\ now <= 0)
<1> DEFINE c == Scale * v.price[s]
           d == ScaledDelta(v, s)
           h == v.held[s]
           m == PlannedMove(v, s)
           n == OrderQty(v, s)
           t == v.book[s] * v.equity
<1>1. /\ v.book[s] \in Int /\ v.equity \in Int /\ h \in Int
      /\ v.price[s] \in Nat /\ Scale \in Nat
  BY AssumptionsHold DEF Views, Assumptions
<1>2. c \in Nat /\ t \in Int /\ d \in Int
  BY <1>1, ProductNat, DeltaInt
<1>3. n \in Nat /\ n * c <= Magnitude(d)
  BY PlannedOrderTyped
<1>4. m = 0 \/ (d > 0 /\ m = n) \/ (~(d > 0) /\ m = -n)
  BY DEF PlannedMove, PlannedOrder, Signed, Side
<1>5. Distance(v, s, h) = t - h * c /\ Distance(v, s, p) = t - p * c /\ d = t - h * c
  BY <1>1, SMT DEF Distance, ScaledDelta
<1>6. Promise!Within(p - h, m)
  OBVIOUS
<1> SUFFICES (0 <= t - p * c /\ t - p * c <= d) \/ (d <= t - p * c /\ t - p * c <= 0)
  BY <1>5
<1> HIDE DEF c, d, h, m, n, t
<1>7. CASE 0 <= p - h /\ d > 0 /\ p - h <= n
  <2>1. p - h \in Nat /\ 0 <= (p - h) * c /\ (p - h) * c <= n * c
    BY <1>1, <1>2, <1>3, <1>7, ProductOrder
  <2>2. (p - h) * c = p * c - h * c /\ p * c \in Int /\ h * c \in Int /\ n * c \in Int
    BY <1>1, <1>2, <1>3, SMT
  <2>3. n * c <= d
    BY <1>2, <1>3, <1>7 DEF Magnitude
  <2> QED
    BY <1>2, <1>5, <2>1, <2>2, <2>3
<1>8. CASE p - h <= 0 /\ ~(d > 0) /\ h - p <= n
  <2>1. h - p \in Nat /\ 0 <= (h - p) * c /\ (h - p) * c <= n * c
    BY <1>1, <1>2, <1>3, <1>8, ProductOrder
  <2>2. (h - p) * c = h * c - p * c /\ p * c \in Int /\ h * c \in Int /\ n * c \in Int
    BY <1>1, <1>2, <1>3, SMT
  <2>3. n * c <= -d
    BY <1>2, <1>3, <1>8, <2>2 DEF Magnitude
  <2> QED
    BY <1>2, <1>5, <2>1, <2>2, <2>3
<1>9. CASE p = h
  BY <1>2, <1>5, <1>9
<1> QED
  BY <1>1, <1>3, <1>4, <1>6, <1>7, <1>8, <1>9 DEF Promise!Within

LEMMA SerialTowards == SerialInv /\ IInv => NeverPastTarget
<1> SUFFICES ASSUME SerialInv, IInv, NEW r \in Runs, NEW s \in Symbols,
                    pc[r] \in Cleared, Tradeable(view[r], s)
             PROVE  LET before == Distance(view[r], s, view[r].held[s])
                        now == Distance(view[r], s, pos[s])
                    IN (0 <= now /\ now <= before) \/ (before <= now /\ now <= 0)
  BY DEF NeverPastTarget
<1>1. Promise!Within(pos[s] - view[r].held[s], PlannedMove(view[r], s))
  BY BusyStages DEF SerialInv, OnTheWay, Moved
<1>2. view[r] \in Views /\ pos[s] \in Int
  BY DEF IInv, TypeOK
<1> QED
  BY <1>1, <1>2, WithinPlanTowards

\* When runs come one after the other and each order settles before the next
\* run, no run takes a position past its target: not by a second order, and not
\* when an order it gave up on is executed after all.
THEOREM SerialRunsNeverPastTarget == Spec => [](Serial => NeverPastTarget)
<1>1. Init => (Serial => SerialInv)
  BY InitSerial
<1>2. /\ (Serial => SerialInv) /\ IInv /\ WireInv /\ (IInv /\ WireInv)'
      /\ [Next]_vars
      => (Serial => SerialInv)'
  BY StepSerial DEF Serial
<1>3. (Serial => SerialInv) /\ IInv => (Serial => NeverPastTarget)
  BY SerialTowards
<1> QED
  BY <1>1, <1>2, <1>3, Implementing, PTL DEF Spec

-----------------------------------------------------------------------------
(***************************************************************************)
(* Idempotence.  Of a run that is alone and meets no fault, what it moved, *)
(* what is on its way and what it has still to send make up what its plan  *)
(* sends; when it has ended, what is left of each distance is less than    *)
(* the step, and the one that float arithmetic may have cost.              *)
(***************************************************************************)
Steady == "market" \notin Faults

Clean(r) == faults = 0 /\ \A q \in Runs \ {r} : pc[q] = "idle"

\* What the plan sends for a symbol.
SentMove(v, s) ==
    IF PlannedOrder(v, s) \in Reconcile(v)
    THEN LET qty == Sent(v, PlannedOrder(v, s)) IN IF Side(v, s) = "BUY" THEN qty ELSE -qty
    ELSE 0

\* What is on its way or still to be sent.
Pending(r, s) ==
    IF WireOf(r, s) # {} THEN Signed(CHOOSE w \in WireOf(r, s) : TRUE)
    ELSE IF OrderOf(r, s) # {} THEN SentMove(view[r], s) ELSE 0

Balanced(r) ==
    \A s \in Symbols : pos[s] + Pending(r, s) = view[r].held[s] + SentMove(view[r], s)

\* From which stage on a run has read what.
Placing == Cleared \cup {"complete"}
ReadAll == {"plan", "check"} \cup Placing

ReadsMarket(r) ==
    /\ pc[r] \in {"specs", "prices", "positions"} \cup ReadAll => view[r].equity = market.equity
    /\ pc[r] \in {"prices", "positions"} \cup ReadAll => view[r].spec = market.spec
    /\ pc[r] \in {"positions"} \cup ReadAll => view[r].price = market.price

CleanInv ==
    \A r \in Runs : Clean(r) =>
        /\ ReadsMarket(r)
        /\ pc[r] \in {"plan", "check"} => view[r].held = pos
        /\ pc[r] \in Placing => Balanced(r)
        /\ pc[r] = "complete" => todo[r] = {}

LEMMA PlacingStages ==
    /\ Placing \subseteq Granted /\ Placing \cap {"plan", "check"} = {}
    /\ Cleared \subseteq Placing /\ "idle" \notin Granted
BY DEF Placing, Granted, Cleared, Ended

LEMMA RunStepMoves ==
    ASSUME IInv, NEW r \in Runs, RunStep(r)
    PROVE  pc'[r] # "idle" /\ faults' = faults
<1> USE DEF IInv, TypeOK, Goto, NoFault
<1>1. CASE \/ Start(r) \/ StartKilled(r) \/ ReadAccount(r) \/ ReadSpecs(r) \/ ReadPrices(r)
           \/ ReadPositions(r)
  BY <1>1 DEF Start, StartKilled, ReadAccount, ReadSpecs, ReadPrices, ReadPositions
<1>2. CASE MakePlan(r) \/ CheckBlocks(r) \/ CheckDryRun(r) \/ CheckNothingToDo(r) \/ CheckClears(r)
  BY <1>2 DEF MakePlan, CheckBlocks, CheckDryRun, CheckNothingToDo, CheckClears
<1>3. CASE SetLeverage(r)
  BY <1>3 DEF SetLeverage, AfterLeverage
<1>4. CASE TakeOrder(r)
  BY <1>4 DEF TakeOrder
<1>5. CASE Post(r) \/ OrderReturns(r) \/ Complete(r)
  BY <1>5 DEF Post, OrderReturns, Complete
<1> QED
  BY <1>1, <1>2, <1>3, <1>4, <1>5 DEF RunStep

\* A step that leaves a run clean is a step of that run, an order executed in
\* full, or the kill switch.
LEMMA CleanStep ==
    ASSUME IInv, [Next]_vars, Steady, NEW r \in Runs, Clean(r)'
    PROVE  /\ Clean(r)
           /\ \/ RunStep(r)
              \/ \E w \in wire : Execute(w)
              \/ TouchKill \/ RemoveKill \/ UNCHANGED vars
<1>1. \A kind : ~Fault(kind)
  BY DEF Clean, Fault, IInv, TypeOK
<1>2. ASSUME NEW p \in Runs, RunStep(p) \/ RunFault(p)
      PROVE  p = r /\ RunStep(r) /\ Clean(r)
  <2>1. RunStep(p)
    BY <1>1, <1>2 DEF RunFault, ReadRaises, SetLeverageRaises, OrderRejected, OrderTimesOut, Crash
  <2>2. pc'[p] # "idle" /\ faults' = faults
    BY <2>1, RunStepMoves
  <2>3. \A q \in Runs \ {p} : pc'[q] = pc[q]
    BY <1>2, RunStepKeeps DEF IInv, OwnStep, Untouched
  <2> QED
    BY <2>1, <2>2, <2>3 DEF Clean
<1>3. CASE ExchangeStep
  <2>1. PICK w \in wire : Execute(w)
    BY <1>1, <1>3 DEF ExchangeStep, ExecutePart, Lose
  <2>2. faults' = faults /\ pc' = pc
    BY <2>1 DEF Execute, Fill, NoFault, process
  <2> QED
    BY <2>1, <2>2 DEF Clean
<1>4. CASE MarketMoves
  BY <1>4 DEF MarketMoves, Steady
<1>5. CASE TouchKill \/ RemoveKill \/ UNCHANGED vars
  BY <1>5 DEF TouchKill, RemoveKill, vars, process, Clean
<1> QED
  BY <1>2, <1>3, <1>4, <1>5 DEF Next

\* The orders on their way are those of the run that is clean.
LEMMA CleanWire ==
    ASSUME IInv, WireInv, NEW r \in Runs, Clean(r), NEW w \in wire
    PROVE  w.run = r /\ w.sym \in Symbols /\ pc[r] \in Granted
<1>1. w.run \in Runs /\ w.sym \in Symbols /\ pc[w.run] \in Granted
  BY DEF IInv, TypeOK, WireOrders, WireInv
<1> QED
  BY <1>1, PlacingStages DEF Clean

\* What is pending depends on the run's own orders.
LEMMA PendingFrame ==
    ASSUME NEW r, NEW s, view'[r] = view[r],
           WireOf(r, s)' = WireOf(r, s), OrderOf(r, s)' = OrderOf(r, s)
    PROVE  Pending(r, s)' = Pending(r, s)
BY DEF Pending

LEMMA BalanceFrame ==
    ASSUME NEW r \in Runs, Balanced(r), pos' = pos, wire' = wire, view'[r] = view[r],
           todo'[r] = todo[r]
    PROVE  Balanced(r)'
<1>1. \A s \in Symbols : Pending(r, s)' = Pending(r, s)
  BY PendingFrame, SameWire DEF OrderOf
<1> QED
  BY <1>1 DEF Balanced

\* An order in a plan is the order planned for its symbol.
LEMMA OrderPlanned ==
    ASSUME NEW v, NEW o \in Reconcile(v)
    PROVE  /\ o.sym \in Symbols /\ o = PlannedOrder(v, o.sym)
           /\ o.side = Side(v, o.sym) /\ o.qty = OrderQty(v, o.sym)
BY DEF Reconcile, Considered, PlannedOrder

LEMMA SentMoveOf ==
    ASSUME NEW v \in Views, NEW o \in Reconcile(v)
    PROVE  /\ Sent(v, o) \in Nat
           /\ SentMove(v, o.sym) = IF o.side = "BUY" THEN Sent(v, o) ELSE -Sent(v, o)
<1>1. o \in Orders /\ o = PlannedOrder(v, o.sym) /\ o.side = Side(v, o.sym)
  BY PlanTyped, OrderPlanned
<1> QED
  BY <1>1, SentNat DEF SentMove

\* With nothing on its way, what is pending is what is still to be sent, if
\* it is to be sent at all.
LEMMA PendingUnsent ==
    ASSUME NEW r, NEW s, WireOf(r, s) = {}
    PROVE  /\ OrderOf(r, s) # {} => Pending(r, s) = SentMove(view[r], s)
           /\ OrderOf(r, s) = {} => Pending(r, s) = 0
BY DEF Pending

LEMMA ClearedBalanced ==
    ASSUME IInv, WireInv, NEW r \in Runs, pc[r] = "check", view[r].held = pos,
           pos' = pos, wire' = wire, view' = view, todo' = todo
    PROVE  Balanced(r)'
<1>1. \A s \in Symbols : WireOf(r, s)' = {} /\ WireOf(r, s) = {}
  BY Ungranted, SameWire, StagesApart
<1>2. todo'[r] = Reconcile(view[r])
  BY DEF IInv, RunInv, NothingYet
<1>3. ASSUME NEW s \in Symbols
      PROVE  Pending(r, s)' = SentMove(view[r], s)
  <2>1. CASE PlannedOrder(view[r], s) \in Reconcile(view[r])
    <3>1. PlannedOrder(view[r], s) \in OrderOf(r, s)'
      BY <1>2, <2>1 DEF OrderOf, PlannedOrder
    <3> QED
      BY <1>1, <3>1 DEF Pending
  <2>2. CASE PlannedOrder(view[r], s) \notin Reconcile(view[r])
    <3>1. SentMove(view[r], s) = 0
      BY <2>2 DEF SentMove
    <3>2. OrderOf(r, s)' = {}
      BY <1>2, <2>2, OrderPlanned DEF OrderOf
    <3> QED
      BY <1>1, <3>1, <3>2 DEF Pending
  <2> QED
    BY <2>1, <2>2
<1> QED
  BY <1>3 DEF Balanced

\* An order that rounds to nothing was nothing to send.
LEMMA TakeOrderBalanced ==
    ASSUME IInv, WireInv, NEW r \in Runs, TakeOrder(r), Balanced(r)
    PROVE  Balanced(r)'
<1>1. PICK o \in todo[r] :
        IF Sent(view[r], o) > 0 THEN UNCHANGED todo ELSE todo' = [todo EXCEPT ![r] = @ \ {o}]
  BY DEF TakeOrder
<1>2. pos' = pos /\ wire' = wire /\ view' = view
  BY DEF TakeOrder, Environment, exchange
<1>3. CASE Sent(view[r], o) > 0
  BY <1>1, <1>2, <1>3, BalanceFrame
<1>4. CASE ~(Sent(view[r], o) > 0)
  <2>1. /\ o \in Reconcile(view[r]) /\ posts[r][o.sym] = 0 /\ view[r] \in Views
        /\ todo'[r] = todo[r] \ {o} /\ todo[r] \subseteq Reconcile(view[r])
    BY <1>1, <1>4 DEF IInv, RunInv, Unsent, TypeOK
  <2>2. SentMove(view[r], o.sym) = 0
    BY <1>4, <2>1, SentMoveOf
  <2>3. WireOf(r, o.sym) = {}
    BY <2>1 DEF WireInv, WireOf
  <2>4. Pending(r, o.sym) = 0
    BY <2>2, <2>3, PendingUnsent
  <2>5. Pending(r, o.sym)' = 0
    BY <1>2, <2>2, <2>3, SameWire DEF Pending
  <2>6. \A s \in Symbols \ {o.sym} : OrderOf(r, s)' = OrderOf(r, s)
    BY <2>1 DEF OrderOf
  <2>7. \A s \in Symbols \ {o.sym} : Pending(r, s)' = Pending(r, s)
    BY <1>2, <2>6, SameWire, PendingFrame
  <2> QED
    BY <1>2, <2>4, <2>5, <2>7 DEF Balanced
<1> QED
  BY <1>3, <1>4

LEMMA PostBalanced ==
    ASSUME IInv, WireInv, NEW r \in Runs, Post(r), Balanced(r)
    PROVE  Balanced(r)'
<1>1. PICK o \in todo[r] :
        /\ wire' = wire \cup {[run |-> r, sym |-> o.sym, side |-> o.side,
                               qty |-> Sent(view[r], o)]}
        /\ todo' = [todo EXCEPT ![r] = @ \ {o}]
  BY DEF Post
<1> DEFINE new == [run |-> r, sym |-> o.sym, side |-> o.side, qty |-> Sent(view[r], o)]
<1>2. pos' = pos /\ view' = view
  BY DEF Post
<1>3. /\ o \in Reconcile(view[r]) /\ posts[r][o.sym] = 0 /\ view[r] \in Views
      /\ todo'[r] = todo[r] \ {o} /\ todo[r] \subseteq Reconcile(view[r])
  BY <1>1 DEF IInv, RunInv, Unsent, TypeOK
<1>4. new.run = r /\ new.sym = o.sym /\ Signed(new) = SentMove(view[r], o.sym)
  BY <1>3, SentMoveOf DEF Signed
<1>5. WireOf(r, o.sym) = {}
  BY <1>3 DEF WireInv, WireOf
<1>6. wire' = wire \cup {new}
  BY <1>1
<1> HIDE DEF new
<1>7. WireOf(r, o.sym)' = {new} /\ \A s \in Symbols \ {o.sym} : WireOf(r, s)' = WireOf(r, s)
  BY <1>4, <1>5, <1>6 DEF WireOf
<1>8. (CHOOSE w \in {new} : TRUE) = new
  OBVIOUS
<1>9. Pending(r, o.sym)' = SentMove(view[r], o.sym)
  BY <1>4, <1>7, <1>8 DEF Pending
<1>10. o \in OrderOf(r, o.sym)
  BY DEF OrderOf
<1>11. Pending(r, o.sym) = SentMove(view[r], o.sym)
  BY <1>5, <1>10, PendingUnsent
<1>12. \A s \in Symbols \ {o.sym} : OrderOf(r, s)' = OrderOf(r, s)
  BY <1>3 DEF OrderOf
<1>13. \A s \in Symbols \ {o.sym} : Pending(r, s)' = Pending(r, s)
  BY <1>2, <1>7, <1>12, PendingFrame
<1> QED
  BY <1>2, <1>9, <1>11, <1>13 DEF Balanced

\* An order that is executed in full moves what was on its way.
LEMMA ExecuteBalanced ==
    ASSUME IInv, WireInv, NEW r \in Runs, Clean(r), Balanced(r), NEW w \in wire, Execute(w)
    PROVE  Balanced(r)'
<1>1. w.run = r /\ w.sym \in Symbols /\ w.qty \in Nat
  BY CleanWire DEF IInv, TypeOK, WireOrders
<1>2. /\ pos' = [pos EXCEPT ![w.sym] = IF w.side = "BUY" THEN @ + w.qty ELSE @ - w.qty]
      /\ wire' = wire \ {w} /\ view' = view /\ todo' = todo
  BY DEF Execute, Fill, process
<1>3. pos \in [Symbols -> Int]
  BY DEF IInv, TypeOK
<1>4. pos'[w.sym] = pos[w.sym] + Signed(w) /\ Signed(w) \in Int
  BY <1>1, <1>2, <1>3 DEF Signed
<1>5. WireOf(r, w.sym) = {w}
  BY <1>1, AllowanceByWire
<1>6. (CHOOSE x \in {w} : TRUE) = w
  OBVIOUS
<1>7. Pending(r, w.sym) = Signed(w)
  BY <1>5, <1>6 DEF Pending
<1>8. OrderOf(r, w.sym) = {}
  BY <1>1 DEF OrderOf, WireInv, IInv, RunInv, Unsent
<1>9. WireOf(r, w.sym)' = {}
  BY <1>2, <1>5 DEF WireOf
<1>10. Pending(r, w.sym)' = 0
  BY <1>2, <1>8, <1>9 DEF Pending, OrderOf
<1>11. \A s \in Symbols \ {w.sym} : WireOf(r, s)' = WireOf(r, s) /\ OrderOf(r, s)' = OrderOf(r, s)
  BY <1>2 DEF WireOf, OrderOf
<1>12. \A s \in Symbols \ {w.sym} : Pending(r, s)' = Pending(r, s) /\ pos'[s] = pos[s]
  BY <1>2, <1>3, <1>11, PendingFrame
<1>13. pos'[w.sym] + 0 = pos[w.sym] + Signed(w)
  BY <1>1, <1>3, <1>4
<1> QED
  BY <1>1, <1>2, <1>7, <1>10, <1>12, <1>13 DEF Balanced

-----------------------------------------------------------------------------
\* The stages a run comes to, and from where.
CleanRun(r) ==
    /\ ReadsMarket(r)
    /\ pc[r] \in {"plan", "check"} => view[r].held = pos
    /\ pc[r] \in Placing => Balanced(r)
    /\ pc[r] = "complete" => todo[r] = {}

LEMMA CleanReading ==
    ASSUME IInv, NEW r \in Runs, CleanRun(r),
           \/ Start(r) \/ StartKilled(r) \/ ReadAccount(r) \/ ReadSpecs(r) \/ ReadPrices(r)
           \/ ReadPositions(r)
    PROVE  CleanRun(r)'
<1> USE DEF CleanRun, ReadsMarket, ReadAll, Placing, Cleared, IInv, TypeOK, Goto, Environment, exchange
<1>0. view[r] \in Views
  OBVIOUS
<1>1. CASE Start(r) \/ StartKilled(r)
  BY <1>1 DEF Start, StartKilled
<1>2. CASE ReadAccount(r)
  BY <1>0, <1>2 DEF ReadAccount, Views
<1>3. CASE ReadSpecs(r)
  BY <1>0, <1>3 DEF ReadSpecs, Views
<1>4. CASE ReadPrices(r)
  BY <1>0, <1>4 DEF ReadPrices, Views
<1>5. CASE ReadPositions(r)
  BY <1>0, <1>5 DEF ReadPositions, Views
<1> QED
  BY <1>1, <1>2, <1>3, <1>4, <1>5

LEMMA CleanPlanning ==
    ASSUME IInv, WireInv, NEW r \in Runs, CleanRun(r),
           MakePlan(r) \/ CheckBlocks(r) \/ CheckDryRun(r) \/ CheckNothingToDo(r) \/ CheckClears(r)
    PROVE  CleanRun(r)'
<1>1. view' = view /\ pos' = pos /\ market' = market /\ wire' = wire
  BY DEF MakePlan, CheckBlocks, CheckDryRun, CheckNothingToDo, CheckClears, Environment, exchange
<1>2. pc[r] \in {"plan", "check"}
  BY DEF MakePlan, CheckBlocks, CheckDryRun, CheckNothingToDo, CheckClears, Goto
<1>3. ReadsMarket(r)'
  BY <1>1, <1>2 DEF CleanRun, ReadsMarket, ReadAll
<1>4. CASE pc'[r] \notin Placing
  BY <1>1, <1>2, <1>3, <1>4 DEF CleanRun, Placing
<1>5. CASE pc'[r] \in Placing
  <2>1. pc[r] = "check" /\ todo' = todo
    BY <1>5 DEF MakePlan, CheckBlocks, CheckDryRun, CheckNothingToDo, CheckClears, Goto, Placing,
                Cleared, IInv, TypeOK
  <2>2. Balanced(r)'
    BY <1>1, <1>2, <2>1, ClearedBalanced DEF CleanRun
  <2>3. pc'[r] = "complete" => todo'[r] = {}
    BY <2>1 DEF MakePlan, CheckBlocks, CheckDryRun, CheckNothingToDo, CheckClears, Goto, IInv, TypeOK
  <2> QED
    BY <1>3, <1>5, <2>2, <2>3, PlacingStages DEF CleanRun
<1> QED
  BY <1>4, <1>5

LEMMA CleanPlacing ==
    ASSUME IInv, WireInv, NEW r \in Runs, CleanRun(r),
           SetLeverage(r) \/ TakeOrder(r) \/ Post(r) \/ OrderReturns(r) \/ Complete(r)
    PROVE  CleanRun(r)'
<1>1. pc[r] \in Cleared /\ view' = view /\ pos' = pos /\ market' = market
  BY DEF SetLeverage, AfterLeverage, TakeOrder, Post, OrderReturns, Complete, Goto, Cleared,
         Environment, exchange
<1>2. pc'[r] \in Placing
  <2>1. CASE SetLeverage(r)
    BY <2>1 DEF SetLeverage, AfterLeverage, Goto, IInv, TypeOK, Placing, Cleared
  <2>2. CASE TakeOrder(r)
    BY <2>2 DEF TakeOrder, Goto, IInv, TypeOK, Placing, Cleared
  <2>3. CASE Post(r) \/ OrderReturns(r) \/ Complete(r)
    BY <2>3 DEF Post, OrderReturns, Complete, Goto, IInv, TypeOK, Placing, Cleared
  <2> QED
    BY <2>1, <2>2, <2>3
<1>3. Balanced(r)
  BY <1>1, PlacingStages DEF CleanRun
<1>4. Balanced(r)'
  <2>1. CASE SetLeverage(r) \/ OrderReturns(r) \/ Complete(r)
    BY <1>1, <1>3, <2>1, BalanceFrame DEF SetLeverage, OrderReturns, Complete, Environment, exchange
  <2> QED
    BY <1>3, <2>1, TakeOrderBalanced, PostBalanced
<1>5. ReadsMarket(r)'
  BY <1>1, <1>2 DEF CleanRun, ReadsMarket, ReadAll, Placing
<1>6. pc'[r] = "complete" => todo'[r] = {}
  <2>1. CASE SetLeverage(r)
    BY <2>1 DEF SetLeverage, AfterLeverage, Goto, IInv, TypeOK
  <2>2. CASE TakeOrder(r)
    BY <2>2 DEF TakeOrder, Goto, IInv, TypeOK
  <2>3. CASE Post(r) \/ OrderReturns(r) \/ Complete(r)
    BY <2>3 DEF Post, OrderReturns, Complete, Goto, IInv, TypeOK
  <2> QED
    BY <2>1, <2>2, <2>3
<1> QED
  BY <1>2, <1>4, <1>5, <1>6, PlacingStages DEF CleanRun

LEMMA CleanElsewhere ==
    ASSUME IInv, WireInv, NEW r \in Runs, CleanRun(r), Clean(r),
           (\E w \in wire : Execute(w)) \/ TouchKill \/ RemoveKill \/ UNCHANGED vars
    PROVE  CleanRun(r)'
<1>1. CASE TouchKill \/ RemoveKill \/ UNCHANGED vars
  <2>1. UNCHANGED <<pos, wire, market, pc, view, todo>>
    BY <1>1 DEF TouchKill, RemoveKill, vars, exchange, process
  <2> QED
    BY <2>1, BalanceFrame DEF CleanRun, ReadsMarket
<1>2. ASSUME NEW w \in wire, Execute(w)
      PROVE  CleanRun(r)'
  <2>1. UNCHANGED <<market, pc, view, todo>>
    BY <1>2 DEF Execute, Fill, process
  <2>2. pc[r] \notin {"plan", "check"}
    BY CleanWire, StagesApart DEF Planning
  <2> QED
    BY <1>2, <2>1, <2>2, ExecuteBalanced DEF CleanRun, ReadsMarket
<1> QED
  BY <1>1, <1>2

LEMMA InitClean == Init => CleanInv
<1> SUFFICES ASSUME Init, NEW r \in Runs PROVE CleanRun(r)
  BY DEF CleanInv, CleanRun
<1>1. pc[r] = "idle"
  BY DEF Init
<1> QED
  BY <1>1 DEF CleanRun, ReadsMarket, ReadAll, Placing, Cleared

LEMMA StepClean == Steady /\ CleanInv /\ IInv /\ WireInv /\ [Next]_vars => CleanInv'
<1> SUFFICES ASSUME Steady, CleanInv, IInv, WireInv, [Next]_vars, NEW r \in Runs, Clean(r)'
             PROVE  CleanRun(r)'
  BY DEF CleanInv, CleanRun
<1>1. /\ Clean(r)
      /\ \/ RunStep(r)
         \/ \E w \in wire : Execute(w)
         \/ TouchKill \/ RemoveKill \/ UNCHANGED vars
  BY CleanStep
<1>2. CleanRun(r)
  BY <1>1 DEF CleanInv, CleanRun
<1> QED
  BY <1>1, <1>2, CleanReading, CleanPlanning, CleanPlacing, CleanElsewhere DEF RunStep

-----------------------------------------------------------------------------
(* What a second run would order.                                          *)

\* round_step_down leaves less than a step, or just one where it loses one.
LEMMA StepLeft ==
    ASSUME NEW num \in Nat, NEW den \in Nat \ {0}, NEW step \in Nat \ {0},
           NEW low \in BOOLEAN
    PROVE  LET R == RoundStepDown(num, den, step, low)
           IN /\ num <= R * den + den * step
              /\ ~low => num < R * den + den * step
<1> DEFINE c == den * step
           k == num \div c
           j == IF low /\ k > 0 /\ num = k * c THEN k - 1 ELSE k
<1>1. c \in Nat \ {0}
  BY ProductPositive
<1>2. RoundStepDown(num, den, step, low) = j * step
  BY DEF RoundStepDown
<1> HIDE DEF c
<1>3. k \in Nat /\ num < c * k + c /\ c * k \in Nat /\ k * c = c * k
  BY <1>1, SMT
<1>4. /\ j \in Nat /\ c * j \in Nat
      /\ num <= c * j + c
      /\ ~low => num < c * j + c
  <2>1. CASE low /\ k > 0 /\ num = k * c
    <3>1. j = k - 1
      BY <2>1
    <3>2. num = c * k
      BY <1>3, <2>1
    <3> HIDE DEF k, j
    <3>3. c * (k - 1) = c * k - c
      BY <1>1, <1>3, SMT
    <3>4. j \in Nat
      BY <1>3, <2>1, <3>1
    <3> QED
      BY <1>1, <1>3, <2>1, <3>1, <3>2, <3>3, <3>4, ProductNat
  <2>2. CASE ~(low /\ k > 0 /\ num = k * c)
    <3>1. j = k
      BY <2>2
    <3> HIDE DEF k, j
    <3> QED
      BY <1>1, <1>3, <3>1
  <2> QED
    BY <2>1, <2>2
<1> HIDE DEF j, k
<1>5. (j * step) * den = c * j
  BY <1>4, SMT DEF c
<1> QED
  BY <1>2, <1>4, <1>5 DEF c

\* Less than a step rounds to nothing, and two to at most two.
LEMMA RoundsToFew ==
    ASSUME NEW num \in Nat, NEW den \in Nat \ {0}, NEW step \in Nat \ {0},
           NEW low \in BOOLEAN
    PROVE  /\ num < den * step => RoundStepDown(num, den, step, low) = 0
           /\ num <= 2 * (den * step) => RoundStepDown(num, den, step, low) <= 2 * step
<1> DEFINE c == den * step
           k == num \div c
           j == IF low /\ k > 0 /\ num = k * c THEN k - 1 ELSE k
<1>1. c \in Nat \ {0}
  BY ProductPositive
<1>2. RoundStepDown(num, den, step, low) = j * step
  BY DEF RoundStepDown
<1> HIDE DEF c
<1>3. k \in Nat /\ (num < c => k = 0) /\ (num <= 2 * c => k <= 2)
  BY <1>1, SMT
<1>4. j \in Nat /\ j <= k
  BY <1>3
<1> HIDE DEF j, k
<1>5. j = 0 => j * step = 0
  OBVIOUS
<1>6. j <= 2 => j * step <= 2 * step
  BY <1>4, SMT
<1> QED
  BY <1>2, <1>3, <1>4, <1>5, <1>6 DEF c

\* What the second run would be short of: at most two steps, and less than one
\* where neither rounding lost any.
LEMMA DistanceLeft ==
    ASSUME NEW D \in Int, NEW c \in Nat \ {0}, NEW step \in Nat \ {0}, NEW Q \in Nat,
           NEW q \in Nat, Q * c <= Magnitude(D), Magnitude(D) <= Q * c + c * step,
           q = Q \/ q = Q - step,
           NEW m \in Int, m = IF D > 0 THEN q ELSE -q
    PROVE  /\ D - m * c \in Int
           /\ Magnitude(D - m * c) <= 2 * (c * step)
           /\ (q = Q /\ Magnitude(D) < Q * c + c * step)
                => Magnitude(D - m * c) < c * step
<1>1. /\ Q * c \in Nat /\ q * c \in Nat /\ c * step \in Nat /\ m * c \in Int
      /\ step * c = c * step
  BY ProductNat, SMT
<1>2. m * c = IF D > 0 THEN q * c ELSE -(q * c)
  BY SMT
<1>3. q = Q - step => q * c = Q * c - c * step
  BY SMT
<1>4. q = Q => q * c = Q * c
  OBVIOUS
<1> DEFINE mc == m * c
           qc == q * c
           Qc == Q * c
           cs == c * step
<1>5. /\ mc \in Int /\ qc \in Nat /\ Qc \in Nat /\ cs \in Nat
      /\ mc = IF D > 0 THEN qc ELSE -qc
      /\ qc = Qc \/ qc = Qc - cs
      /\ q = Q => qc = Qc
      /\ Qc <= Magnitude(D) /\ Magnitude(D) <= Qc + cs
  BY <1>1, <1>2, <1>3, <1>4
<1> HIDE DEF mc, qc, Qc, cs
<1>6. /\ D - mc \in Int
      /\ Magnitude(D - mc) <= 2 * cs
      /\ (q = Q /\ Magnitude(D) < Qc + cs) => Magnitude(D - mc) < cs
  BY <1>5 DEF Magnitude
<1> QED
  BY <1>6 DEF mc, cs, Qc

LEMMA MultipleDivides ==
    ASSUME NEW j \in Nat, NEW step \in Nat \ {0}
    PROVE  (j * step) \div step = j
<1> DEFINE n == j * step
           d == n \div step
<1>1. n \in Nat
  BY ProductNat
<1>2. d \in Nat /\ step * d <= n /\ n < step * d + step
  <2> HIDE DEF n
  <2> QED
    BY <1>1, SMT
<1> HIDE DEF d
<1>3. ~(d < j)
  <2> SUFFICES ASSUME d + 1 <= j PROVE FALSE
    BY <1>2
  <2>1. step * (d + 1) <= step * j
    BY <1>2, ProductMonotone
  <2>2. step * (d + 1) = step * d + step /\ step * d \in Nat
    BY <1>2, SMT
  <2>3. step * j = n
    BY SMT
  <2> QED
    BY <1>1, <1>2, <2>1, <2>2, <2>3
<1>4. ~(j < d)
  <2> SUFFICES ASSUME j + 1 <= d PROVE FALSE
    BY <1>2
  <2>1. step * (j + 1) <= step * d
    BY <1>2, ProductMonotone
  <2>2. step * (j + 1) = step * j + step
    BY SMT
  <2>3. step * j = n /\ step * d \in Nat
    BY <1>2, SMT
  <2> QED
    BY <1>1, <1>2, <2>1, <2>2, <2>3
<1> QED
  BY <1>2, <1>3, <1>4 DEF d

\* What is planned is a multiple of the step.
LEMMA WholeSteps ==
    ASSUME NEW num \in Nat, NEW den \in Nat \ {0}, NEW step \in Nat \ {0},
           NEW low \in BOOLEAN
    PROVE  \E j \in Nat : RoundStepDown(num, den, step, low) = j * step
<1> DEFINE k == num \div (den * step)
           j == IF low /\ k > 0 /\ num = k * (den * step) THEN k - 1 ELSE k
<1>1. k \in Nat
  BY ProductPositive, QuotientNat
<1>2. j \in Nat
  BY <1>1
<1>3. RoundStepDown(num, den, step, low) = j * step
  BY DEF RoundStepDown
<1> HIDE DEF j
<1> QED
  BY <1>2, <1>3

\* fmt_qty takes at most one step from a multiple of the step.
LEMMA FmtLoses ==
    ASSUME NEW step \in Nat \ {0}, NEW Q \in Nat, \E j \in Nat : Q = j * step
    PROVE  LET q == RoundStepDown(Q, 1, step, Q \div step \in ShortMultiples)
           IN q = Q \/ (q = Q - step /\ ShortMultiples # {})
<1>1. PICK j \in Nat : Q = j * step
  OBVIOUS
<1>2. 1 * step = step
  BY SMT
<1>3. Q \div step = j
  BY <1>1, MultipleDivides
<1>4. (j - 1) * step = Q - step
  BY <1>1, SMT
<1> QED
  BY <1>1, <1>2, <1>3, <1>4 DEF RoundStepDown

LEMMA CleanSettles ==
    ASSUME IInv, WireInv, CleanInv
    PROVE  CleanRunSettles
<1> SUFFICES ASSUME NEW r \in Runs, pc[r] = "complete", faults = 0, wire = {},
                    \A q \in Runs \ {r} : pc[q] = "idle",
                    NEW o \in Reconcile(Now(view[r].book))
             PROVE  /\ o.qty <= 2 * market.spec[o.sym].step
                    /\ ShortMultiples # {} \/ LowDeltas # {}
  BY DEF CleanRunSettles, Settled
<1> DEFINE v == view[r]
           n == Now(view[r].book)
           s == o.sym
<1>1. /\ Balanced(r) /\ todo[r] = {}
      /\ v.equity = market.equity /\ v.spec = market.spec /\ v.price = market.price
  BY DEF CleanInv, Clean, ReadsMarket, ReadAll, Placing
<1>2. v \in Views /\ n \in Views
  BY MarketsAssumption DEF IInv, TypeOK, Views, Now
<1>3. /\ n.book = v.book /\ n.equity = v.equity /\ n.spec = v.spec /\ n.price = v.price
      /\ n.held = pos
  BY <1>1 DEF Now
<1>4. s \in Symbols /\ o = PlannedOrder(n, s) /\ o.qty = OrderQty(n, s)
  BY OrderPlanned
<1>5. Tradeable(n, s) /\ LargeEnough(n, s) /\ s \in Considered(n)
  BY <1>4 DEF Reconcile, PlannedOrder
<1> HIDE DEF n, s
<1>6. pos[s] = v.held[s] + SentMove(v, s)
  <2>1. Pending(r, s) = 0
    BY <1>1 DEF Pending, WireOf, OrderOf
  <2>2. pos[s] \in Int
    BY <1>4 DEF IInv, TypeOK
  <2> QED
    BY <1>1, <1>4, <2>1, <2>2 DEF Balanced
<1> DEFINE c == Scale * v.price[s]
           step == v.spec[s].step
           Dv == ScaledDelta(v, s)
           Dn == ScaledDelta(n, s)
<1>7. /\ Dv \in Int /\ Dn \in Int /\ v.held[s] \in Int /\ pos[s] \in Int
      /\ v.price[s] \in Nat \ {0} /\ step \in Nat \ {0} /\ c \in Nat \ {0}
  <2>1. v.price[s] \in Nat \ {0}
    BY <1>2, <1>3, <1>4, <1>5 DEF Views, Tradeable
  <2> QED
    BY <1>2, <1>4, <2>1, DeltaInt, ProductPositive, ScaleAssumption DEF Views, Spec1, IInv, TypeOK
<1>8. o.qty # 0
  <2>1. CASE o.qty = 0
    <3>1. o.qty * v.price[s] = 0
      BY <1>7, <2>1
    <3>2. Larger(n.spec[s].minNotional, MinOrder) >= 1
      BY <1>2, <1>4, LimitsAssumption DEF Larger, Views, Spec1
    <3>3. Larger(n.spec[s].minNotional, MinOrder) \in Int
      BY <1>2, <1>4, LimitsAssumption DEF Larger, Views, Spec1
    <3> QED
      BY <1>3, <1>4, <1>5, <3>1, <3>2, <3>3 DEF LargeEnough
  <2> QED
    BY <2>1
<1>9. PlannedOrder(v, s) \in Reconcile(v)
  <2> SUFFICES ASSUME PlannedOrder(v, s) \notin Reconcile(v) PROVE FALSE
    OBVIOUS
  <2>1. pos[s] = v.held[s]
    BY <1>6, <1>7 DEF SentMove
  <2>2. Dn = Dv
    BY <1>3, <2>1 DEF ScaledDelta
  <2>3. OrderQty(n, s) = OrderQty(v, s)
    BY <1>3, <2>1, <2>2 DEF OrderQty, QuotientLow
  <2>4. LargeEnough(v, s) /\ Tradeable(v, s) /\ s \in Considered(v)
    BY <1>3, <1>5, <2>1, <2>3 DEF LargeEnough, Tradeable, Considered
  <2> QED
    BY <2>4 DEF Reconcile
<1> DEFINE p == PlannedOrder(v, s)
           Q == OrderQty(v, s)
           q == Sent(v, p)
           m == SentMove(v, s)
<1>10. /\ p \in Orders /\ p.sym = s /\ p.qty = Q /\ p.side = Side(v, s)
       /\ Q \in Nat /\ q \in Nat
  <2>1. p \in Orders /\ p.sym = s /\ p.qty = Q /\ p.side = Side(v, s)
    BY <1>2, <1>9, PlanTyped DEF PlannedOrder
  <2> QED
    BY <1>2, <2>1, SentNat DEF Orders
<1>11. m = IF Dv > 0 THEN q ELSE -q
  BY <1>2, <1>9, <1>10, SentMoveOf DEF Side
<1> DEFINE low == QuotientLow(v, s)
           sentLow == Q \div step \in ShortMultiples
<1>12. q = Q \/ (q = Q - step /\ ShortMultiples # {})
  <2>1. q = RoundStepDown(Q, 1, step, sentLow)
    BY <1>10 DEF Sent, FmtQty
  <2>2. \E j \in Nat : Q = j * step
    <3>1. /\ Magnitude(Dv) \in Nat /\ low \in BOOLEAN
          /\ Q = RoundStepDown(Magnitude(Dv), c, step, low)
      BY <1>7, MagnitudeNat, QuotientLowBoolean DEF OrderQty
    <3> HIDE DEF c, step, Dv, Q, low
    <3>2. PICK j \in Nat : RoundStepDown(Magnitude(Dv), c, step, low) = j * step
      BY <1>7, <3>1, WholeSteps
    <3>3. Q = j * step
      BY <3>1, <3>2
    <3> QED
      BY <3>3
  <2> QED
    BY <1>7, <1>10, <2>1, <2>2, FmtLoses
<1>13. /\ Q * c <= Magnitude(Dv) /\ Magnitude(Dv) <= Q * c + c * step
       /\ ~low => Magnitude(Dv) < Q * c + c * step
  <2>1. Magnitude(Dv) \in Nat /\ low \in BOOLEAN
    BY <1>7, MagnitudeNat, QuotientLowBoolean
  <2>2. Q = RoundStepDown(Magnitude(Dv), c, step, low)
    BY DEF OrderQty
  <2> HIDE DEF c, step, Dv, Q, low
  <2> QED
    BY <1>7, <2>1, <2>2, RoundsDown, StepLeft
<1>14. Dn = Dv - m * c
  <2> DEFINE A == v.book[s] * v.equity
             h == v.held[s]
             pr == v.price[s]
  <2>1. A \in Int
    BY <1>2, <1>4, SMT DEF Views
  <2>2. Dv = A - h * pr * Scale /\ Dn = A - (h + m) * pr * Scale
    BY <1>3, <1>6 DEF ScaledDelta
  <2>3. h \in Int /\ pr \in Int /\ m \in Int /\ Scale \in Int
    BY <1>7, <1>10, <1>11, ScaleAssumption
  <2>4. c = Scale * pr
    OBVIOUS
  <2> HIDE DEF A, h, pr, m, c, Dv, Dn
  <2>5. (h + m) * pr * Scale = h * pr * Scale + m * c
    BY <2>3, <2>4, SMT
  <2>6. h * pr * Scale \in Int /\ m * c \in Int
    BY <2>3, <2>4, SMT
  <2> QED
    BY <2>1, <2>2, <2>5, <2>6
<1>15. o.qty = RoundStepDown(Magnitude(Dn), c, step, QuotientLow(n, s))
  BY <1>3, <1>4 DEF OrderQty
<1>16. m \in Int
  BY <1>10, <1>11
<1>17. n.spec = market.spec /\ step = market.spec[s].step
  BY <1>1, <1>3
<1>18. low => ShortMultiples # {} \/ LowDeltas # {}
  BY DEF QuotientLow
<1>19. QuotientLow(n, s) \in BOOLEAN
  BY QuotientLowBoolean
<1> HIDE DEF c, step, Dv, Dn, Q, q, m, low
<1>20. o.qty <= 2 * step
  <2>1. Magnitude(Dn) <= 2 * (c * step)
    BY <1>7, <1>10, <1>11, <1>12, <1>13, <1>14, <1>16, DistanceLeft
  <2> QED
    BY <1>7, <1>15, <1>19, <2>1, MagnitudeNat, RoundsToFew
<1>21. ~(q = Q /\ ~low)
  <2> SUFFICES ASSUME q = Q, ~low PROVE FALSE
    OBVIOUS
  <2>1. Magnitude(Dn) < c * step
    BY <1>7, <1>10, <1>11, <1>13, <1>14, <1>16, DistanceLeft
  <2>2. o.qty = 0
    BY <1>7, <1>15, <1>19, <2>1, MagnitudeNat, RoundsToFew
  <2> QED
    BY <1>8, <2>2
<1> QED
  BY <1>12, <1>17, <1>18, <1>20, <1>21 DEF s

\* While equity, prices and listings stand still, a run that was alone and met
\* no fault leaves the account within two steps of its target: run again, it
\* would order at most two steps per symbol, one that the float division of
\* reconcile and one that of fmt_qty can lose, and nothing where neither loses
\* any (run and reconcile of live/execute.py, round_step_down and fmt_qty of
\* live/exchange.py).
THEOREM CleanRunSettlesSteady == Spec => [](Steady => CleanRunSettles)
<1>1. Init => (Steady => CleanInv)
  BY InitClean
<1>2. /\ (Steady => CleanInv) /\ IInv /\ WireInv /\ (IInv /\ WireInv)'
      /\ [Next]_vars
      => (Steady => CleanInv)'
  BY StepClean DEF Steady
<1>3. (Steady => CleanInv) /\ IInv /\ WireInv => (Steady => CleanRunSettles)
  BY CleanSettles
<1> QED
  BY <1>1, <1>2, <1>3, Implementing, PTL DEF Spec
=============================================================================
