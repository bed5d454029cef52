------------------------------ MODULE Executor ------------------------------
(***************************************************************************)
(* Order execution: run(), preflight() and execute_plan() of               *)
(* src/vfund/live/execute.py, driving the client of live/exchange.py.      *)
(*                                                                         *)
(* A member of Runs is one invocation of `vfund execute`: it starts once,  *)
(* goes from one HTTP request or log line to the next, and ends, raises or *)
(* is killed.  Nothing in the code keeps two invocations apart: the runs   *)
(* share the exchange account, the kill-switch file and the log, and each  *)
(* works from what it read.  What the environment may do wrong is named in *)
(* Faults:                                                                 *)
(*   "overlap"  a run may start while another is active                    *)
(*   "late"     a run may start while orders of earlier ones are pending   *)
(*   "crash"    the process dies between two steps                         *)
(*   "raise"    a read of the account or the market raises                 *)
(*   "leverage" a set_leverage call raises                                 *)
(*   "reject"   the exchange refuses an order                              *)
(*   "timeout"  an order's answer does not come within 15 seconds          *)
(*   "partial"  a market order executes in part and the rest expires       *)
(*   "kill"     the operator creates or removes the kill-switch file       *)
(*   "market"   equity, prices and listings change                         *)
(* At most MaxFaults crashes, raises, refusals, timeouts and partial fills *)
(* happen (a bound for model checking).                                    *)
(***************************************************************************)
EXTENDS ExecPlan

CONSTANTS
    Runs,             \* the invocations of `vfund execute`
    Modes,            \* the values of --live they are given
    Books,            \* the target books the signal may compute
    Markets,          \* the equity, prices and listings the exchange may show
    InitPositions,    \* the positions the account may hold at the start
    Faults,
    MaxFaults

ASSUME ModesAssumption == Modes \subseteq BOOLEAN
ASSUME BooksAssumption == Books \subseteq [Symbols -> Int]
ASSUME MarketsAssumption ==
    Markets \subseteq
      [equity: Int, price: [Symbols -> Nat], spec: [Symbols -> Spec1]]
ASSUME PositionsAssumption == InitPositions \subseteq [Symbols -> Int]
ASSUME FaultsAssumption == MaxFaults \in Nat

VARIABLES
    pos,       \* exchange: the position in each symbol
    market,    \* exchange: equity, prices and listings as they are now
    wire,      \* exchange: orders posted and not yet executed or refused
    capped,    \* exchange: the symbols whose leverage is capped
    kill,      \* data/KILLSWITCH exists
    log,       \* data/execution_log.jsonl: the lines each run has written
    pc,        \* where each run is
    view,      \* what each run has read
    todo,      \* plan.orders: those each run has not yet sent
    uncapped,  \* plan.orders: those whose leverage is still to be set
    cur,       \* the symbol of the order each run waits for
    posts,     \* history: how many orders each run has posted per symbol
    armed,     \* history: the runs cleared to trade when kill was engaged
    faults     \* how many faults have happened

exchange == <<pos, market, wire, capped>>
process == <<pc, view, todo, uncapped, cur, log>>
vars == <<exchange, process, kill, posts, armed, faults>>

-----------------------------------------------------------------------------
Reading == {"account", "specs", "prices", "positions"}
Cleared == {"leverage", "orders", "post", "await"}
Ended == {"halted", "raised", "blocked", "dry", "complete", "crashed"}
Stages == {"idle", "plan", "check"} \cup Reading \cup Cleared \cup Ended

Events == {"run_start", "plan", "order_placed", "order_filled", "order_failed",
           "order_skipped", "run_complete", "error"}

\* A line names its symbol, or 0 for an event of the whole run.
Lines == Events \X (Symbols \cup {0})

Views == [book: [Symbols -> Int], live: BOOLEAN, equity: Int,
          spec: [Symbols -> Spec1], price: [Symbols -> Nat],
          held: [Symbols -> Int]]

NoView == [book |-> [s \in Symbols |-> 0], live |-> FALSE, equity |-> 0,
           spec |-> [s \in Symbols |-> [listed |-> FALSE, step |-> 1,
                                        minQty |-> 0, minNotional |-> 0]],
           price |-> [s \in Symbols |-> 0], held |-> [s \in Symbols |-> 0]]

WireOrders == [run: Runs, sym: Symbols, side: Sides, qty: Nat]

TypeOK ==
    /\ pos \in [Symbols -> Int]
    /\ market \in Markets
    /\ wire \subseteq WireOrders
    /\ capped \subseteq Symbols
    /\ kill \in BOOLEAN
    /\ log \in [Runs -> SUBSET Lines]
    /\ pc \in [Runs -> Stages]
    /\ view \in [Runs -> Views]
    /\ todo \in [Runs -> SUBSET Orders]
    /\ uncapped \in [Runs -> SUBSET Orders]
    /\ cur \in [Runs -> Symbols \cup {0}]
    /\ posts \in [Runs -> [Symbols -> Nat]]
    /\ armed \subseteq Runs
    /\ faults \in 0..MaxFaults

Init ==
    /\ pos \in InitPositions
    /\ market \in Markets
    /\ wire = {}
    /\ capped = {}
    /\ kill \in (IF "kill" \in Faults THEN BOOLEAN ELSE {FALSE})
    /\ log = [r \in Runs |-> {}]
    /\ pc = [r \in Runs |-> "idle"]
    /\ view = [r \in Runs |-> NoView]
    /\ todo = [r \in Runs |-> {}]
    /\ uncapped = [r \in Runs |-> {}]
    /\ cur = [r \in Runs |-> 0]
    /\ posts = [r \in Runs |-> [s \in Symbols |-> 0]]
    /\ armed = {}
    /\ faults = 0

-----------------------------------------------------------------------------
Goto(r, from, to) == pc[r] = from /\ pc' = [pc EXCEPT ![r] = to]

Write(r, event, s) == log' = [log EXCEPT ![r] = @ \cup {<<event, s>>}]

Fault(kind) == kind \in Faults /\ faults < MaxFaults /\ faults' = faults + 1

Environment == UNCHANGED <<exchange, kill, posts, armed>>
NoFault == UNCHANGED faults

MayStart(r) ==
    /\ "overlap" \in Faults \/ \A q \in Runs \ {r} : pc[q] \in Ended \cup {"idle"}
    /\ "late" \in Faults \/ \A w \in wire : pc[w.run] \notin Ended

Start(r) ==
    /\ ~kill
    /\ MayStart(r)
    /\ Goto(r, "idle", "account")
    /\ \E b \in Books, live \in Modes :
         view' = [view EXCEPT ![r].book = b, ![r].live = live]
    /\ UNCHANGED <<todo, uncapped, cur, log>>
    /\ Environment /\ NoFault

\* run() finds the kill switch engaged, logs it and returns.
StartKilled(r) ==
    /\ kill
    /\ MayStart(r)
    /\ Goto(r, "idle", "halted")
    /\ Write(r, "error", 0)
    /\ UNCHANGED <<view, todo, uncapped, cur>>
    /\ Environment /\ NoFault

ReadAccount(r) ==
    /\ Goto(r, "account", "specs")
    /\ view' = [view EXCEPT ![r].equity = market.equity]
    /\ Write(r, "run_start", 0)
    /\ UNCHANGED <<todo, uncapped, cur>>
    /\ Environment /\ NoFault

ReadSpecs(r) ==
    /\ Goto(r, "specs", "prices")
    /\ view' = [view EXCEPT ![r].spec = market.spec]
    /\ UNCHANGED <<todo, uncapped, cur, log>>
    /\ Environment /\ NoFault

ReadPrices(r) ==
    /\ Goto(r, "prices", "positions")
    /\ view' = [view EXCEPT ![r].price = market.price]
    /\ UNCHANGED <<todo, uncapped, cur, log>>
    /\ Environment /\ NoFault

\* Broken: shorts are overlooked.
ReadLongPositions(r) ==
    /\ Goto(r, "positions", "plan")
    /\ view' = [view EXCEPT ![r].held = [s \in Symbols |-> Larger(pos[s], 0)]]
    /\ UNCHANGED <<todo, uncapped, cur, log>>
    /\ Environment /\ NoFault

ReadPositions(r) ==
    /\ Goto(r, "positions", "plan")
    /\ view' = [view EXCEPT ![r].held = pos]
    /\ UNCHANGED <<todo, uncapped, cur, log>>
    /\ Environment /\ NoFault

\* Only the account reads are wrapped in a handler that logs.
ReadRaises(r) ==
    /\ pc[r] \in Reading
    /\ Fault("raise")
    /\ pc' = [pc EXCEPT ![r] = "raised"]
    /\ IF pc[r] = "account" THEN Write(r, "error", 0) ELSE UNCHANGED log
    /\ UNCHANGED <<view, todo, uncapped, cur>>
    /\ Environment

MakePlan(r) ==
    /\ Goto(r, "plan", "check")
    /\ todo' = [todo EXCEPT ![r] = Reconcile(view[r])]
    /\ Write(r, "plan", 0)
    /\ UNCHANGED <<view, uncapped, cur>>
    /\ Environment /\ NoFault

\* One blocking issue aborts the whole run.
CheckBlocks(r) ==
    /\ Preflight(view[r], todo[r], kill)
    /\ Goto(r, "check", "blocked")
    /\ Write(r, "error", 0)
    /\ UNCHANGED <<view, todo, uncapped, cur>>
    /\ Environment /\ NoFault

CheckDryRun(r) ==
    /\ ~Preflight(view[r], todo[r], kill)
    /\ ~view[r].live
    /\ Goto(r, "check", "dry")
    /\ UNCHANGED <<view, todo, uncapped, cur, log>>
    /\ Environment /\ NoFault

CheckNothingToDo(r) ==
    /\ ~Preflight(view[r], todo[r], kill)
    /\ view[r].live
    /\ todo[r] = {}
    /\ Goto(r, "check", "complete")
    /\ Write(r, "run_complete", 0)
    /\ UNCHANGED <<view, todo, uncapped, cur>>
    /\ Environment /\ NoFault

\* Broken: the second look at the kill switch is missing.
CheckClearsKilled(r) ==
    /\ ~Preflight(view[r], todo[r], FALSE)
    /\ view[r].live
    /\ todo[r] # {}
    /\ Goto(r, "check", "leverage")
    /\ uncapped' = [uncapped EXCEPT ![r] = todo[r]]
    /\ UNCHANGED <<view, todo, cur, log>>
    /\ Environment /\ NoFault

\* Broken: drops the oversized orders and trades the rest.
CheckClearsRest(r) ==
    LET small == {o \in todo[r] : ~Preflight(view[r], {o}, kill)}
    IN /\ view[r].live
       /\ small # {}
       /\ Goto(r, "check", "leverage")
       /\ todo' = [todo EXCEPT ![r] = small]
       /\ uncapped' = [uncapped EXCEPT ![r] = small]
       /\ UNCHANGED <<view, cur, log>>
       /\ Environment /\ NoFault

CheckClears(r) ==
    /\ ~Preflight(view[r], todo[r], kill)
    /\ view[r].live
    /\ todo[r] # {}
    /\ Goto(r, "check", "leverage")
    /\ uncapped' = [uncapped EXCEPT ![r] = todo[r]]
    /\ UNCHANGED <<view, todo, cur, log>>
    /\ Environment /\ NoFault

AfterLeverage(r, o) ==
    /\ IsNext(o, uncapped[r])
    /\ Goto(r, "leverage", IF uncapped[r] = {o} THEN "orders" ELSE "leverage")
    /\ uncapped' = [uncapped EXCEPT ![r] = @ \ {o}]

SetLeverage(r) ==
    /\ \E o \in uncapped[r] :
         /\ AfterLeverage(r, o)
         /\ capped' = capped \cup {o.sym}
    /\ UNCHANGED <<view, todo, cur, log, pos, market, wire, kill, posts, armed>>
    /\ NoFault

\* The failure is logged and the symbol's order is placed all the same.
SetLeverageRaises(r) ==
    /\ \E o \in uncapped[r] : AfterLeverage(r, o) /\ Write(r, "error", o.sym)
    /\ Fault("leverage")
    /\ UNCHANGED <<view, todo, cur>>
    /\ Environment

Sent(v, o) == FmtQty(o.qty, v.spec[o.sym].step)

\* order_placed is written before the order is posted; a quantity that rounds
\* to zero is logged and dropped.
TakeOrder(r) ==
    /\ pc[r] = "orders"
    /\ \E o \in todo[r] :
         /\ IsNext(o, todo[r])
         /\ IF Sent(view[r], o) > 0
            THEN /\ Goto(r, "orders", "post")
                 /\ Write(r, "order_placed", o.sym)
                 /\ UNCHANGED todo
            ELSE /\ Write(r, "order_skipped", o.sym)
                 /\ todo' = [todo EXCEPT ![r] = @ \ {o}]
                 /\ UNCHANGED pc
    /\ UNCHANGED <<view, uncapped, cur>>
    /\ Environment /\ NoFault

Post(r) ==
    /\ Goto(r, "post", "await")
    /\ \E o \in todo[r] :
         /\ IsNext(o, todo[r])
         /\ wire' = wire \cup {[run |-> r, sym |-> o.sym, side |-> o.side,
                                qty |-> Sent(view[r], o)]}
         /\ todo' = [todo EXCEPT ![r] = @ \ {o}]
         /\ cur' = [cur EXCEPT ![r] = o.sym]
         /\ posts' = [posts EXCEPT ![r][o.sym] = @ + 1]
    /\ UNCHANGED <<view, uncapped, log, pos, market, capped, kill, armed>>
    /\ NoFault

\* Any answer without an error counts as filled, an order that is only
\* acknowledged (status NEW, executedQty 0) or cut short included.
OrderReturns(r) ==
    /\ Goto(r, "await", "orders")
    /\ Write(r, "order_filled", cur[r])
    /\ UNCHANGED <<view, todo, uncapped, cur>>
    /\ Environment /\ NoFault

OrderRejected(r) ==
    /\ Goto(r, "await", "orders")
    /\ Fault("reject")
    /\ \E w \in wire : w.run = r /\ w.sym = cur[r] /\ wire' = wire \ {w}
    /\ Write(r, "order_failed", cur[r])
    /\ UNCHANGED <<view, todo, uncapped, cur, pos, market, capped, kill, posts, armed>>

\* Broken: the failure is not written.
OrderTimesOutUnlogged(r) ==
    /\ Goto(r, "await", "orders")
    /\ Fault("timeout")
    /\ UNCHANGED <<view, todo, uncapped, cur, log>>
    /\ Environment

\* Broken: the order is sent again.
OrderTimesOutRetried(r) ==
    /\ Goto(r, "await", "post")
    /\ Fault("timeout")
    /\ \E o \in Reconcile(view[r]) :
         o.sym = cur[r] /\ todo' = [todo EXCEPT ![r] = @ \cup {o}]
    /\ UNCHANGED <<view, uncapped, cur, log>>
    /\ Environment

\* The run goes on without knowing whether the order was executed or will be.
OrderTimesOut(r) ==
    /\ Goto(r, "await", "orders")
    /\ Fault("timeout")
    /\ Write(r, "order_failed", cur[r])
    /\ UNCHANGED <<view, todo, uncapped, cur>>
    /\ Environment

Complete(r) ==
    /\ todo[r] = {}
    /\ Goto(r, "orders", "complete")
    /\ Write(r, "run_complete", 0)
    /\ UNCHANGED <<view, todo, uncapped, cur>>
    /\ Environment /\ NoFault

Crash(r) ==
    /\ pc[r] \notin Ended \cup {"idle"}
    /\ Fault("crash")
    /\ pc' = [pc EXCEPT ![r] = "crashed"]
    /\ UNCHANGED <<view, todo, uncapped, cur, log>>
    /\ Environment

-----------------------------------------------------------------------------
(* The exchange, the market and the operator.                              *)

Fill(w, qty) ==
    /\ pos' = [pos EXCEPT ![w.sym] = IF w.side = "BUY" THEN @ + qty ELSE @ - qty]
    /\ wire' = wire \ {w}
    /\ UNCHANGED <<market, capped, process, kill, posts, armed>>

Execute(w) == Fill(w, w.qty) /\ NoFault

ExecutePart(w) == Fault("partial") /\ \E qty \in 1..(w.qty - 1) : Fill(w, qty)

\* An order nobody waits for any more never reached the exchange.
Lose(w) ==
    /\ Fault("timeout")
    /\ pc[w.run] # "await" \/ cur[w.run] # w.sym
    /\ wire' = wire \ {w}
    /\ UNCHANGED <<pos, market, capped, process, kill, posts, armed>>

MarketMoves ==
    /\ "market" \in Faults
    /\ market' \in Markets \ {market}
    /\ UNCHANGED <<pos, wire, capped, process, kill, posts, armed, faults>>

TouchKill ==
    /\ "kill" \in Faults
    /\ ~kill /\ kill' = TRUE
    /\ armed' = {r \in Runs : pc[r] \in Cleared}
    /\ UNCHANGED <<exchange, process, posts, faults>>

RemoveKill ==
    /\ kill /\ kill' = FALSE
    /\ armed' = {}
    /\ UNCHANGED <<exchange, process, posts, faults>>

-----------------------------------------------------------------------------
RunStep(r) ==
    \/ Start(r) \/ StartKilled(r)
    \/ ReadAccount(r) \/ ReadSpecs(r) \/ ReadPrices(r) \/ ReadPositions(r)
    \/ MakePlan(r)
    \/ CheckBlocks(r) \/ CheckDryRun(r) \/ CheckNothingToDo(r) \/ CheckClears(r)
    \/ SetLeverage(r) \/ TakeOrder(r) \/ Post(r) \/ OrderReturns(r) \/ Complete(r)

RunFault(r) ==
    \/ ReadRaises(r) \/ SetLeverageRaises(r)
    \/ OrderRejected(r) \/ OrderTimesOut(r) \/ Crash(r)

ExchangeStep == \E w \in wire : Execute(w) \/ ExecutePart(w) \/ Lose(w)

Next ==
    \/ \E r \in Runs : RunStep(r) \/ RunFault(r)
    \/ ExchangeStep
    \/ MarketMoves \/ TouchKill \/ RemoveKill

Spec == Init /\ [][Next]_vars

\* An invocation that is alive goes on (every request has a timeout), the
\* operator invokes the command again, and the exchange settles what it has.
FairSpec ==
    /\ Spec
    /\ \A r \in Runs : WF_vars(RunStep(r))
    /\ WF_vars(ExchangeStep)

-----------------------------------------------------------------------------
(* Safety.                                                                 *)

Outcomes == {"order_filled", "order_failed"}

LogOf(r, event) == {s \in Symbols : <<event, s>> \in log[r]}

Unanswered(r) ==
    {s \in LogOf(r, "order_placed") : \A e \in Outcomes : <<e, s>> \notin log[r]}

\* The audit trail (ExecutionLogger, execute_plan).  Whatever fails or dies,
\* an order that ever went to the exchange has its order_placed line, and at
\* most one order of a run lacks its outcome line, none once the run completed.
AuditTrail ==
    \A r \in Runs :
        /\ {s \in Symbols : posts[r][s] > 0} \subseteq LogOf(r, "order_placed")
        /\ \A s, t \in Unanswered(r) : s = t
        /\ Unanswered(r) # {} => pc[r] \in {"post", "await", "crashed"}

\* No order is sent twice: a run posts at most one order per symbol, whether
\* the earlier one was filled, refused or left without an answer.
OneOrderPerSymbol == \A r \in Runs, s \in Symbols : posts[r][s] <= 1

\* All or nothing (preflight, run).  A run that touched the exchange was live
\* and nothing in its whole plan broke a limit, not only the orders it sent.
AllOrNothing ==
    \A r \in Runs :
        (\E s \in Symbols : posts[r][s] > 0) =>
            view[r].live /\ ~Preflight(view[r], Reconcile(view[r]), FALSE)

\* Closes first (run's sort).  Before a run posts an order that is no close,
\* it has dealt with every position it has to close.
ClosesFirst ==
    \A r \in Runs : \A o, c \in Reconcile(view[r]) :
        o.reason # "close" /\ c.reason = "close" /\ posts[r][o.sym] > 0
            => c \notin todo[r]

\* Kill switch (run, preflight).  While the file is there, only a run that had
\* passed its pre-flight checks when the file was created can post an order.
KillSwitchHolds ==
    [][\A r \in Runs : posts'[r] # posts[r] /\ kill => r \in armed]_vars

\* The kill switch as the documentation describes it: no order is posted while
\* the file is there.
KillSwitchHaltsInstantly ==
    [][\A r \in Runs : posts'[r] # posts[r] => ~kill]_vars

\* The 15% limit as the documentation describes it, a limit on positions: a run
\* that completes without a fault leaves no position above the limit that was
\* within it before.
AtMost15Percent(v, s, q) ==
    Magnitude(q) * v.price[s] * Scale <= MaxPosition * v.equity

PositionWithinLimit ==
    \A r \in Runs, s \in Symbols :
        (/\ pc[r] = "complete" /\ faults = 0
         /\ AtMost15Percent(view[r], s, view[r].held[s]))
        => AtMost15Percent(view[r], s, pos[s])

\* Each run moves each position at most once, in the planned direction and by
\* no more than planned: the executor implements Allowance.
OrderOf(r, s) == {o \in todo[r] : o.sym = s}
WireOf(r, s) == {w \in wire : w.run = r /\ w.sym = s}

AllowanceOf(r, s) ==
    IF WireOf(r, s) # {} THEN Signed(CHOOSE w \in WireOf(r, s) : TRUE)
    ELSE IF pc[r] \in Cleared /\ OrderOf(r, s) # {}
         THEN Signed(CHOOSE o \in OrderOf(r, s) : TRUE)
         ELSE 0

Promise == INSTANCE Allowance WITH
    granted <- {r \in Runs : pc[r] \in Cleared \cup Ended},
    allowance <- [r \in Runs |-> [s \in Symbols |-> AllowanceOf(r, s)]]

ImplementsAllowance == Promise!Spec

-----------------------------------------------------------------------------
(* Runs one after the other, each order settled before the next run.       *)

Active(r) == pc[r] \in Cleared \cup {"complete"}

Distance(v, s, q) == v.book[s] * v.equity - q * v.price[s] * Scale

\* No overshoot (reconcile, round_step_down, fmt_qty).  With its own fills, in
\* part or in full, a run takes a position towards its target and not past it.
NeverPastTarget ==
    \A r \in Runs, s \in Symbols :
        (pc[r] \in Cleared /\ Tradeable(view[r], s)) =>
            LET before == Distance(view[r], s, view[r].held[s])
                now == Distance(view[r], s, pos[s])
            IN (0 <= now /\ now <= before) \/ (before <= now /\ now <= 0)

\* What a run started now with the book b would read.
Now(b) == [book |-> b, live |-> TRUE, equity |-> market.equity,
           spec |-> market.spec, price |-> market.price, held |-> pos]

\* A second run would order at most two steps per symbol, one that reconcile()
\* and one that fmt_qty() can lose to float arithmetic, and nothing where
\* neither loses any.
Settled(b) ==
    \A o \in Reconcile(Now(b)) :
        /\ o.qty <= 2 * market.spec[o.sym].step
        /\ ShortMultiples # {} \/ LowDeltas # {}

\* Idempotence: when the first run has completed without a fault, the account
\* is within two steps of its target, for every symbol that can be traded.
CleanRunSettles ==
    \A r \in Runs :
        (/\ pc[r] = "complete" /\ faults = 0 /\ wire = {}
         /\ \A q \in Runs \ {r} : pc[q] = "idle")
        => Settled(view[r].book)

\* "Run it again after a crash and it finishes whatever was left": as long as
\* runs are started one after the other and the faults stop, the account
\* comes within two steps of its target and stays there.
FinishesWhatWasLeft == \A b \in Books : Books = {b} => <>[]Settled(b)
=============================================================================
