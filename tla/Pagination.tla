----------------------------- MODULE Pagination -----------------------------
(***************************************************************************)
(* The loops that fetch a history page by page and symbol by symbol:       *)
(*   "klines"     fetch_klines (data/ingest.py) in fetch_universe          *)
(*   "funding"    fetch_funding in fetch_funding_universe (universe.py)    *)
(*   "collector"  fetch_funding and fetch_oi (deriv_alpha/collector.py)    *)
(* from an exchange that goes on publishing records while they run.        *)
(*                                                                         *)
(* A record is its time, in some unit of milliseconds; what it says is     *)
(* left out.  Bars lie on a grid of Step, payments anywhere.               *)
(* MaxTime bounds the clock and MaxFaults the faults of a behaviour.       *)
(***************************************************************************)
EXTENDS Integers, FiniteSets

CONSTANTS
    Symbols,     \* in the order of the list that is fetched
    Kinds,       \* the loops considered
    Step,        \* INTERVAL_MS[interval]
    Limit,       \* the records on a full page
    Starts,      \* values of --start
    Spans,       \* how long before now --end may lie, or how long after, if negative
    Now,         \* when the fetch begins
    MaxTime,
    MaxFaults

ASSUME SymbolsAssumption == Symbols \subseteq Nat \ {0}
ASSUME KindsAssumption == Kinds \subseteq {"klines", "funding", "collector"}
ASSUME StepAssumption == Step \in Nat \ {0}
ASSUME LimitAssumption == Limit \in Nat \ {0}
ASSUME ArgumentsAssumption == Starts \subseteq Nat /\ Spans \subseteq Int
ASSUME BoundsAssumption == Now \in Nat /\ MaxTime \in Nat /\ MaxFaults \in Nat

VARIABLES
    clock,      \* now
    records,    \* exchange: the times of the records of each symbol
    kind,       \* which loop this is
    start,      \* --start
    until,      \* --end, or NoEnd
    pc,         \* between symbols, in the loop of one, or over
    waiting,    \* symbols not begun
    symbol,     \* the symbol being fetched
    end,        \* end_ms of that symbol
    cursor,     \* cursor
    rows,       \* what its pages held so far
    panel,      \* what is kept of each symbol; {} if it was skipped
    ends,       \* history: end_ms of each symbol that was begun
    seen,       \* history: when the last page of each symbol was served
    cut,        \* history: the symbols an error reply ended
    faults      \* how many faults have happened

arguments == <<kind, start, until>>
exchange == <<clock, records>>
loop == <<pc, waiting, symbol, end, cursor, rows, panel, ends, seen, cut>>
vars == <<arguments, exchange, loop, faults>>

NoEnd == -1

Stages == {"next", "page", "done", "raised"}

Published(t, k) == k = "klines" => t % Step = 0

TypeOK ==
    /\ clock \in Nat
    /\ records \in [Symbols -> SUBSET Nat]
    /\ kind \in Kinds /\ start \in Nat /\ until \in Nat \cup {NoEnd}
    /\ pc \in Stages
    /\ waiting \subseteq Symbols
    /\ pc = "page" => symbol \in Symbols
    /\ end \in Nat /\ cursor \in Nat
    /\ rows \subseteq Nat
    /\ panel \in [Symbols -> SUBSET Nat]
    /\ ends \in [Symbols -> Nat] /\ seen \in [Symbols -> Nat]
    /\ cut \subseteq Symbols
    /\ faults \in 0..MaxFaults

\* --end is a time that has come or not, or is left out.  The collector needs
\* one.
Init ==
    /\ clock = Now
    /\ kind \in Kinds
    /\ records \in [Symbols -> SUBSET {t \in 0..clock : Published(t, kind)}]
    /\ start \in Starts
    /\ until \in {clock - d : d \in Spans} \cup {NoEnd}
    /\ until \in Nat \/ (until = NoEnd /\ kind # "collector")
    /\ pc = "next"
    /\ waiting = Symbols
    /\ symbol = 0 /\ end = 0 /\ cursor = 0 /\ rows = {}
    /\ panel = [s \in Symbols |-> {}]
    /\ ends = [s \in Symbols |-> 0] /\ seen = [s \in Symbols |-> 0]
    /\ cut = {}
    /\ faults = 0

-----------------------------------------------------------------------------
(* The exchange.                                                           *)

Requested == {t \in records[symbol] : cursor <= t /\ t <= end}

\* An answer to a request for R: the oldest records, as many as fit on a page.
IsPage(B, R) ==
    /\ B \subseteq R
    /\ \A t \in B, u \in R : u < t => u \in B
    /\ IsFiniteSet(B) /\ Cardinality(B) <= Limit
    /\ B # R => Cardinality(B) = Limit

IsLast(t, B) == t \in B /\ \A u \in B : u <= t

\* Time passes, and some symbols have a new record.
Tick ==
    /\ clock < MaxTime
    /\ clock' = clock + 1
    /\ \E S \in SUBSET Symbols :
         /\ S # {} => Published(clock', kind)
         /\ records' = [s \in Symbols |->
                          IF s \in S THEN records[s] \cup {clock'} ELSE records[s]]
    /\ UNCHANGED <<arguments, loop, faults>>

-----------------------------------------------------------------------------
(* The loops.                                                              *)

\* Without --end every symbol ends when its own loop begins.
Begin ==
    /\ pc = "next" /\ pc' = "page"
    /\ \E s \in waiting :
         /\ \A u \in waiting : s <= u
         /\ symbol' = s
         /\ waiting' = waiting \ {s}
         /\ end' = IF until = NoEnd THEN clock ELSE until
         /\ ends' = [ends EXCEPT ![s] = end']
    /\ cursor' = start
    /\ rows' = {}
    /\ UNCHANGED <<arguments, exchange, panel, seen, cut, faults>>

\* Broken: as far as the last record.
PastOnLast(t) == t

\* Just past the last record of a page.
Past(t) == IF kind = "klines" THEN t + Step ELSE t + 1

\* Broken: the next page starts where this one did.
FullPageAgain ==
    /\ pc = "page" /\ cursor < end
    /\ \E B \in SUBSET Requested :
         /\ IsPage(B, Requested)
         /\ Cardinality(B) = Limit
         /\ rows' = rows \cup B
    /\ UNCHANGED <<arguments, exchange, pc, waiting, symbol, end, cursor, panel,
                   ends, seen, cut, faults>>

FullPage ==
    /\ pc = "page" /\ cursor < end
    /\ \E B \in SUBSET Requested :
         /\ IsPage(B, Requested)
         /\ Cardinality(B) = Limit
         /\ rows' = rows \cup B
         /\ \E t \in B : IsLast(t, B) /\ cursor' = Past(t)
    /\ UNCHANGED <<arguments, exchange, pc, waiting, symbol, end, panel,
                   ends, seen, cut, faults>>

\* The loop of a symbol is over: what it has is kept.  A symbol that has
\* nothing is left out, by an exception that is caught or by having no record.
Keep(all) ==
    /\ pc' = "next"
    /\ rows' = {}
    /\ panel' = [panel EXCEPT ![symbol] = all]
    /\ seen' = [seen EXCEPT ![symbol] = clock]
    /\ UNCHANGED <<arguments, exchange, waiting, symbol, end, cursor, ends>>

\* Broken: a page that is just full counts as the last one.
LastPageEarly ==
    /\ pc = "page" /\ cursor < end
    /\ \E B \in SUBSET Requested :
         /\ IsPage(B, Requested)
         /\ Cardinality(B) <= Limit
         /\ Keep(rows \cup B)
    /\ UNCHANGED <<cut, faults>>

\* A short page, or an empty one, is the last.
LastPage ==
    /\ pc = "page" /\ cursor < end
    /\ \E B \in SUBSET Requested :
         /\ IsPage(B, Requested)
         /\ Cardinality(B) < Limit
         /\ Keep(rows \cup B)
    /\ UNCHANGED <<cut, faults>>

ReachesEnd ==
    /\ pc = "page" /\ cursor >= end
    /\ Keep(rows)
    /\ UNCHANGED <<cut, faults>>

Fault == faults < MaxFaults /\ faults' = faults + 1

\* Broken: the pages before the failure are kept.
RequestRaisesKept ==
    /\ pc = "page" /\ cursor < end
    /\ Fault
    /\ kind # "collector" /\ Keep(rows)
    /\ UNCHANGED cut

\* A request raises: a timeout, or a status raise_for_status() refuses.  Around
\* a symbol the exception is caught and the symbol left out; the collector
\* catches nothing.
RequestRaises ==
    /\ pc = "page" /\ cursor < end
    /\ Fault
    /\ \/ kind # "collector" /\ Keep({})
       \/ /\ kind = "collector" /\ pc' = "raised"
          /\ UNCHANGED <<arguments, exchange, waiting, symbol, end, cursor, rows,
                         panel, ends, seen>>
    /\ UNCHANGED cut

\* The collector looks at no status: an error reply, a JSON object, ends the
\* symbol as if its history were over.
ErrorReply ==
    /\ kind = "collector" /\ pc = "page" /\ cursor < end
    /\ Fault
    /\ Keep(rows)
    /\ cut' = cut \cup {symbol}

\* Nothing fetched at all is an exception.
Finish ==
    /\ pc = "next" /\ waiting = {}
    /\ pc' = IF \E s \in Symbols : panel[s] # {} THEN "done" ELSE "raised"
    /\ UNCHANGED <<arguments, exchange, waiting, symbol, end, cursor, rows, panel,
                   ends, seen, cut, faults>>

LoopStep ==
    Begin \/ FullPage \/ LastPage \/ ReachesEnd \/ RequestRaises \/ ErrorReply \/ Finish

Next == LoopStep \/ Tick

Spec == Init /\ [][Next]_vars

\* Every request has a timeout, and between requests the loop only sleeps.
FairSpec == Spec /\ WF_vars(LoopStep)

-----------------------------------------------------------------------------
\* No record is passed over and none is taken twice: what a loop holds is what
\* the exchange has from the start up to the cursor, however full the pages
\* were and whatever was published meanwhile (fetch_klines, fetch_funding,
\* fetch_oi).
BehindCursor ==
    pc = "page" =>
        rows = {t \in records[symbol] : start <= t /\ t < cursor /\ t <= end}

\* A symbol in the panel has every record of its range that was there when its
\* last page was served, except one an error reply cut off: a request that fails
\* leaves its symbol out altogether.  (The record at the end itself is there or
\* not, depending on where a page ends.)
PanelComplete ==
    \A s \in Symbols \ cut :
        panel[s] # {} =>
            /\ {t \in records[s] : start <= t /\ t < ends[s] /\ t <= seen[s]}
                 \subseteq panel[s]
            /\ panel[s] \subseteq {t \in records[s] : start <= t /\ t <= ends[s]}

\* The fetch ends, though the exchange goes on publishing.
Finishes == <>(pc \in {"done", "raised"})
=============================================================================
