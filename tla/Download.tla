------------------------------- MODULE Download -------------------------------
(***************************************************************************)
(* The downloads of research data (deriv_alpha/vision.py,                  *)
(* data/onchain.py): the exchange's daily metrics, one file per symbol and *)
(* day, by a pool of threads, and the TVL and fee histories of protocols,  *)
(* one symbol after the other.  A record is its symbol and its day; day 1  *)
(* is the start of the window that is asked for.                           *)
(***************************************************************************)
EXTENDS Integers, FiniteSets, Sequences

CONSTANTS Symbols, LastDay, Workers

ASSUME DownloadAssumption ==
  /\ IsFiniteSet(Symbols) /\ LastDay \in Nat \ {0} /\ Workers \in Nat \ {0}

VARIABLES
    source,     \* metrics, tvl or fees
    status,     \* idle, listing, fetching, failing, raised or done
    todo,       \* the symbols still to ask for
    waiting,    \* submitted to the pool, not started
    running,    \* with a worker
    answer,     \* record -> what became of its request
    taken,      \* futures whose result was read
    rows,       \* the records there will be in the table
    published   \* the records the service has of the symbols not skipped

download == <<source, status, todo, waiting, running, answer, taken, rows, published>>

WindowDays == 1 .. LastDay
Records == Symbols \X WindowDays

\* No row: 404, a bad archive, a column missing, or, where there was one, a
\* request that failed.  A file without a line in it raises.
DayAnswers(j) == IF j \in published THEN {"row", "failed"} ELSE {"nothing", "raises"}

\* Broken: while d < end.
FilesShort(s, f) ==
  LET d == IF f > 1 THEN f ELSE 1
  IN  [k \in 1 .. (LastDay - d) |-> <<s, d + k - 1>>]

\* The files of a symbol whose first is of day f: d = max(first, start), then
\* day by day to the end.
Files(s, f) ==
  LET d == IF f > 1 THEN f ELSE 1
  IN  [k \in 1 .. (LastDay + 1 - d) |-> <<s, d + k - 1>>]

\* The symbols, each once, in the order they are given.
Orders ==
  {o \in [1 .. Cardinality(Symbols) -> Symbols] : \A s \in Symbols : \E k \in DOMAIN o : o[k] = s}

BeginMetrics ==
  /\ status = "idle"
  /\ source' = "metrics" /\ status' = "listing"
  /\ todo' \in Orders
  /\ UNCHANGED <<waiting, running, answer, taken, rows, published>>

\* An answer that is no listing, or lists no dated file, skips the symbol.
SkipSymbol ==
  /\ status = "listing" /\ source = "metrics" /\ todo # <<>>
  /\ todo' = Tail(todo)
  /\ UNCHANGED <<source, status, waiting, running, answer, taken, rows, published>>

AvailableFrom ==
  /\ status = "listing" /\ source = "metrics" /\ todo # <<>>
  /\ \E f \in 0 .. LastDay + 1 :
       /\ waiting' = waiting \o Files(Head(todo), f)
       /\ \E days \in SUBSET {d \in WindowDays : d >= f} :
            published' = published \cup ({Head(todo)} \X days)
  /\ todo' = Tail(todo)
  /\ UNCHANGED <<source, status, running, answer, taken, rows>>

OpenPool ==
  /\ status = "listing" /\ source = "metrics" /\ todo = <<>>
  /\ status' = "fetching"
  /\ UNCHANGED <<source, todo, waiting, running, answer, taken, rows, published>>

StartDay ==
  /\ status \in {"fetching", "failing"}
  /\ waiting # <<>> /\ Cardinality(running) < Workers
  /\ running' = running \cup {Head(waiting)} /\ waiting' = Tail(waiting)
  /\ UNCHANGED <<source, status, todo, answer, taken, rows, published>>

FetchDay ==
  \E j \in running : \E a \in DayAnswers(j) :
    /\ answer' = [x \in DOMAIN answer \cup {j} |-> IF x = j THEN a ELSE answer[x]]
    /\ running' = running \ {j}
    /\ UNCHANGED <<source, status, todo, waiting, taken, rows, published>>

\* fut.result() raises what the worker raised, and the loop is left.
Take ==
  /\ status = "fetching"
  /\ \E j \in DOMAIN answer \ taken :
       /\ taken' = taken \cup {j}
       /\ rows' = IF answer[j] = "row" THEN rows \cup {j} ELSE rows
       /\ status' = IF answer[j] = "raises" THEN "failing" ELSE status
  /\ UNCHANGED <<source, todo, waiting, running, answer, published>>

Idle == waiting = <<>> /\ running = {}

\* The pool is left when everything submitted to it has been fetched, whether
\* or not anybody wants it any more.
LeavePool ==
  /\ Idle
  /\ \/ status = "failing" /\ status' = "raised"
     \/ /\ status = "fetching" /\ taken = DOMAIN answer
        /\ status' = IF rows = {} THEN "raised" ELSE "done"
  /\ UNCHANGED <<source, todo, waiting, running, answer, taken, rows, published>>

-----------------------------------------------------------------------------
\* The list of protocols is asked for first, and nothing catches its failure.
BeginPanel ==
  /\ status = "idle"
  /\ source' \in {"tvl", "fees"} /\ status' \in {"listing", "raised"}
  /\ todo' \in Orders
  /\ UNCHANGED <<waiting, running, answer, taken, rows, published>>

NextSymbol ==
  /\ status = "listing" /\ source \in {"tvl", "fees"} /\ todo # <<>>
  /\ todo' = Tail(todo)
  /\ UNCHANGED <<source, status, waiting, running, taken>>

\* No protocol of that name, or a request that raised.
SkipProtocol ==
  /\ NextSymbol
  /\ UNCHANGED <<answer, rows, published>>

\* The history, cut to the window and to one record a day.  It may be empty.
AddProtocol ==
  /\ NextSymbol
  /\ \E days \in SUBSET (0 .. LastDay + 1) :
       /\ rows' = rows \cup ({Head(todo)} \X (days \cap WindowDays))
       /\ published' = published \cup ({Head(todo)} \X (days \cap WindowDays))
  /\ answer' = [x \in DOMAIN answer \cup {Head(todo)} |->
                  IF x = Head(todo) THEN "frame" ELSE answer[x]]

\* if not frames: a frame counts, even without a record.
Concat ==
  /\ status = "listing" /\ source \in {"tvl", "fees"} /\ todo = <<>>
  /\ status' = IF DOMAIN answer = {} THEN "raised" ELSE "done"
  /\ UNCHANGED <<source, todo, waiting, running, answer, taken, rows, published>>

-----------------------------------------------------------------------------
DownloadInit ==
  /\ source = "none" /\ status = "idle"
  /\ todo = <<>>
  /\ waiting = <<>> /\ running = {}
  /\ answer = [x \in {} |-> "row"] /\ taken = {}
  /\ rows = {} /\ published = {}

DownloadNext ==
  \/ BeginMetrics \/ SkipSymbol \/ AvailableFrom \/ OpenPool
  \/ StartDay \/ FetchDay \/ Take \/ LeavePool
  \/ BeginPanel \/ SkipProtocol \/ AddProtocol \/ Concat

DownloadSpec == DownloadInit /\ [][DownloadNext]_download

-----------------------------------------------------------------------------
(* Properties.                                                             *)

\* A table that is returned has every record the service has of a symbol that
\* was not skipped, in whichever order the threads end, but for the days whose
\* own request failed; a table of metrics is never empty; and an exception
\* leaves only when every request has been answered, and then a file could not
\* be read or there was no record at all.
\* (vision.py:164-237, onchain.py:115-132 and 149-173)
DownloadComplete ==
  /\ status = "done" =>
       rows = {j \in published : j \in DOMAIN answer => answer[j] # "failed"}
  /\ status = "done" /\ source = "metrics" => rows # {}
  /\ status \in {"done", "raised"} => Idle
  /\ status = "raised" /\ source = "metrics" =>
       \/ \E j \in DOMAIN answer : answer[j] = "raises"
       \/ \A j \in published : j \in DOMAIN answer /\ answer[j] = "failed"
=============================================================================
