----------------------------- MODULE WeeklyTask -----------------------------
(***************************************************************************)
(* The forward test: the weekly task (scripts/update_paper.ps1, registered *)
(* by install_task.ps1) that fetches the data, marks the two paper         *)
(* accounts of PaperTracker one after the other and asks for their health. *)
(*                                                                         *)
(* Three clocks meet here.  The script takes its --end from the local date *)
(* of the moment it began; klines are dated in UTC; the health check asks  *)
(* for the UTC date of the moment it runs.  An attempt is shorter than a   *)
(* slot (its time limit is 2 hours), so it crosses at most one slot's end. *)
(* Faults names what may go wrong:                                         *)
(*   "miss"   the machine is off when the task is due: it starts late      *)
(*   "slow"   the slot ends, perhaps the day, while the task runs or waits *)
(*            for its restart                                              *)
(*   "fetch"  a fetch fails as a whole                                     *)
(*   "skip"   a fetch leaves out symbols (a symbol that raises is skipped) *)
(*   "halt"   the exchange halts a major for good: its series end          *)
(*   "kill"   the process is killed, perhaps while it writes a state file  *)
(*   "manual" the operator runs the script by hand on another day          *)
(* At most MaxFaults of these happen (a bound for model checking).         *)
(***************************************************************************)
EXTENDS PaperTracker

CONSTANTS
    Week,         \* days from one scheduled run to the next
    Restarts,     \* RestartCount
    LocalEnd,     \* the time zone: local midnight minus midnight UTC, in
                  \* whole slots, negative to the east
    Books,        \* the books the signal may compute
    Faults,
    MaxFaults

ASSUME WeekAssumption == Week \in Nat \ {0}
ASSUME RestartsAssumption == Restarts \in Nat
ASSUME LocalEndAssumption ==
    /\ LocalEnd \in (-Payments)..(Payments - 1)
    /\ LocalEnd <= LastSlot
ASSUME BooksAssumption == Books \subseteq SUBSET Coins
ASSUME MaxFaultsAssumption == MaxFaults \in Nat

Accounts == {"alpha", "two"}

VARIABLES
    now,       \* the slot
    began,     \* the slot in which the script was started last
    halted,    \* the majors the exchange has halted
    pc,        \* where the task is
    tries,     \* restarts used up
    spot,      \* data/live.parquet (with live_defi.parquet)
    perp,      \* data/live_perp.parquet
    fund,      \* data/live_funding.parquet
    files,     \* data/paper.json and data/paper_two_engine.json
    faults

data == <<spot, perp, fund>>
vars == <<now, began, halted, pc, tries, data, files, faults>>

Running == {"spot", "perp", "funding", "alpha", "two", "status"}
Stages == {"idle", "missed", "ok", "failed"} \cup Running

\* The date of the health check, in UTC.
Today == Day(now)

\* $Today of the script, the --end of every fetch: the local date when it began.
EndDate == Day(began - LocalEnd)

\* The slot in which the last bar up to the date end closes, or at which it has
\* arrived when it is fetched in slot t.
Close(end, t) ==
    IF t < (end + 1) * Payments THEN t ELSE (end + 1) * Payments - 1

LastClose == Close(EndDate, now)

TypeOK ==
    /\ now \in Slots
    /\ began \in Slots
    /\ halted \subseteq Majors
    /\ pc \in Stages
    /\ tries \in 0..Restarts
    /\ spot \in Panels
    /\ perp \in Bars
    /\ fund \in Funding
    /\ files \in [Accounts -> States \cup {NoFile, Torn}]
    /\ faults \in 0..MaxFaults

Init ==
    /\ now = (IF LocalEnd > 0 THEN LocalEnd ELSE 0)
    /\ began = now
    /\ halted = {}
    /\ pc = "idle"
    /\ tries = 0
    /\ spot = [last |-> 0, at |-> 0, seen |-> [s \in Coins |-> Never]]
    /\ perp = [m \in Majors |-> Never]
    /\ fund = [m \in Majors |-> Never]
    /\ files = [a \in Accounts |-> NoFile]
    /\ faults = 0

-----------------------------------------------------------------------------
Fault(kind) == kind \in Faults /\ faults < MaxFaults /\ faults' = faults + 1
NoFault == UNCHANGED faults

\* The trigger: the first slot of every Week-th day, in local time.
DueSlots == {t \in Slots : (t - LocalEnd) % (Week * Payments) = 0}
Due == now \in DueSlots

\* A run that was missed starts when the machine is on again (StartWhenAvailable).
Start ==
    /\ (pc = "idle" /\ Due) \/ pc = "missed"
    /\ pc' = "spot" /\ began' = now
    /\ UNCHANGED <<now, halted, tries, data, files>> /\ NoFault

\* Run by hand, the script is not restarted.
StartByHand ==
    /\ pc = "idle" /\ ~Due
    /\ Fault("manual")
    /\ pc' = "spot" /\ began' = now /\ tries' = Restarts
    /\ UNCHANGED <<now, halted, data, files>>

\* A symbol whose fetch raises is left out of the panel, and the step goes on.
Skipping(gone) ==
    \/ gone = {} /\ NoFault
    \/ gone # {} /\ Fault("skip")

\* The last bar is that of EndDate, or of the UTC day that has not come to it;
\* the close of a day that is not over is the price so far.
FetchSpot ==
    /\ pc = "spot" /\ pc' = "perp"
    /\ \E gone \in SUBSET Coins :
         /\ gone # Coins /\ Skipping(gone)
         /\ spot' = [last |-> Day(LastClose), at |-> LastClose,
                     seen |-> [s \in Coins |-> IF s \in gone THEN Never ELSE LastClose]]
    /\ UNCHANGED <<now, began, halted, tries, perp, fund, files>>

\* The series of a halted major end with what they held before.
FetchPerp ==
    /\ pc = "perp" /\ pc' = "funding"
    /\ \E gone \in SUBSET Majors :
         /\ gone # Majors /\ Skipping(gone)
         /\ perp' = [m \in Majors |->
              IF m \in gone THEN Never
              ELSE IF m \in halted THEN perp[m] ELSE Day(LastClose)]
    /\ UNCHANGED <<now, began, halted, tries, spot, fund, files>>

\* fetch-funding reads its --end as local time: the last payment up to the
\* local midnight with which EndDate begins.
LastPayment == LET t == EndDate * Payments + LocalEnd
               IN IF t < 0 THEN Never ELSE t

FetchFunding ==
    /\ pc = "funding" /\ pc' = "alpha"
    /\ \E gone \in SUBSET Majors :
         /\ gone # Majors /\ Skipping(gone)
         /\ fund' = [m \in Majors |->
              IF m \in gone THEN Never
              ELSE IF m \in halted THEN fund[m] ELSE LastPayment]
    /\ UNCHANGED <<now, began, halted, tries, spot, perp, files>>

FetchFails ==
    /\ pc \in {"spot", "perp", "funding"} /\ pc' = "failed"
    /\ Fault("fetch")
    /\ UNCHANGED <<now, began, halted, tries, data, files>>

\* The signal holds what its panel prices.
SignalBooks == {b \cap Priced(spot) : b \in Books}

MarkAlpha ==
    /\ pc = "alpha" /\ pc' = "two"
    /\ ~RecordRaises(files["alpha"], spot.last)
    /\ \E book \in SignalBooks :
         files' = [files EXCEPT !["alpha"] = Record(@, spot, book, {})]
    /\ UNCHANGED <<now, began, halted, tries, data>> /\ NoFault

AlphaRaises ==
    /\ pc = "alpha" /\ pc' = "failed"
    /\ RecordRaises(files["alpha"], spot.last)
    /\ UNCHANGED <<now, began, halted, tries, data, files>> /\ NoFault

SleeveRaises == Sleeved(spot, perp, fund) = {}

CarryOf(f) ==
    IF Readable(f) THEN RealisedCarry(f.ts, spot, perp, fund) ELSE {}

MarkTwo ==
    /\ pc = "two" /\ pc' = "status"
    /\ ~SleeveRaises /\ ~RecordRaises(files["two"], spot.last)
    /\ \E book \in SignalBooks :
         files' = [files EXCEPT !["two"] = Record(@, spot, book, CarryOf(@))]
    /\ UNCHANGED <<now, began, halted, tries, data>> /\ NoFault

\* Broken: without a sleeve the account is left as it is.
TwoRaisesUnnoticed ==
    /\ pc = "two" /\ pc' = "status"
    /\ SleeveRaises \/ RecordRaises(files["two"], spot.last)
    /\ UNCHANGED <<now, began, halted, tries, data, files>> /\ NoFault

TwoRaises ==
    /\ pc = "two" /\ pc' = "failed"
    /\ SleeveRaises \/ RecordRaises(files["two"], spot.last)
    /\ UNCHANGED <<now, began, halted, tries, data, files>> /\ NoFault

\* The exit code of `vfund status` is that of the script.
Status ==
    /\ pc = "status"
    /\ pc' = IF ExitCode({files[a] : a \in Accounts}, Today) = 0 THEN "ok" ELSE "failed"
    /\ UNCHANGED <<now, began, halted, tries, data, files>> /\ NoFault

Killed ==
    /\ pc \in Running /\ pc' = "failed"
    /\ Fault("kill")
    /\ UNCHANGED <<now, began, halted, tries, data, files>>

\* save() truncates the file before it writes the new state.
KilledInSave ==
    /\ pc \in Accounts /\ pc' = "failed"
    /\ Fault("kill")
    /\ ~RecordRaises(files[pc], spot.last)
    /\ Readable(files[pc]) => files[pc].ts # spot.last
    /\ pc = "two" => ~SleeveRaises
    /\ files' = [files EXCEPT ![pc] = Torn]
    /\ UNCHANGED <<now, began, halted, tries, data>>

\* The restart begins the script anew.
Restart ==
    /\ pc = "failed" /\ tries < Restarts
    /\ pc' = "spot" /\ began' = now /\ tries' = tries + 1
    /\ UNCHANGED <<now, halted, data, files>> /\ NoFault

\* "Archive the file and re-initialize": what _check_gap asks the operator for.
Archive(a) ==
    /\ pc \notin Running
    /\ Health(files[a], Today) = "BROKEN"
    /\ files' = [files EXCEPT ![a] = NoFile]
    /\ UNCHANGED <<now, began, halted, pc, tries, data>> /\ NoFault

Halt ==
    /\ Fault("halt")
    /\ \E m \in Majors \ halted : halted' = halted \cup {m}
    /\ UNCHANGED <<now, began, pc, tries, data, files>>

\* The machine may stay off until the task is due again.
Tick ==
    /\ now < LastSlot /\ now' = now + 1
    /\ \/ pc = "ok" \/ (pc = "failed" /\ tries = Restarts)
       \/ pc \in {"idle", "missed"} /\ ~Due
    /\ pc' = (IF pc = "missed" THEN "missed" ELSE "idle") /\ tries' = 0
    /\ UNCHANGED <<began, halted, data, files>> /\ NoFault

Miss ==
    /\ pc \in {"idle", "missed"} /\ Due
    /\ Fault("miss")
    /\ now < LastSlot /\ now' = now + 1
    /\ pc' = "missed"
    /\ UNCHANGED <<began, halted, tries, data, files>>

\* The attempt is not over when its slot is.  (The next slot is not one in which
\* the task is due: two scripts at a time are left out.)
Slow ==
    /\ \/ pc \in Running /\ began = now
       \/ pc = "failed" /\ tries < Restarts
    /\ Fault("slow")
    /\ now < LastSlot /\ now' = now + 1 /\ now' \notin DueSlots
    /\ UNCHANGED <<began, halted, pc, tries, data, files>>

-----------------------------------------------------------------------------
Script ==
    \/ FetchSpot \/ FetchPerp \/ FetchFunding
    \/ MarkAlpha \/ AlphaRaises \/ MarkTwo \/ TwoRaises \/ Status

Scheduler == Start \/ Restart \/ Tick

Environment ==
    \/ StartByHand \/ FetchFails \/ Killed \/ KilledInSave \/ Halt \/ Miss \/ Slow
    \/ \E a \in Accounts : Archive(a)

Next == Script \/ Scheduler \/ Environment

Spec == Init /\ [][Next]_vars

\* The script goes on while it is not killed, and the scheduler does its part.
FairSpec == Spec /\ WF_vars(Script) /\ WF_vars(Scheduler)

-----------------------------------------------------------------------------
(* Properties.                                                             *)

\* No double credit (record, realised_carry).  However often the task fails,
\* is restarted or is run by hand, and whatever a fetch leaves out, the record
\* of an account holds each price move and each funding payment at most once.
CreditedOnce ==
    \A a \in Accounts : Readable(files[a]) =>
        /\ \A s \in Coins, t \in Slots : files[a].moves[s][t] \in 0..1
        /\ \A t \in Slots : files[a].carry[t] \in 0..1

\* The moves between two updates belong to the coins held between them.
HeldOver(f, s, t) ==
    \E i \in 1..(Len(f.history) - 1) :
        /\ s \in f.history[i].book
        /\ f.history[i].at < t /\ t <= f.history[i + 1].at

\* Nothing is credited that was not earned (record): a move is in the record
\* only if the book of the update before it held the coin, and a payment only
\* if it was made after the account began.
EarnedOnly ==
    \A a \in Accounts : Readable(files[a]) =>
        /\ \A s \in Coins, t \in Slots :
             files[a].moves[s][t] # 0 => HeldOver(files[a], s, t)
        /\ \A t \in Slots : files[a].carry[t] # 0 => t > files[a].history[1].at

\* The forward record is never rewritten (load, save): an update adds to the
\* history of a state file and no step makes a readable record of one that
\* does not parse.
HistoryIntact ==
    [][\A a \in Accounts :
        Readable(files'[a]) =>
            /\ files[a] # Torn
            /\ Readable(files[a]) => IsPrefix(files[a].history, files'[a].history)]_vars

\* The health check and the tracker agree but for a day (check_account,
\* _check_gap).  The tracker counts to the last bar of the panel, by the local
\* date when the script began, and `vfund status` to the UTC date: whatever the
\* time zone and the hour, an account the tracker refuses is BROKEN, and one
\* that was BROKEN the day before as well is refused.
RefusedWhenBroken ==
    \A a \in Accounts : pc \in {"alpha", "two"} =>
        /\ RecordRaises(files[a], spot.last) => Health(files[a], Today) = "BROKEN"
        /\ Health(files[a], Today - 1) = "BROKEN" => RecordRaises(files[a], spot.last)

\* A task that reports success has marked both accounts with the prices it has
\* fetched itself, and they are of this UTC day or the one before (Invoke-Step,
\* the health gate): no failure is silent.
SuccessMeansMarked ==
    pc = "ok" =>
        \A a \in Accounts :
            /\ Readable(files[a]) /\ files[a].ts = spot.last
            /\ files[a].ts >= Today - 1

\* Restarts save the week (install_task.ps1): as long as the scheduled run has
\* a restart left when the last fault is over, no account is BROKEN and every
\* major trades, the run of that day ends with both accounts marked.
Markable == \A a \in Accounts : Health(files[a], Today) # "BROKEN"

RestartsSaveTheWeek ==
    \A w \in DueSlots :
        (/\ now = w /\ pc # "ok" /\ tries < Restarts
         /\ faults = MaxFaults /\ halted = {} /\ Markable)
        ~> (now = w /\ pc = "ok")

\* The update as the documentation describes it, for the alpha pot: every coin
\* held since the last update is marked by the price move since then.
MarkedInFull ==
    \A a \in Accounts : Readable(files[a]) =>
        \A s \in Coins, t \in Slots :
            HeldOver(files[a], s, t) => files[a].moves[s][t] = 1

\* And for the carry pot: every funding payment made between the first and the
\* last update, as far as the last one could know it, is in the record.
CarryInFull ==
    Readable(files["two"]) =>
        LET h == files["two"].history
        IN \A t \in Slots :
             (h[1].at < t /\ Day(t) < h[Len(h)].ts) => files["two"].carry[t] = 1
=============================================================================
