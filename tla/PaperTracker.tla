---------------------------- MODULE PaperTracker ----------------------------
(***************************************************************************)
(* One paper account (src/vfund/live/paper.py, live/carry.py) and the      *)
(* judgement of its state file (live/health.py), as pure operators.        *)
(*                                                                         *)
(* Time is counted in slots, Payments of them a day: slot t begins with    *)
(* the funding payment t of its day, and every price moves once in it.     *)
(* What matters of an equity curve is which moves and payments are in it,  *)
(* so a price is the slot up to which it has moved, and a state file keeps *)
(* how often each move of each coin (st.moves) and each funding payment    *)
(* (st.carry) was credited instead of the equity they add up to.  Costs,   *)
(* weights' sizes, the basis and the split of the pots are left out.       *)
(***************************************************************************)
EXTENDS Integers, Sequences, FiniteSets, FiniteSetsExt, SequencesExt

CONSTANTS
    Coins,        \* the symbols a spot panel may hold
    Majors,       \* MAJORS: those the carry sleeve trades
    Payments,     \* funding payments a day
    LastSlot,     \* the end of the calendar (a bound for model checking)
    MaxGap,       \* MAX_GAP_DAYS
    Fresh,        \* FRESH_DAYS
    Critical      \* CRITICAL_DAYS

ASSUME MajorsAssumption == Majors \subseteq Coins
ASSUME CalendarAssumption == Payments \in Nat \ {0} /\ LastSlot \in Nat
ASSUME LadderAssumption ==
    /\ Fresh \in Nat /\ Critical \in Nat /\ MaxGap \in Nat
    /\ Fresh <= Critical /\ Critical <= MaxGap

Never == -1
Slots == 0..LastSlot
Day(t) == t \div Payments
Days == 0..Day(LastSlot)

\* _latest_prices: the day of the last bar of a panel, the slot in which that
\* bar closed (or up to which it has come), and for each coin with a bar there
\* the slot of its close.
Panels == [last: Days, at: Slots, seen: [Coins -> Slots \cup {Never}]]
Priced(panel) == {s \in Coins : panel.seen[s] # Never}

\* The perpetual panel: the last bar of each major; funding: its last payment.
Bars == [Majors -> Days \cup {Never}]
Funding == [Majors -> Slots \cup {Never}]

\* A state file: absent, cut off in the middle of a write, or readable.
NoFile == [kind |-> "none"]
Torn == [kind |-> "torn"]
Entries == [ts: Days, at: Slots, book: SUBSET Coins]
States == [kind: {"ok"}, ts: Days, seen: [Coins -> Slots \cup {Never}],
           book: SUBSET Coins, history: Seq(Entries),
           moves: [Coins -> [Slots -> Nat]], carry: [Slots -> Nat]]

Readable(f) == f.kind = "ok"

-----------------------------------------------------------------------------
(* carry_sleeve and realised_carry.                                        *)

\* The majors present in all three inputs; none is an error.
Sleeved(panel, perp, fund) ==
    {m \in Majors : m \in Priced(panel) /\ perp[m] # Never /\ fund[m] # Never}

\* The joined bars: days that every such major has a perpetual bar and at
\* least one funding payment for.
SleeveDays(panel, perp, fund) ==
    {d \in Days : d <= panel.last /\ \A m \in Sleeved(panel, perp, fund) :
                     d <= perp[m] /\ d * Payments <= fund[m]}

\* The payments the bars of these days sum up (_daily_funding).
PaymentsOn(days, panel, perp, fund) ==
    {t \in Slots : Day(t) \in days /\ \E m \in Sleeved(panel, perp, fund) : t <= fund[m]}

\* Broken: takes the bar of the last update in again.
RealisedCarryFrom(ts, panel, perp, fund) ==
    PaymentsOn({d \in SleeveDays(panel, perp, fund) : d >= ts}, panel, perp, fund)

\* Broken: takes the whole series.
RealisedCarryAll(ts, panel, perp, fund) ==
    PaymentsOn(SleeveDays(panel, perp, fund), panel, perp, fund)

RealisedCarry(ts, panel, perp, fund) ==
    PaymentsOn({d \in SleeveDays(panel, perp, fund) : d > ts}, panel, perp, fund)

-----------------------------------------------------------------------------
(* PaperTracker.                                                           *)

\* Broken: the limit itself is refused.
CheckGapRefusesEarly(f, ts) == Readable(f) /\ ts - f.ts >= MaxGap

\* _check_gap refuses a gap that is too long, never one that is negative.
CheckGapRefuses(f, ts) == Readable(f) /\ ts - f.ts > MaxGap

Entry(panel, book) == [ts |-> panel.last, at |-> panel.at, book |-> book]

Initialized(panel, book) ==
    [kind |-> "ok", ts |-> panel.last, seen |-> panel.seen, book |-> book,
     history |-> <<Entry(panel, book)>>,
     moves |-> [s \in Coins |-> [t \in Slots |-> 0]],
     carry |-> [t \in Slots |-> 0]]

\* The held coins that are marked: those priced at both updates.
Marked(f, panel) == {s \in f.book : s \in Priced(panel) /\ f.seen[s] # Never}

\* Broken: old and new price swapped.
BetweenSwapped(t, a, b) == IF a < t /\ t <= b THEN -1 ELSE IF b < t /\ t <= a THEN 1 ELSE 0

\* A price gone back in time takes its moves out again.
Between(t, a, b) == IF a < t /\ t <= b THEN 1 ELSE IF b < t /\ t <= a THEN -1 ELSE 0

Updated(f, panel, book, carry) ==
    [kind |-> "ok", ts |-> panel.last, seen |-> panel.seen, book |-> book,
     history |-> Append(f.history, Entry(panel, book)),
     moves |-> [s \in Coins |-> [t \in Slots |->
         IF s \in Marked(f, panel)
         THEN f.moves[s][t] + Between(t, f.seen[s], panel.seen[s])
         ELSE f.moves[s][t]]],
     carry |-> [t \in Slots |-> IF t \in carry THEN f.carry[t] + 1 ELSE f.carry[t]]]

\* Broken: a state file that does not parse counts as none.
LoadForgives(f) == FALSE

\* load() raises on a file that does not parse.
LoadRaises(f) == f = Torn

\* record() with carry = {}, record_two_engine() with the realised carry.
Record(f, panel, book, carry) ==
    IF ~Readable(f) THEN Initialized(panel, book)
    ELSE IF panel.last = f.ts THEN f
    ELSE Updated(f, panel, book, carry)

\* Broken: no new data is an error.
RecordRaisesNoNewData(f, ts) ==
    LoadRaises(f) \/ CheckGapRefuses(f, ts) \/ (Readable(f) /\ f.ts = ts)

RecordRaises(f, ts) == LoadRaises(f) \/ CheckGapRefuses(f, ts)

-----------------------------------------------------------------------------
(* health.check_account and health.exit_code.                              *)

Health(f, today) ==
    CASE f = NoFile -> "MISSING"
      [] f = Torn -> "BROKEN"
      [] Readable(f) ->
           LET days == today - f.ts
           IN IF days > MaxGap THEN "BROKEN"
              ELSE IF days >= Critical THEN "CRITICAL"
              ELSE IF days >= Fresh THEN "STALE" ELSE "OK"

ExitCode(files, today) ==
    IF \E f \in files : Health(f, today) # "OK" THEN 1 ELSE 0
=============================================================================
