--------------------------- MODULE WeeklyTaskProofs ---------------------------
(***************************************************************************)
(* Proofs about the weekly task and its two paper accounts, for every      *)
(* calendar, every set of faults and any number of them.                   *)
(***************************************************************************)
EXTENDS WeeklyTask, SequenceTheorems, TLAPS

-----------------------------------------------------------------------------
(* Days and slots.                                                         *)

LEMMA DayType == \A t \in Nat : Day(t) \in Nat
BY CalendarAssumption DEF Day

LEMMA DayGrows == ASSUME NEW t \in Nat, NEW u \in Nat, t <= u PROVE Day(t) <= Day(u)
BY CalendarAssumption DEF Day

LEMMA SlotDay == ASSUME NEW t \in Slots PROVE t \in Nat /\ Day(t) \in Days /\ Day(t) \in Nat
<1>1. t \in Nat /\ LastSlot \in Nat /\ t <= LastSlot
  BY CalendarAssumption DEF Slots
<1>2. Day(t) \in Nat /\ Day(LastSlot) \in Nat /\ Day(t) <= Day(LastSlot)
  BY <1>1, DayType, DayGrows
<1> QED
  BY <1>1, <1>2 DEF Days

-----------------------------------------------------------------------------
(* The record of one account.                                              *)

AllFiles == States \cup {NoFile, Torn}

Newest(f) == f.history[Len(f.history)]

\* What is true of a readable state file whose closes are no later than slot n:
\* its last mark is not after n, with prices seen then or not at all; a move in it is no
\* later than that mark and was earned by a book held before it; a payment in
\* it is no later than the day it was marked up to and later than its start.
Sound(f, n) ==
  /\ Len(f.history) >= 1
  /\ Newest(f).at <= n /\ f.ts <= Day(n)
  /\ Newest(f).book = f.book
  /\ Day(f.history[1].at) <= f.ts
  /\ \A s \in Coins : f.seen[s] \in {Newest(f).at, Never}
  /\ \A s \in Coins, t \in Slots :
       /\ f.moves[s][t] \in 0..1
       /\ f.moves[s][t] # 0 => t <= Newest(f).at /\ HeldOver(f, s, t)
  /\ \A t \in Slots :
       /\ f.carry[t] \in 0..1
       /\ f.carry[t] # 0 => Day(t) <= f.ts /\ f.history[1].at < t

SoundFile(f, n) == f \in AllFiles /\ (Readable(f) => Sound(f, n))

LEMMA KindOfFile ==
  ASSUME NEW f \in AllFiles
  PROVE  /\ Readable(f) <=> f \in States
         /\ Readable(f) => f # Torn /\ f # NoFile
         /\ ~Readable(f) => f = NoFile \/ f = Torn
         /\ ~Readable(NoFile) /\ ~Readable(Torn) /\ NoFile # Torn
BY DEF AllFiles, States, NoFile, Torn, Readable

\* Each field of a readable state file.
LEMMA StateFields ==
  ASSUME NEW f \in States
  PROVE  /\ f.ts \in Days /\ f.seen \in [Coins -> Slots \cup {Never}] /\ f.book \in SUBSET Coins
         /\ f.history \in Seq(Entries)
         /\ f.moves \in [Coins -> [Slots -> Nat]] /\ f.carry \in [Slots -> Nat]
BY DEF States

LEMMA EntryTypes ==
  ASSUME NEW h \in Seq(Entries), NEW i \in 1..Len(h)
  PROVE  h[i].ts \in Days /\ h[i].at \in Slots /\ h[i].book \in SUBSET Coins
<1>1. h[i] \in Entries
  OBVIOUS
<1> QED
  BY <1>1 DEF Entries

\* A longer history holds a coin over what the shorter one did.
LEMMA HeldLonger ==
  ASSUME NEW f, NEW g, f.history \in Seq(Entries), NEW e \in Entries,
         g.history = Append(f.history, e), NEW s, NEW t, HeldOver(f, s, t)
  PROVE  HeldOver(g, s, t)
<1> DEFINE h == f.history
           k == g.history
<1>1. Len(h) \in Nat /\ Len(k) = Len(h) + 1 /\ \A i \in 1..Len(h) : k[i] = h[i]
  OBVIOUS
<1> HIDE DEF h, k
<1>2. PICK i \in 1..(Len(h) - 1) : /\ s \in h[i].book
                                   /\ h[i].at < t /\ t <= h[i + 1].at
  BY DEF HeldOver, h
<1>3. i \in 1..(Len(k) - 1) /\ k[i] = h[i] /\ k[i + 1] = h[i + 1]
  BY <1>1, <1>2
<1>4. \E x \in 1..(Len(k) - 1) : /\ s \in k[x].book
                                 /\ k[x].at < t /\ t <= k[x + 1].at
  BY <1>2, <1>3
<1> QED
  BY <1>4 DEF HeldOver, k

\* The first entry of an account.
LEMMA InitializedSound ==
  ASSUME NEW n \in Slots, NEW panel \in Panels, panel.at = n, panel.last = Day(n),
         \A s \in Coins : panel.seen[s] \in {n, Never}, NEW book \in SUBSET Coins
  PROVE  LET g == Initialized(panel, book)
         IN  g \in States /\ Sound(g, n) /\ g.ts = panel.last
<1> DEFINE e == Entry(panel, book)
           g == Initialized(panel, book)
<1>1. panel.last \in Days /\ panel.seen \in [Coins -> Slots \cup {Never}]
  BY DEF Panels
<1>2. e \in Entries /\ e.at = n /\ e.book = book
  BY <1>1 DEF Entry, Entries
<1>3. /\ g.kind = "ok" /\ g.ts = panel.last /\ g.seen = panel.seen /\ g.book = book
      /\ g.history = <<e>>
      /\ g.moves = [s \in Coins |-> [t \in Slots |-> 0]]
      /\ g.carry = [t \in Slots |-> 0]
  BY DEF Initialized
<1>4. <<e>> \in Seq(Entries) /\ Len(<<e>>) = 1 /\ <<e>>[1] = e
  BY <1>2
<1>5. /\ g.moves \in [Coins -> [Slots -> Nat]] /\ g.carry \in [Slots -> Nat]
      /\ \A s \in Coins, t \in Slots : g.moves[s][t] = 0
      /\ \A t \in Slots : g.carry[t] = 0
  BY <1>3
<1>6. g \in States
  BY <1>1, <1>2, <1>4 DEF Initialized, States
<1>7. n \in Nat /\ Day(n) \in Nat
  BY SlotDay
<1> HIDE DEF g, e
<1>8. Newest(g) = e
  BY <1>3, <1>4 DEF Newest
<1>9. Sound(g, n)
  BY <1>2, <1>3, <1>4, <1>5, <1>7, <1>8 DEF Sound
<1> QED
  BY <1>3, <1>6, <1>9 DEF g

\* An update adds an entry.
LEMMA HistoryGrows ==
  ASSUME NEW h \in Seq(Entries), NEW e \in Entries
  PROVE  /\ Append(h, e) \in Seq(Entries) /\ Len(Append(h, e)) = Len(h) + 1
         /\ \A i \in 1..Len(h) : Append(h, e)[i] = h[i]
         /\ Append(h, e)[Len(h) + 1] = e
         /\ IsPrefix(h, Append(h, e)) /\ IsPrefix(h, h)
<1>1. /\ Append(h, e) \in Seq(Entries) /\ Len(Append(h, e)) = Len(h) + 1 /\ Len(h) \in Nat
      /\ \A i \in 1..Len(h) : Append(h, e)[i] = h[i]
      /\ Append(h, e)[Len(h) + 1] = e
  OBVIOUS
<1>2. SubSeq(h, 1, Len(h)) = h
  OBVIOUS
<1>3. SubSeq(Append(h, e), 1, Len(h)) = h
  BY <1>1
<1> QED
  BY <1>1, <1>2, <1>3 DEF IsPrefix

\* The carry of an update: payments of the days after the last mark.
LEMMA CarryLater ==
  ASSUME NEW f, NEW panel, NEW pp, NEW ff, NEW t \in RealisedCarry(f.ts, panel, pp, ff)
  PROVE  f.ts < Day(t) /\ Day(t) <= panel.last
BY DEF RealisedCarry, PaymentsOn, SleeveDays

\* An update adds the moves between two marks, once, and later payments only.
LEMMA UpdatedSound ==
  ASSUME NEW f \in States, NEW n \in Slots, Sound(f, n),
         NEW panel \in Panels, panel.at = n, panel.last = Day(n),
         \A s \in Coins : panel.seen[s] \in {n, Never}, NEW book \in SUBSET Coins,
         NEW carry, \A t \in carry : f.ts < Day(t) /\ Day(t) <= panel.last
  PROVE  LET g == Updated(f, panel, book, carry)
         IN  g \in States /\ Sound(g, n) /\ g.ts = panel.last /\ IsPrefix(f.history, g.history)
<1> DEFINE e == Entry(panel, book)
           g == Updated(f, panel, book, carry)
           h == f.history
           last == Newest(f)
<1>1. panel.last \in Days /\ panel.seen \in [Coins -> Slots \cup {Never}]
  BY DEF Panels
<1>2. e \in Entries /\ e.at = n /\ e.book = book
  BY <1>1 DEF Entry, Entries
<1>3. /\ g.ts = panel.last /\ g.seen = panel.seen /\ g.book = book
      /\ g.history = Append(h, e)
      /\ g.moves = [s \in Coins |-> [t \in Slots |->
           IF s \in Marked(f, panel) THEN f.moves[s][t] + Between(t, f.seen[s], panel.seen[s])
           ELSE f.moves[s][t]]]
      /\ g.carry = [t \in Slots |-> IF t \in carry THEN f.carry[t] + 1 ELSE f.carry[t]]
  BY DEF Updated
<1>4. /\ f.ts \in Days /\ f.book \in SUBSET Coins /\ h \in Seq(Entries)
      /\ f.moves \in [Coins -> [Slots -> Nat]] /\ f.carry \in [Slots -> Nat]
  BY StateFields
<1>5. /\ Len(h) >= 1 /\ last.at <= n /\ f.ts <= Day(n) /\ last.book = f.book
      /\ Day(h[1].at) <= f.ts
      /\ \A s \in Coins : f.seen[s] \in {last.at, Never}
      /\ \A s \in Coins, t \in Slots :
           /\ f.moves[s][t] \in 0..1
           /\ f.moves[s][t] # 0 => t <= last.at /\ HeldOver(f, s, t)
      /\ \A t \in Slots :
           /\ f.carry[t] \in 0..1
           /\ f.carry[t] # 0 => Day(t) <= f.ts /\ h[1].at < t
  BY DEF Sound
<1>6. /\ g.history \in Seq(Entries) /\ Len(g.history) = Len(h) + 1
      /\ \A i \in 1..Len(h) : g.history[i] = h[i]
      /\ g.history[Len(h) + 1] = e /\ IsPrefix(h, g.history)
  BY <1>2, <1>3, <1>4, HistoryGrows
<1>7. Len(h) \in Nat /\ 1 \in 1..Len(h) /\ Len(h) \in 1..Len(h) /\ last = h[Len(h)]
  BY <1>4, <1>5 DEF Newest
<1>8. /\ last.at \in Nat /\ n \in Nat /\ h[1].at \in Nat /\ f.ts \in Int /\ Day(n) \in Nat
      /\ last.at \in Slots /\ h[1].at \in Slots /\ Day(h[1].at) \in Nat
  BY <1>4, <1>7, EntryTypes, SlotDay DEF Days
<1>9. g.history[1] = h[1] /\ Newest(g) = e /\ g.history[Len(h)] = last
  BY <1>6, <1>7 DEF Newest
<1>10. ASSUME NEW s \in Coins, NEW t \in Slots
       PROVE  /\ g.moves[s][t] \in 0..1
              /\ g.moves[s][t] # 0 => t <= n /\ HeldOver(g, s, t)
  <2> HIDE DEF g, h, last, e
  <2>1. t \in Nat
    BY SlotDay
  <2>2. f.moves[s][t] # 0 => t <= n /\ HeldOver(g, s, t)
    <3>1. f.moves[s][t] # 0 /\ HeldOver(f, s, t) => HeldOver(g, s, t)
      BY <1>2, <1>3, <1>4, HeldLonger DEF h
    <3> QED
      BY <1>5, <1>8, <2>1, <3>1
  <2>3. CASE s \notin Marked(f, panel)
    BY <1>3, <1>5, <2>2, <2>3
  <2>4. CASE s \in Marked(f, panel)
    <3>1. s \in f.book /\ f.seen[s] = last.at /\ panel.seen[s] = n
      BY <1>5, <2>4 DEF Marked, Priced
    <3>2. g.moves[s][t] = f.moves[s][t] + Between(t, last.at, n)
      BY <1>3, <2>4, <3>1
    <3>3. CASE last.at < t /\ t <= n
      <4>1. Between(t, last.at, n) = 1
        BY <3>3 DEF Between
      <4>2. f.moves[s][t] = 0
        BY <1>5, <1>8, <2>1, <3>3
      <4>3. \E i \in 1..(Len(g.history) - 1) :
              /\ s \in g.history[i].book
              /\ g.history[i].at < t /\ t <= g.history[i + 1].at
        <5>1. Len(h) \in 1..(Len(g.history) - 1)
          BY <1>6, <1>7
        <5>2. /\ s \in g.history[Len(h)].book /\ g.history[Len(h)].at < t
              /\ t <= g.history[Len(h) + 1].at
          BY <1>2, <1>5, <1>6, <1>9, <3>1, <3>3
        <5> QED
          BY <5>1, <5>2
      <4> QED
        BY <3>2, <3>3, <4>1, <4>2, <4>3 DEF HeldOver
    <3>4. CASE ~(last.at < t /\ t <= n)
      <4>1. Between(t, last.at, n) = 0
        BY <1>5, <1>8, <2>1, <3>4 DEF Between
      <4>2. g.moves[s][t] = f.moves[s][t]
        BY <1>5, <3>2, <4>1
      <4> QED
        BY <1>5, <2>2, <4>2
    <3> QED
      BY <3>3, <3>4
  <2> QED
    BY <2>3, <2>4
<1>11. ASSUME NEW t \in Slots
       PROVE  /\ g.carry[t] \in 0..1
              /\ g.carry[t] # 0 => Day(t) <= g.ts /\ h[1].at < t
  <2> HIDE DEF g, h, last, e
  <2>1. t \in Nat /\ Day(t) \in Nat
    BY SlotDay
  <2>2. CASE t \in carry
    <3>1. f.ts < Day(t) /\ Day(t) <= g.ts
      BY <1>3, <2>2
    <3>2. f.carry[t] = 0
      BY <1>5, <1>8, <2>1, <3>1
    <3>3. h[1].at < t
      <4>1. t <= h[1].at => Day(t) <= Day(h[1].at)
        BY <1>8, <2>1, DayGrows
      <4> QED
        BY <1>5, <1>8, <2>1, <3>1, <4>1
    <3> QED
      BY <1>3, <2>2, <3>1, <3>2, <3>3
  <2>3. CASE t \notin carry
    <3>1. g.carry[t] = f.carry[t] /\ f.ts <= g.ts
      BY <1>3, <1>5, <2>3
    <3> QED
      BY <1>3, <1>5, <1>8, <2>1, <3>1
  <2> QED
    BY <2>2, <2>3
<1>12. g \in States
  <2>1. g.moves \in [Coins -> [Slots -> Nat]]
    <3>1. \A s \in Coins, t \in Slots : g.moves[s][t] \in Nat
      BY <1>10
    <3>2. g.moves = [s \in Coins |-> [t \in Slots |-> g.moves[s][t]]]
      BY <1>3
    <3> QED
      BY <3>1, <3>2
  <2>2. g.carry \in [Slots -> Nat]
    <3>1. \A t \in Slots : g.carry[t] \in Nat
      BY <1>11
    <3>2. g.carry = [t \in Slots |-> g.carry[t]]
      BY <1>3
    <3> QED
      BY <3>1, <3>2
  <2>3. g = [kind |-> "ok", ts |-> g.ts, seen |-> g.seen, book |-> g.book,
             history |-> g.history, moves |-> g.moves, carry |-> g.carry]
    BY DEF Updated
  <2>4. g.ts \in Days /\ g.seen \in [Coins -> Slots \cup {Never}] /\ g.book \in SUBSET Coins
    BY <1>1, <1>3
  <2> HIDE DEF g
  <2> QED
    BY <1>6, <2>1, <2>2, <2>3, <2>4 DEF States
<1> HIDE DEF g, h, last, e
<1>13. Sound(g, n)
  <2>1. Len(g.history) >= 1 /\ Newest(g).at <= n /\ g.ts <= Day(n) /\ Newest(g).book = g.book
    BY <1>2, <1>3, <1>6, <1>7, <1>8, <1>9
  <2>2. Day(g.history[1].at) <= g.ts
    BY <1>3, <1>5, <1>8, <1>9
  <2>3. \A s \in Coins : g.seen[s] \in {Newest(g).at, Never}
    BY <1>2, <1>3, <1>9
  <2> QED
    BY <1>2, <1>9, <1>10, <1>11, <2>1, <2>2, <2>3 DEF Sound
<1> QED
  BY <1>3, <1>6, <1>12, <1>13 DEF g, h

\* What record() leaves is sound, and marked with the panel it was given.
LEMMA RecordSound ==
  ASSUME NEW n \in Slots, NEW f, SoundFile(f, n), NEW panel \in Panels,
         panel.at = n, panel.last = Day(n),
         \A s \in Coins : panel.seen[s] \in {n, Never}, NEW book \in SUBSET Coins,
         NEW carry, Readable(f) => \A t \in carry : f.ts < Day(t) /\ Day(t) <= panel.last
  PROVE  LET g == Record(f, panel, book, carry)
         IN  /\ SoundFile(g, n) /\ Readable(g) /\ g.ts = panel.last
             /\ Readable(f) => IsPrefix(f.history, g.history)
<1> DEFINE g == Record(f, panel, book, carry)
<1> SUFFICES /\ SoundFile(g, n) /\ Readable(g) /\ g.ts = panel.last
             /\ Readable(f) => IsPrefix(f.history, g.history)
  OBVIOUS
<1>1. f \in AllFiles /\ (Readable(f) => f \in States /\ Sound(f, n))
  BY KindOfFile DEF SoundFile
<1>2. CASE ~Readable(f)
  <2>1. g = Initialized(panel, book)
    BY <1>2 DEF Record
  <2> HIDE DEF g
  <2>2. g \in States /\ Sound(g, n) /\ g.ts = panel.last
    BY <2>1, InitializedSound
  <2>3. g \in AllFiles
    BY <2>2 DEF AllFiles
  <2> QED
    BY <1>2, <2>2, <2>3, KindOfFile DEF SoundFile
<1>3. CASE Readable(f) /\ panel.last = f.ts
  <2>1. g = f
    BY <1>3 DEF Record
  <2> HIDE DEF g
  <2>2. f.history \in Seq(Entries)
    BY <1>1, <1>3, StateFields
  <2>3. IsPrefix(f.history, f.history)
    BY <2>2 DEF IsPrefix
  <2> QED
    BY <1>3, <2>1, <2>3 DEF SoundFile
<1>4. CASE Readable(f) /\ panel.last # f.ts
  <2>1. g = Updated(f, panel, book, carry)
    BY <1>4 DEF Record
  <2> HIDE DEF g
  <2>2. g \in States /\ Sound(g, n) /\ g.ts = panel.last /\ IsPrefix(f.history, g.history)
    BY <1>1, <1>4, <2>1, UpdatedSound
  <2>3. g \in AllFiles
    BY <2>2 DEF AllFiles
  <2> QED
    BY <2>2, <2>3, KindOfFile DEF SoundFile
<1> QED
  BY <1>2, <1>3, <1>4

\* A file that is sound for a slot is sound for a later one.
LEMMA LaterSound ==
  ASSUME NEW n \in Slots, NEW m \in Slots, n <= m, NEW f, SoundFile(f, n)
  PROVE  SoundFile(f, m)
<1>1. n \in Nat /\ m \in Nat /\ Day(n) \in Nat /\ Day(m) \in Nat /\ Day(n) <= Day(m)
  BY SlotDay, DayGrows
<1>2. ASSUME Readable(f) PROVE Sound(f, m)
  <2>1. f \in States /\ Sound(f, n)
    BY <1>2, KindOfFile DEF SoundFile
  <2>2. f.history \in Seq(Entries) /\ f.ts \in Int
    BY <2>1, StateFields DEF Days
  <2>3. Len(f.history) \in 1..Len(f.history)
    BY <2>1, <2>2 DEF Sound
  <2>4. Newest(f).at \in Nat
    BY <2>2, <2>3, EntryTypes, SlotDay DEF Newest
  <2>5. Newest(f).at <= m /\ f.ts <= Day(m)
    BY <1>1, <2>1, <2>2, <2>4 DEF Sound
  <2> QED
    BY <2>1, <2>5 DEF Sound
<1> QED
  BY <1>2 DEF SoundFile

-----------------------------------------------------------------------------
(* The local date, the last bar and the UTC date.                          *)

LEMMA ProductNat == ASSUME NEW a \in Nat, NEW b \in Nat PROVE a * b \in Nat
BY SMT

LEMMA ProductMonotone ==
  ASSUME NEW a \in Nat, NEW b \in Nat, a <= b, NEW c \in Nat PROVE a * c <= b * c
BY SMT

\* The day of a slot, and the day after.
LEMMA DayBounds ==
  ASSUME NEW t \in Nat
  PROVE  LET d == Day(t)
         IN d \in Nat /\ d * Payments \in Nat /\ d * Payments <= t /\ t < d * Payments + Payments
<1>1. Payments \in Nat \ {0}
  BY CalendarAssumption
<1>2. t \div Payments \in Nat /\ Payments * (t \div Payments) <= t
      /\ t < Payments * (t \div Payments) + Payments
  BY <1>1, SMT
<1>3. Payments * (t \div Payments) = (t \div Payments) * Payments
  BY <1>1, <1>2, SMT
<1> QED
  BY <1>1, <1>2, <1>3, ProductNat DEF Day

LEMMA NextDay ==
  ASSUME NEW t \in Nat, NEW u \in Nat, u <= t + Payments
  PROVE  Day(u) <= Day(t) + 1
<1> DEFINE d == Day(t)
           e == Day(u)
<1>1. /\ Payments \in Nat \ {0} /\ d \in Nat /\ e \in Nat
      /\ e * Payments \in Nat /\ d * Payments \in Nat
      /\ e * Payments <= u /\ t < d * Payments + Payments
  BY DayBounds, CalendarAssumption
<1> SUFFICES ASSUME d + 2 <= e PROVE FALSE
  BY <1>1
<1> HIDE DEF d, e
<1>2. (d + 2) * Payments <= e * Payments
  BY <1>1, ProductMonotone
<1>3. (d + 2) * Payments = d * Payments + Payments + Payments
  BY <1>1, SMT
<1> QED
  BY <1>1, <1>2, <1>3

\* The last close a script fetches in slot n that began in slot b.
CloseOf(b, n) == Close(Day(b - LocalEnd), n)

LEMMA CloseType ==
  ASSUME NEW b \in Slots, LocalEnd <= b, NEW n \in Slots
  PROVE  /\ CloseOf(b, n) \in Slots /\ CloseOf(b, n) <= n
         /\ b - LocalEnd \in Nat
<1>1. b \in Nat /\ n \in Nat /\ LocalEnd \in Int /\ Payments \in Nat \ {0}
  BY SlotDay, CalendarAssumption, LocalEndAssumption
<1>2. b - LocalEnd \in Nat
  BY <1>1
<1> DEFINE d == Day(b - LocalEnd)
           e == (d + 1) * Payments
<1>3. d \in Nat
  BY <1>2, DayType
<1>4. e \in Nat /\ e >= 1
  <2> HIDE DEF d
  <2>1. e = d * Payments + Payments /\ d * Payments \in Nat
    BY <1>1, <1>3, SMT
  <2> QED
    BY <1>1, <2>1
<1>5. CloseOf(b, n) = IF n < e THEN n ELSE e - 1
  BY DEF CloseOf, Close
<1> HIDE DEF e, d
<1> QED
  BY <1>1, <1>2, <1>4, <1>5, CalendarAssumption DEF Slots

LEMMA CloseGrows ==
  ASSUME NEW b \in Slots, NEW c \in Slots, LocalEnd <= b, b <= c,
         NEW n \in Slots, NEW m \in Slots, n <= m
  PROVE  CloseOf(b, n) <= CloseOf(c, m)
<1>1. /\ b \in Nat /\ c \in Nat /\ n \in Nat /\ m \in Nat
      /\ LocalEnd \in Int /\ Payments \in Nat \ {0}
  BY SlotDay, CalendarAssumption, LocalEndAssumption
<1>2. b - LocalEnd \in Nat /\ c - LocalEnd \in Nat /\ b - LocalEnd <= c - LocalEnd
  BY <1>1
<1> DEFINE d == Day(b - LocalEnd)
           g == Day(c - LocalEnd)
           e == (d + 1) * Payments
           f == (g + 1) * Payments
<1>3. d \in Nat /\ g \in Nat /\ d <= g
  BY <1>2, DayType, DayGrows
<1>4. e \in Nat /\ f \in Nat /\ e <= f
  <2> HIDE DEF d, g
  <2> QED
    BY <1>1, <1>3, ProductNat, ProductMonotone
<1>5. /\ CloseOf(b, n) = IF n < e THEN n ELSE e - 1
      /\ CloseOf(c, m) = IF m < f THEN m ELSE f - 1
  BY DEF CloseOf, Close
<1> HIDE DEF e, f
<1> QED
  BY <1>1, <1>4, <1>5

\* However late in the attempt, the last bar is at most a day behind.
LEMMA CloseIsNear ==
  ASSUME NEW b \in Slots, LocalEnd <= b, NEW n \in Slots, n <= b + 1,
         NEW c \in Slots, CloseOf(b, b) <= c
  PROVE  Day(n) - 1 <= Day(c)
<1>1. /\ b \in Nat /\ n \in Nat /\ c \in Nat /\ LocalEnd \in Int
      /\ Payments \in Nat \ {0} /\ LocalEnd <= Payments - 1
  BY SlotDay, CalendarAssumption, LocalEndAssumption
<1>2. b - LocalEnd \in Nat
  BY <1>1
<1> DEFINE d == Day(b - LocalEnd)
           e == (d + 1) * Payments
<1>3. d \in Nat /\ d * Payments \in Nat /\ b - LocalEnd < d * Payments + Payments
  BY <1>2, DayBounds
<1>4. e = d * Payments + Payments
  BY <1>1, <1>3, SMT
<1>5. CloseOf(b, b) = IF b < e THEN b ELSE e - 1
  BY DEF CloseOf, Close
<1> HIDE DEF d, e
<1>6. n <= c + Payments
  BY <1>1, <1>3, <1>4, <1>5
<1>7. Day(n) \in Nat /\ Day(c) \in Nat /\ Day(n) <= Day(c) + 1
  BY <1>1, <1>6, NextDay, DayType
<1> QED
  BY <1>7

-----------------------------------------------------------------------------
(* The invariant of the task.                                              *)

Types ==
  /\ now \in Slots /\ halted \subseteq Majors /\ pc \in Stages /\ tries \in 0..Restarts
  /\ spot \in Panels /\ perp \in Bars /\ fund \in Funding /\ faults \in 0..MaxFaults
  /\ began \in Slots /\ LocalEnd <= began /\ began <= now

\* The stages of a script that has its spot panel.
HasPanel == {"perp", "funding", "alpha", "two", "status", "ok"}

\* An attempt ends in the slot it began in or in the next, and its panel closes
\* no earlier than when it began and no later than now.
Fetched ==
  /\ pc \in Running \cup {"ok"} => now <= began + 1
  /\ pc \in HasPanel =>
       /\ CloseOf(began, began) <= spot.at /\ spot.at <= CloseOf(began, now)
       /\ spot.last = Day(spot.at)
       /\ \A s \in Coins : spot.seen[s] \in {spot.at, Never}

\* The latest close an account can have been marked with.
Latest ==
  IF pc = "spot" THEN CloseOf(began, began)
  ELSE IF pc \in HasPanel THEN spot.at ELSE CloseOf(now, now)

FilesInv ==
  files = [a \in Accounts |-> files[a]] /\ \A a \in Accounts : SoundFile(files[a], Latest)

IsMarked(a) == Readable(files[a]) /\ files[a].ts = spot.last

\* The steps that are done have marked their account with the panel's prices,
\* and a task that ended well left both accounts fresh.
MarkedSoFar ==
  /\ pc \in {"two", "status", "ok"} => IsMarked("alpha")
  /\ pc \in {"status", "ok"} => IsMarked("two")
  /\ pc = "ok" => \A a \in Accounts : Health(files[a], Today) = "OK"

WeeklyInv == Types /\ FilesInv /\ Fetched /\ MarkedSoFar

LEMMA WeeklyInit == Init => WeeklyInv
<1> SUFFICES ASSUME Init PROVE WeeklyInv
  OBVIOUS
<1>1. now \in Slots /\ LocalEnd <= now /\ 0 \in Slots
  BY CalendarAssumption, LocalEndAssumption DEF Init, Slots
<1>2. 0 \in Days
  BY CalendarAssumption, DayType DEF Days
<1>3. began = now /\ began <= now
  BY <1>1 DEF Init, Slots
<1>4. Types
  BY <1>1, <1>2, <1>3, RestartsAssumption, MaxFaultsAssumption
     DEF Init, Types, Stages, Panels, Bars, Funding
<1>5. FilesInv
  BY KindOfFile DEF Init, FilesInv, SoundFile, AllFiles
<1> QED
  BY <1>4, <1>5 DEF Init, WeeklyInv, Fetched, MarkedSoFar, HasPanel, Running

LEMMA ClockTypes ==
  ASSUME Types
  PROVE  /\ now \in Nat /\ began \in Nat /\ Today \in Nat /\ Today \in Days
         /\ LocalEnd <= now
         /\ LastClose = CloseOf(began, now) /\ LastClose \in Slots /\ Day(LastClose) \in Days
<1>1. now \in Slots /\ began \in Slots /\ LocalEnd <= began /\ began <= now
  BY DEF Types
<1>2. LastClose = CloseOf(began, now)
  BY DEF LastClose, CloseOf, EndDate
<1>3. LastClose \in Slots
  BY <1>1, <1>2, CloseType
<1>4. /\ now \in Nat /\ began \in Nat /\ Today \in Nat /\ Today \in Days
      /\ Day(LastClose) \in Days
  BY <1>1, <1>3, SlotDay DEF Today
<1> QED
  BY <1>1, <1>2, <1>3, <1>4, LocalEndAssumption, CalendarAssumption

\* What a fetch leaves is a panel, a set of bars and a set of payments.
LEMMA FetchTypes ==
  ASSUME Types, NEW gone
  PROVE  /\ [last |-> Day(LastClose), at |-> LastClose,
             seen |-> [s \in Coins |-> IF s \in gone THEN Never ELSE LastClose]] \in Panels
         /\ [m \in Majors |-> IF m \in gone THEN Never
                              ELSE IF m \in halted THEN perp[m] ELSE Day(LastClose)] \in Bars
         /\ [m \in Majors |-> IF m \in gone THEN Never
                              ELSE IF m \in halted THEN fund[m] ELSE LastPayment] \in Funding
<1>1. LastClose \in Slots /\ Day(LastClose) \in Days
  BY ClockTypes
<1>2. LastPayment \in Slots \cup {Never}
  <2> DEFINE d == EndDate * Payments
             t == d + LocalEnd
  <2>1. /\ began \in Slots /\ began \in Nat /\ LocalEnd <= began
        /\ LocalEnd \in Int /\ LastSlot \in Nat
    BY ClockTypes, CalendarAssumption, LocalEndAssumption DEF Types
  <2>2. began - LocalEnd \in Nat
    BY <2>1
  <2>3. d \in Nat /\ d <= began - LocalEnd
    BY <2>2, DayBounds DEF EndDate
  <2>4. LastPayment = IF t < 0 THEN Never ELSE t
    BY DEF LastPayment
  <2> HIDE DEF d
  <2> QED
    BY <2>1, <2>3, <2>4 DEF Slots
<1> QED
  BY <1>1, <1>2 DEF Types, Panels, Bars, Funding

LEMMA TypesNext == ASSUME Types, [Next]_vars PROVE Types'
<1>1. CASE Start \/ FetchFails \/ AlphaRaises \/ TwoRaises \/ Killed
  BY <1>1, ClockTypes, MaxFaultsAssumption DEF Start, FetchFails, AlphaRaises, TwoRaises, Killed, Types, Fault, NoFault, Stages,
              Running, data
<1>2. CASE StartByHand
  BY <1>2, ClockTypes, MaxFaultsAssumption, RestartsAssumption
     DEF StartByHand, Types, Fault, Stages, Running, data
<1>3. CASE FetchSpot
  <2>1. PICK gone \in SUBSET Coins :
          /\ Skipping(gone)
          /\ spot' = [last |-> Day(LastClose), at |-> LastClose,
                      seen |-> [s \in Coins |-> IF s \in gone THEN Never ELSE LastClose]]
    BY <1>3 DEF FetchSpot
  <2>2. spot' \in Panels
    BY <2>1, FetchTypes
  <2> QED
    BY <1>3, <2>1, <2>2, MaxFaultsAssumption DEF FetchSpot, Types, Skipping, Fault, NoFault, Stages, Running
<1>4. CASE FetchPerp
  <2>1. PICK gone \in SUBSET Majors :
          /\ Skipping(gone)
          /\ perp' = [m \in Majors |->
               IF m \in gone THEN Never ELSE IF m \in halted THEN perp[m] ELSE Day(LastClose)]
    BY <1>4 DEF FetchPerp
  <2>2. perp' \in Bars
    BY <2>1, FetchTypes
  <2> QED
    BY <1>4, <2>1, <2>2, MaxFaultsAssumption DEF FetchPerp, Types, Skipping, Fault, NoFault, Stages, Running
<1>5. CASE FetchFunding
  <2>1. PICK gone \in SUBSET Majors :
          /\ Skipping(gone)
          /\ fund' = [m \in Majors |->
               IF m \in gone THEN Never ELSE IF m \in halted THEN fund[m] ELSE LastPayment]
    BY <1>5 DEF FetchFunding
  <2>2. fund' \in Funding
    BY <2>1, FetchTypes
  <2> QED
    BY <1>5, <2>1, <2>2, MaxFaultsAssumption DEF FetchFunding, Types, Skipping, Fault, NoFault, Stages, Running
<1>6. CASE MarkAlpha \/ MarkTwo \/ Status
  BY <1>6 DEF MarkAlpha, MarkTwo, Status, Types, NoFault, Stages, Running, data
<1>7. CASE KilledInSave
  BY <1>7, MaxFaultsAssumption DEF KilledInSave, Types, Fault, Stages, data
<1>8. CASE Restart
  BY <1>8, ClockTypes, RestartsAssumption DEF Restart, Types, NoFault, Stages, Running, data
<1>9. CASE \E a \in Accounts : Archive(a)
  BY <1>9 DEF Archive, Types, NoFault, data
<1>10. CASE Halt
  BY <1>10, MaxFaultsAssumption DEF Halt, Types, Fault, data
<1>11. CASE Tick \/ Miss \/ Slow
  <2>1. now < LastSlot /\ now' = now + 1 /\ began' = began
    BY <1>11 DEF Tick, Miss, Slow
  <2>2. now' \in Slots /\ began <= now'
    BY <2>1, CalendarAssumption DEF Types, Slots
  <2> QED
    BY <1>11, <2>1, <2>2, MaxFaultsAssumption, RestartsAssumption DEF Tick, Miss, Slow, Types, Fault, NoFault, Stages, data
<1>12. CASE UNCHANGED vars
  BY <1>12 DEF vars, data, Types
<1> QED
  BY <1>1, <1>2, <1>3, <1>4, <1>5, <1>6, <1>7, <1>8, <1>9, <1>10, <1>11, <1>12
     DEF Next, Script, Scheduler, Environment

\* A mark leaves a sound file of the panel's day whose history has at most grown.
LEMMA MarkSound ==
  ASSUME WeeklyInv, NEW a \in Accounts, pc \in Accounts, NEW book \in SignalBooks,
         NEW carry, Readable(files[a]) => carry \subseteq CarryOf(files[a])
  PROVE  LET g == Record(files[a], spot, book, carry)
         IN  /\ SoundFile(g, spot.at) /\ Readable(g) /\ g.ts = spot.last
             /\ Readable(files[a]) => IsPrefix(files[a].history, g.history)
<1>1. pc \in HasPanel /\ pc # "spot"
  BY DEF Accounts, HasPanel
<1>2. /\ spot \in Panels /\ SoundFile(files[a], spot.at)
      /\ spot.last = Day(spot.at) /\ \A s \in Coins : spot.seen[s] \in {spot.at, Never}
  BY <1>1 DEF WeeklyInv, Types, FilesInv, Fetched, Latest
<1>3. spot.at \in Slots
  BY <1>2 DEF Panels
<1>4. book \in SUBSET Coins
  BY BooksAssumption DEF SignalBooks, Priced
<1>5. Readable(files[a]) => \A t \in carry : files[a].ts < Day(t) /\ Day(t) <= spot.last
  <2> SUFFICES ASSUME Readable(files[a]), NEW t \in carry
               PROVE  files[a].ts < Day(t) /\ Day(t) <= spot.last
    OBVIOUS
  <2>1. t \in RealisedCarry(files[a].ts, spot, perp, fund)
    BY DEF CarryOf
  <2> QED
    BY <2>1, CarryLater
<1> QED
  BY <1>2, <1>3, <1>4, <1>5, RecordSound

\* The steps that leave the clocks and the panel alone.
Quiet == now' = now /\ began' = began /\ spot' = spot

LEMMA QuietSteps ==
  /\ FetchPerp \/ FetchFunding \/ FetchFails \/ MarkAlpha \/ AlphaRaises \/ MarkTwo
     \/ TwoRaises \/ Status \/ Killed \/ KilledInSave \/ Halt => Quiet
  /\ \A a \in Accounts : Archive(a) => Quiet
  /\ UNCHANGED vars => Quiet
BY DEF FetchPerp, FetchFunding, FetchFails, MarkAlpha, AlphaRaises, MarkTwo, TwoRaises,
   Status, Killed, KilledInSave, Halt, Archive, Quiet, vars, data

\* Where the script goes.
LEMMA StageSteps ==
  /\ FetchPerp => pc = "perp" /\ pc' = "funding"
  /\ FetchFunding => pc = "funding" /\ pc' = "alpha"
  /\ MarkAlpha => pc = "alpha" /\ pc' = "two"
  /\ MarkTwo => pc = "two" /\ pc' = "status"
  /\ Status => pc = "status" /\ pc' \in {"ok", "failed"}
  /\ FetchFails \/ AlphaRaises \/ TwoRaises \/ Killed \/ KilledInSave =>
       pc \in Running /\ pc' = "failed"
  /\ Halt \/ UNCHANGED vars => pc' = pc
  /\ \A a \in Accounts : Archive(a) => pc' = pc
BY DEF FetchPerp, FetchFunding, FetchFails, MarkAlpha, AlphaRaises, MarkTwo, TwoRaises,
   Status, Killed, KilledInSave, Halt, Archive, vars, Running, Accounts

\* No step takes the latest close back.
LEMMA LatestNext ==
  ASSUME WeeklyInv, [Next]_vars
  PROVE  Latest \in Slots /\ Latest' \in Slots /\ Latest <= Latest'
<1>1. /\ now \in Slots /\ began \in Slots /\ LocalEnd <= began /\ began <= now
      /\ now' \in Slots /\ began' \in Slots /\ LocalEnd <= began' /\ began' <= now'
      /\ spot.at \in Slots /\ spot'.at \in Slots
      /\ LocalEnd <= now /\ LocalEnd <= now'
      /\ now \in Nat /\ now' \in Nat /\ began \in Nat
  <2>1. Types /\ Types'
    BY TypesNext DEF WeeklyInv
  <2>2. /\ now \in Slots /\ began \in Slots /\ LocalEnd <= began /\ began <= now
        /\ now' \in Slots /\ began' \in Slots /\ LocalEnd <= began' /\ began' <= now'
        /\ spot \in Panels /\ spot' \in Panels
    BY <2>1 DEF Types
  <2>3. now \in Nat /\ now' \in Nat /\ began \in Nat /\ began' \in Nat /\ LocalEnd \in Int
    BY <2>2, SlotDay, LocalEndAssumption, CalendarAssumption
  <2>4. LocalEnd <= now /\ LocalEnd <= now'
    BY <2>2, <2>3
  <2> QED
    BY <2>2, <2>3, <2>4 DEF Panels
<1> DEFINE bb == CloseOf(began, began)
           bn == CloseOf(began, now)
           nn == CloseOf(now, now)
<1>2. /\ bb \in Slots /\ bn \in Slots /\ nn \in Slots
      /\ bb <= bn /\ bn <= nn /\ bb \in Nat /\ bn \in Nat /\ nn \in Nat /\ spot.at \in Nat
  <2>1. began <= began /\ now <= now
    BY <1>1
  <2>2. bb \in Slots /\ bn \in Slots /\ nn \in Slots /\ bb <= bn /\ bn <= nn
    BY <1>1, <2>1, CloseType, CloseGrows
  <2> QED
    BY <1>1, <2>2, SlotDay
<1>3. pc \in HasPanel => bb <= spot.at /\ spot.at <= bn
  BY DEF WeeklyInv, Fetched
<1>4. now <= now' => CloseOf(now, now) <= CloseOf(now', now') /\ CloseOf(now', now') \in Slots
  BY <1>1, CloseType, CloseGrows
<1> HIDE DEF bb, bn, nn
<1>5. /\ Latest \in Slots /\ Latest \in Nat /\ Latest <= nn
      /\ Latest = IF pc = "spot" THEN bb ELSE IF pc \in HasPanel THEN spot.at ELSE nn
  <2>1. Latest = IF pc = "spot" THEN bb ELSE IF pc \in HasPanel THEN spot.at ELSE nn
    BY DEF Latest, bb, nn
  <2> QED
    BY <1>1, <1>2, <1>3, <2>1
<1>6. ASSUME Quiet
      PROVE  Latest' = IF pc' = "spot" THEN bb ELSE IF pc' \in HasPanel THEN spot.at ELSE nn
  BY <1>6 DEF Quiet, Latest, bb, nn
<1>7. CASE Quiet /\ (pc' = pc \/ pc' = "failed")
  BY <1>1, <1>2, <1>5, <1>6, <1>7 DEF HasPanel
<1>8. CASE Quiet /\ pc \in HasPanel /\ pc' \in HasPanel
  BY <1>1, <1>2, <1>5, <1>6, <1>8 DEF HasPanel
<1>9. CASE Start \/ StartByHand \/ Restart
  <2>1. pc \notin HasPanel /\ pc # "spot" /\ pc' = "spot" /\ began' = now /\ now' = now
    BY <1>9 DEF Start, StartByHand, Restart, HasPanel
  <2>2. Latest' = nn
    BY <2>1 DEF Latest, nn
  <2> QED
    BY <1>2, <1>5, <2>1, <2>2
<1>10. CASE FetchSpot
  <2>1. pc = "spot" /\ pc' = "perp" /\ spot'.at = LastClose
    BY <1>10 DEF FetchSpot
  <2>2. LastClose = bn
    BY ClockTypes DEF WeeklyInv, bn
  <2>3. Latest' = bn
    BY <2>1, <2>2 DEF Latest, HasPanel
  <2> QED
    BY <1>2, <1>5, <2>1, <2>3
<1>11. CASE Tick \/ Miss \/ (Slow /\ pc \notin Running)
  <2>1. /\ now' = now + 1 /\ pc' \notin HasPanel /\ pc' # "spot"
    BY <1>11 DEF Tick, Miss, Slow, HasPanel, Running
  <2>2. Latest' = CloseOf(now', now')
    BY <2>1 DEF Latest
  <2>3. nn <= CloseOf(now', now') /\ CloseOf(now', now') \in Slots
    BY <1>1, <1>4, <2>1 DEF nn
  <2>4. CloseOf(now', now') \in Nat
    BY <2>3, SlotDay
  <2> QED
    BY <1>2, <1>5, <2>2, <2>3, <2>4
<1>12. CASE Slow /\ pc \in Running
  <2>1. pc' = pc /\ began' = began /\ spot' = spot /\ (pc = "spot" \/ pc \in HasPanel)
    BY <1>12 DEF Slow, Running, HasPanel, data
  <2>2. Latest' = IF pc = "spot" THEN bb ELSE IF pc \in HasPanel THEN spot.at ELSE nn
    BY <2>1 DEF Latest, bb
  <2> QED
    BY <1>5, <2>1, <2>2
<1>13. CASE \/ FetchPerp \/ FetchFunding \/ MarkAlpha \/ MarkTwo
  BY <1>8, <1>13, QuietSteps, StageSteps DEF HasPanel
<1>14. CASE Status
  BY <1>7, <1>8, <1>14, QuietSteps, StageSteps DEF HasPanel
<1>15. CASE \/ FetchFails \/ AlphaRaises \/ TwoRaises \/ Killed \/ KilledInSave \/ Halt
            \/ UNCHANGED vars \/ \E a \in Accounts : Archive(a)
  BY <1>7, <1>15, QuietSteps, StageSteps
<1> QED
  BY <1>9, <1>10, <1>11, <1>12, <1>13, <1>14, <1>15 DEF Next, Script, Scheduler, Environment

\* What a step may do to the state files: mark one for today, cut one off,
\* archive one, or nothing.
LEMMA FilesNext ==
  ASSUME WeeklyInv, [Next]_vars
  PROVE  /\ FilesInv'
         /\ \A a \in Accounts :
              Readable(files'[a]) =>
                /\ files[a] # Torn
                /\ Readable(files[a]) => IsPrefix(files[a].history, files'[a].history)
<1>1. /\ Latest \in Slots /\ Latest' \in Slots /\ Latest <= Latest'
      /\ files = [a \in Accounts |-> files[a]]
      /\ \A a \in Accounts : SoundFile(files[a], Latest)
  BY LatestNext DEF WeeklyInv, FilesInv
<1>2. \A a \in Accounts : /\ files[a] \in AllFiles
                          /\ Readable(files[a]) => files[a] # Torn
                          /\ Readable(files[a]) => files[a].history \in Seq(Entries)
  BY <1>1, KindOfFile, StateFields DEF SoundFile
<1>3. \A a \in Accounts : Readable(files[a]) => IsPrefix(files[a].history, files[a].history)
  BY <1>2 DEF IsPrefix
<1>4. ASSUME NEW a \in Accounts, NEW g, SoundFile(g, Latest),
             files' = [files EXCEPT ![a] = g],
             Readable(g) => /\ files[a] # Torn
                            /\ Readable(files[a]) => IsPrefix(files[a].history, g.history)
      PROVE  /\ FilesInv'
             /\ \A b \in Accounts :
                  Readable(files'[b]) =>
                    /\ files[b] # Torn
                    /\ Readable(files[b]) => IsPrefix(files[b].history, files'[b].history)
  <2>1. \A b \in Accounts : files'[b] = IF b = a THEN g ELSE files[b]
    BY <1>1, <1>4
  <2>2. files' = [b \in Accounts |-> files'[b]]
    BY <1>1, <1>4
  <2>3. \A b \in Accounts : SoundFile(files'[b], Latest')
    BY <1>1, <1>4, <2>1, LaterSound
  <2> QED
    BY <1>1, <1>2, <1>3, <1>4, <2>1, <2>2, <2>3 DEF FilesInv
<1>5. CASE files' = files
  <2>1. \A a \in Accounts : SoundFile(files'[a], Latest')
    BY <1>1, <1>5, LaterSound
  <2> QED
    BY <1>1, <1>2, <1>3, <1>5, <2>1 DEF FilesInv
<1>6. CASE MarkAlpha
  <2>1. PICK book \in SignalBooks :
          files' = [files EXCEPT !["alpha"] = Record(@, spot, book, {})]
    BY <1>6 DEF MarkAlpha
  <2> DEFINE g == Record(files["alpha"], spot, book, {})
  <2>2. /\ pc \in Accounts /\ "alpha" \in Accounts /\ files["alpha"] # Torn
        /\ Latest = spot.at
    BY <1>6 DEF MarkAlpha, Accounts, RecordRaises, LoadRaises, Latest, HasPanel
  <2>3. /\ SoundFile(g, Latest)
        /\ Readable(files["alpha"]) => IsPrefix(files["alpha"].history, g.history)
    BY <2>2, MarkSound
  <2>4. files' = [files EXCEPT !["alpha"] = g]
    BY <2>1
  <2> HIDE DEF g
  <2> QED
    BY <1>4, <2>2, <2>3, <2>4
<1>7. CASE MarkTwo
  <2>1. PICK book \in SignalBooks :
          files' = [files EXCEPT !["two"] = Record(@, spot, book, CarryOf(@))]
    BY <1>7 DEF MarkTwo
  <2> DEFINE g == Record(files["two"], spot, book, CarryOf(files["two"]))
  <2>2. /\ pc \in Accounts /\ "two" \in Accounts /\ files["two"] # Torn
        /\ Latest = spot.at
    BY <1>7 DEF MarkTwo, Accounts, RecordRaises, LoadRaises, Latest, HasPanel
  <2>3. /\ SoundFile(g, Latest)
        /\ Readable(files["two"]) => IsPrefix(files["two"].history, g.history)
    BY <2>2, MarkSound
  <2>4. files' = [files EXCEPT !["two"] = g]
    BY <2>1
  <2> HIDE DEF g
  <2> QED
    BY <1>4, <2>2, <2>3, <2>4
<1>8. CASE KilledInSave
  <2>1. pc \in Accounts /\ files' = [files EXCEPT ![pc] = Torn]
    BY <1>8 DEF KilledInSave
  <2>2. SoundFile(Torn, Latest) /\ ~Readable(Torn)
    BY KindOfFile DEF SoundFile, AllFiles
  <2> QED
    BY <1>4, <2>1, <2>2
<1>9. ASSUME NEW a \in Accounts, Archive(a)
      PROVE  FilesInv' /\ \A b \in Accounts :
                            Readable(files'[b]) =>
                              /\ files[b] # Torn
                              /\ Readable(files[b]) => IsPrefix(files[b].history, files'[b].history)
  <2>1. files' = [files EXCEPT ![a] = NoFile]
    BY <1>9 DEF Archive
  <2>2. SoundFile(NoFile, Latest) /\ ~Readable(NoFile)
    BY KindOfFile DEF SoundFile, AllFiles
  <2> QED
    BY <1>4, <2>1, <2>2
<1>10. CASE \/ Start \/ StartByHand \/ FetchSpot \/ FetchPerp \/ FetchFunding \/ FetchFails
            \/ AlphaRaises \/ TwoRaises \/ Status \/ Killed \/ Restart \/ Halt \/ Tick \/ Miss
            \/ Slow \/ UNCHANGED vars
  BY <1>5, <1>10 DEF Start, StartByHand, FetchSpot, FetchPerp, FetchFunding, FetchFails,
     AlphaRaises, TwoRaises, Status, Killed, Restart, Halt, Tick, Miss, Slow, vars
<1> QED
  BY <1>6, <1>7, <1>8, <1>9, <1>10 DEF Next, Script, Scheduler, Environment

\* The panel in hand stays the one that was fetched, in time.
LEMMA FetchedNext == ASSUME WeeklyInv, [Next]_vars PROVE Fetched'
<1>1. /\ now \in Slots /\ began \in Slots /\ LocalEnd <= began /\ began <= now
      /\ now \in Nat /\ began \in Nat /\ began <= began
  BY ClockTypes DEF WeeklyInv, Types
<1>2. CASE Start \/ StartByHand \/ Restart
  BY <1>1, <1>2 DEF Start, StartByHand, Restart, Fetched, HasPanel
<1>3. CASE FetchSpot
  <2>1. /\ pc = "spot" /\ pc' = "perp" /\ now' = now /\ began' = began
        /\ spot'.at = LastClose /\ spot'.last = Day(LastClose)
        /\ \A s \in Coins : spot'.seen[s] \in {LastClose, Never}
    BY <1>3 DEF FetchSpot
  <2>2. LastClose = CloseOf(began, now) /\ LastClose \in Nat
    BY ClockTypes, SlotDay DEF WeeklyInv
  <2>3. CloseOf(began, began) <= CloseOf(began, now)
    BY <1>1, CloseGrows
  <2>4. now <= began + 1
    BY <2>1 DEF WeeklyInv, Fetched, Running
  <2> QED
    BY <2>1, <2>2, <2>3, <2>4 DEF Fetched
<1>4. CASE Tick \/ Miss \/ (Slow /\ pc \notin Running)
  BY <1>4 DEF Tick, Miss, Slow, Fetched, HasPanel, Running
<1>5. CASE Slow /\ pc \in Running
  <2>1. /\ pc' = pc /\ began' = began /\ spot' = spot /\ now' = now + 1 /\ now = began
        /\ now' \in Slots /\ pc # "ok"
    BY <1>5, TypesNext DEF Slow, data, WeeklyInv, Types, Running
  <2>2. CloseOf(began, now) <= CloseOf(began, now')
    BY <1>1, <2>1, CloseGrows
  <2>3. CASE pc \in HasPanel
    <3>1. CloseOf(began, now) \in Nat /\ CloseOf(began, now') \in Nat /\ spot.at \in Nat
      <4>1. CloseOf(began, now) \in Slots /\ CloseOf(began, now') \in Slots /\ spot.at \in Slots
        BY <1>1, <2>1, CloseType DEF WeeklyInv, Types, Panels
      <4> QED
        BY <4>1, SlotDay
    <3>2. /\ CloseOf(began, began) <= spot.at /\ spot.at <= CloseOf(began, now)
          /\ spot.last = Day(spot.at)
          /\ \A s \in Coins : spot.seen[s] \in {spot.at, Never}
      BY <2>3 DEF WeeklyInv, Fetched
    <3>3. spot.at <= CloseOf(began, now')
      BY <2>2, <3>1, <3>2
    <3> QED
      BY <1>1, <2>1, <3>2, <3>3 DEF Fetched
  <2>4. CASE pc \notin HasPanel
    BY <1>1, <2>1, <2>4 DEF Fetched
  <2> QED
    BY <2>3, <2>4
<1>6. CASE Quiet /\ (pc' = pc \/ pc' = "failed" \/ (pc \in HasPanel /\ pc' \in HasPanel))
  <2>1. pc' = "failed" => pc' \notin HasPanel \cup Running \cup {"ok"}
    BY DEF HasPanel, Running
  <2>2. /\ pc' # "failed" /\ pc' \in HasPanel => pc \in HasPanel
        /\ pc' # "failed" /\ pc' \in Running \cup {"ok"} => pc \in Running \cup {"ok"}
    BY <1>6 DEF HasPanel, Running
  <2> QED
    BY <1>6, <2>1, <2>2 DEF Quiet, WeeklyInv, Fetched
<1>7. CASE FetchPerp \/ FetchFunding \/ MarkAlpha \/ MarkTwo
  BY <1>6, <1>7, QuietSteps, StageSteps DEF HasPanel
<1>8. CASE Status
  BY <1>6, <1>8, QuietSteps, StageSteps DEF HasPanel
<1>9. CASE \/ FetchFails \/ AlphaRaises \/ TwoRaises \/ Killed \/ KilledInSave \/ Halt
           \/ UNCHANGED vars \/ \E a \in Accounts : Archive(a)
  BY <1>6, <1>9, QuietSteps, StageSteps
<1> QED
  BY <1>2, <1>3, <1>4, <1>5, <1>7, <1>8, <1>9 DEF Next, Script, Scheduler, Environment

LEMMA MarkedNext == ASSUME WeeklyInv, [Next]_vars PROVE MarkedSoFar'
<1>1. CASE \/ Start \/ StartByHand \/ FetchSpot \/ FetchPerp \/ FetchFunding \/ FetchFails
           \/ AlphaRaises \/ TwoRaises \/ Killed \/ KilledInSave \/ Restart \/ Tick \/ Miss
  BY <1>1 DEF Start, StartByHand, FetchSpot, FetchPerp, FetchFunding, FetchFails,
     AlphaRaises, TwoRaises, Killed, KilledInSave, Restart, Tick, Miss, MarkedSoFar
<1>2. CASE MarkAlpha
  <2>1. PICK book \in SignalBooks :
          files' = [files EXCEPT !["alpha"] = Record(@, spot, book, {})]
    BY <1>2 DEF MarkAlpha
  <2> DEFINE g == Record(files["alpha"], spot, book, {})
  <2>2. spot' = spot /\ pc \in Accounts /\ "alpha" \in Accounts /\ pc' = "two"
    BY <1>2 DEF MarkAlpha, Accounts, data
  <2>3. Readable(g) /\ g.ts = spot.last
    BY <2>2, MarkSound
  <2>4. files'["alpha"] = g
    BY <2>1, <2>2 DEF WeeklyInv, FilesInv
  <2> HIDE DEF g
  <2> QED
    BY <2>2, <2>3, <2>4 DEF MarkedSoFar, IsMarked
<1>3. CASE MarkTwo
  <2>1. PICK book \in SignalBooks :
          files' = [files EXCEPT !["two"] = Record(@, spot, book, CarryOf(@))]
    BY <1>3 DEF MarkTwo
  <2> DEFINE g == Record(files["two"], spot, book, CarryOf(files["two"]))
  <2>2. /\ spot' = spot /\ pc = "two" /\ pc \in Accounts /\ "two" \in Accounts
        /\ pc' = "status"
    BY <1>3 DEF MarkTwo, Accounts, data
  <2>3. Readable(g) /\ g.ts = spot.last
    BY <2>2, MarkSound
  <2>4. files'["two"] = g /\ files'["alpha"] = files["alpha"]
    BY <2>1, <2>2 DEF WeeklyInv, FilesInv, Accounts
  <2>5. IsMarked("alpha")
    BY <2>2 DEF WeeklyInv, MarkedSoFar
  <2> HIDE DEF g
  <2> QED
    BY <2>2, <2>3, <2>4, <2>5 DEF MarkedSoFar, IsMarked
<1>4. CASE Status
  <2>1. files' = files /\ now' = now /\ spot' = spot /\ pc = "status"
        /\ pc' = IF ExitCode({files[a] : a \in Accounts}, Today) = 0 THEN "ok" ELSE "failed"
    BY <1>4 DEF Status, data
  <2>2. IsMarked("alpha") /\ IsMarked("two")
    BY <2>1 DEF WeeklyInv, MarkedSoFar
  <2>3. pc' = "ok" => \A a \in Accounts : Health(files[a], Today) = "OK"
    BY <2>1 DEF ExitCode
  <2> QED
    BY <2>1, <2>2, <2>3 DEF MarkedSoFar, IsMarked, Today
<1>5. CASE Halt \/ UNCHANGED vars
  <2>1. files' = files /\ now' = now /\ spot' = spot /\ pc' = pc
    BY <1>5 DEF Halt, vars, data
  <2> QED
    BY <2>1 DEF WeeklyInv, MarkedSoFar, IsMarked, Today
<1>6. CASE Slow
  <2>1. files' = files /\ spot' = spot /\ pc' = pc /\ pc # "ok"
    BY <1>6 DEF Slow, data, Running
  <2> QED
    BY <2>1 DEF WeeklyInv, MarkedSoFar, IsMarked
<1>7. ASSUME NEW a \in Accounts, Archive(a) PROVE MarkedSoFar'
  <2>1. /\ pc' = pc /\ pc \notin Running /\ Health(files[a], Today) = "BROKEN"
    BY <1>7 DEF Archive
  <2>2. pc # "ok"
    BY <2>1 DEF WeeklyInv, MarkedSoFar
  <2> QED
    BY <2>1, <2>2 DEF MarkedSoFar, Running
<1> QED
  BY <1>1, <1>2, <1>3, <1>4, <1>5, <1>6, <1>7 DEF Next, Script, Scheduler, Environment

\* The state invariant, whatever goes wrong and however often: the prices of an
\* account's last mark were read when it was made, its history reaches back
\* from there, and the steps that are done have marked today.
THEOREM WeeklyInductive == Spec => []WeeklyInv
<1>1. WeeklyInv /\ [Next]_vars => WeeklyInv'
  <2> SUFFICES ASSUME WeeklyInv, [Next]_vars PROVE WeeklyInv'
    OBVIOUS
  <2>1. Types'
    BY TypesNext DEF WeeklyInv
  <2> QED
    BY <2>1, FilesNext, FetchedNext, MarkedNext DEF WeeklyInv
<1> QED
  BY <1>1, WeeklyInit, PTL DEF Spec

-----------------------------------------------------------------------------
(* The properties.                                                         *)

\* Types: an update never takes a count below zero.
\* (paper.py:164-239)
THEOREM WeeklyTypesCorrect == Spec => []TypeOK
<1>1. WeeklyInv => TypeOK
  BY DEF WeeklyInv, Types, FilesInv, SoundFile, AllFiles, TypeOK
<1> QED
  BY <1>1, WeeklyInductive, PTL

\* Nothing is credited twice, and each update takes up
\* where the last one stopped.  (paper.py:202-239, carry.py:196-212)
THEOREM CreditedOnceAlways == Spec => []CreditedOnce
<1>1. WeeklyInv => CreditedOnce
  BY DEF WeeklyInv, FilesInv, SoundFile, Sound, CreditedOnce
<1> QED
  BY <1>1, WeeklyInductive, PTL

\* Nothing is credited that was not earned.  (paper.py:206-221)
THEOREM EarnedOnlyAlways == Spec => []EarnedOnly
<1>1. WeeklyInv => EarnedOnly
  BY DEF WeeklyInv, FilesInv, SoundFile, Sound, EarnedOnly
<1> QED
  BY <1>1, WeeklyInductive, PTL

\* The forward record is never rewritten.  (paper.py:232-235 and 286-287)
THEOREM HistoryIntactAlways == Spec => HistoryIntact
<1>1. WeeklyInv /\ [Next]_vars =>
        \A a \in Accounts :
          Readable(files'[a]) =>
            /\ files[a] # Torn
            /\ Readable(files[a]) => IsPrefix(files[a].history, files'[a].history)
  <2> SUFFICES ASSUME WeeklyInv, [Next]_vars
               PROVE  \A a \in Accounts :
                        Readable(files'[a]) =>
                          /\ files[a] # Torn
                          /\ Readable(files[a]) => IsPrefix(files[a].history, files'[a].history)
    OBVIOUS
  <2> QED
    BY FilesNext
<1> QED
  BY <1>1, WeeklyInductive, PTL DEF Spec, HistoryIntact

\* The panel of a running script is of today or of the day before.
LEMMA PanelIsNear ==
  ASSUME WeeklyInv, pc \in HasPanel
  PROVE  /\ spot.last \in Nat /\ Today \in Nat
         /\ spot.last <= Today /\ Today - 1 <= spot.last
<1>1. /\ now \in Slots /\ began \in Slots /\ LocalEnd <= began /\ began <= now
      /\ now <= began + 1 /\ spot \in Panels
      /\ CloseOf(began, began) <= spot.at /\ spot.at <= CloseOf(began, now)
      /\ spot.last = Day(spot.at)
  BY DEF WeeklyInv, Types, Fetched, HasPanel, Running
<1>2. spot.at \in Slots
  BY <1>1 DEF Panels
<1>3. Today - 1 <= spot.last
  BY <1>1, <1>2, CloseIsNear DEF Today
<1>4. CloseOf(began, now) <= now /\ CloseOf(began, now) \in Slots
  BY <1>1, CloseType
<1>5. spot.at \in Nat /\ now \in Nat /\ CloseOf(began, now) \in Nat
      /\ Day(spot.at) \in Nat /\ Day(now) \in Nat
  BY <1>1, <1>2, <1>4, SlotDay
<1>6. spot.at <= now
  BY <1>1, <1>4, <1>5
<1>7. Day(spot.at) <= Day(now)
  BY <1>5, <1>6, DayGrows
<1> QED
  BY <1>1, <1>3, <1>5, <1>7 DEF Today

\* The tracker refuses no account but a BROKEN one, and each that is BROKEN for
\* more than a day, in every time zone and wherever in the day the task runs.
\* (paper.py:144-162, health.py:74-115, update_paper.ps1:23)
THEOREM RefusedWhenBrokenAlways == Spec => []RefusedWhenBroken
<1>1. ASSUME WeeklyInv, NEW a \in Accounts, pc \in {"alpha", "two"}
      PROVE  /\ RecordRaises(files[a], spot.last) => Health(files[a], Today) = "BROKEN"
             /\ Health(files[a], Today - 1) = "BROKEN" => RecordRaises(files[a], spot.last)
  <2>1. pc \in HasPanel
    BY <1>1 DEF HasPanel
  <2>2. /\ spot.last \in Nat /\ Today \in Nat /\ spot.last <= Today /\ Today - 1 <= spot.last
        /\ files[a] \in AllFiles /\ MaxGap \in Nat
    BY <1>1, <2>1, PanelIsNear, LadderAssumption DEF WeeklyInv, FilesInv, SoundFile
  <2>3. CASE Readable(files[a])
    <3>1. files[a].ts \in Int /\ files[a] # Torn /\ files[a] # NoFile
      BY <2>2, <2>3, KindOfFile, StateFields DEF Days
    <3>2. RecordRaises(files[a], spot.last) <=> spot.last - files[a].ts > MaxGap
      BY <2>3, <3>1 DEF RecordRaises, LoadRaises, CheckGapRefuses
    <3>3. \A d \in Int : Health(files[a], d) = "BROKEN" <=> d - files[a].ts > MaxGap
      BY <2>3, <3>1 DEF Health
    <3> QED
      BY <2>2, <3>1, <3>2, <3>3
  <2>4. CASE ~Readable(files[a])
    BY <2>2, <2>4, KindOfFile DEF RecordRaises, LoadRaises, CheckGapRefuses, Health
  <2> QED
    BY <2>3, <2>4
<1>2. WeeklyInv => RefusedWhenBroken
  BY <1>1 DEF RefusedWhenBroken
<1> QED
  BY <1>2, WeeklyInductive, PTL

\* A task that reports success has marked both accounts with the prices it has
\* fetched, and they are of today or the day before, in UTC.
\* (scripts/update_paper.ps1, health.py:155-161)
THEOREM SuccessMeansMarkedAlways == Spec => []SuccessMeansMarked
<1>1. ASSUME WeeklyInv, pc = "ok", NEW a \in Accounts
      PROVE  Readable(files[a]) /\ files[a].ts = spot.last /\ files[a].ts >= Today - 1
  <2>1. IsMarked(a)
    BY <1>1 DEF WeeklyInv, MarkedSoFar, Accounts
  <2>2. spot.last \in Nat /\ Today \in Nat /\ Today - 1 <= spot.last
    BY <1>1, PanelIsNear DEF HasPanel
  <2> QED
    BY <2>1, <2>2 DEF IsMarked
<1>2. WeeklyInv => SuccessMeansMarked
  BY <1>1 DEF SuccessMeansMarked
<1> QED
  BY <1>2, WeeklyInductive, PTL
=============================================================================
