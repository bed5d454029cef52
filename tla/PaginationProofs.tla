-------------------------- MODULE PaginationProofs --------------------------
(***************************************************************************)
(* Proofs about Pagination, for any list of symbols, page size, bar length *)
(* and history, and any exchange that goes on publishing.                  *)
(***************************************************************************)
EXTENDS Pagination, TLAPS

Assumptions ==
    /\ Symbols \subseteq Nat \ {0}
    /\ Kinds \subseteq {"klines", "funding", "collector"}
    /\ Step \in Nat \ {0}
    /\ Limit \in Nat \ {0}
    /\ Starts \subseteq Nat /\ Spans \subseteq Int
    /\ Now \in Nat /\ MaxTime \in Nat /\ MaxFaults \in Nat

LEMMA AssumptionsHold == Assumptions
BY SymbolsAssumption, KindsAssumption, StepAssumption, LimitAssumption,
   ArgumentsAssumption, BoundsAssumption
   DEF Assumptions

\* Two bars of a grid are at least a step apart.
LEMMA GridGap ==
    ASSUME NEW n \in Nat \ {0}, NEW a \in Nat, NEW b \in Nat,
           a % n = 0, b % n = 0, a < b
    PROVE  a + n <= b
<1> DEFINE i == a \div n
           j == b \div n
<1>1. i \in Nat /\ j \in Nat /\ a = n * i /\ b = n * j
  OBVIOUS
<1>2. i < j
  <2>1. CASE j <= i
    <3>1. PICK d \in Nat : i = j + d
      <4>1. i - j \in Nat /\ i = j + (i - j)
        BY <1>1, <2>1
      <4> QED
        BY <4>1
    <3>2. n * i = n * j + n * d /\ n * d \in Nat
      BY <1>1, <3>1
    <3> HIDE DEF i, j
    <3> QED
      BY <1>1, <3>2
  <2> HIDE DEF i, j
  <2> QED
    BY <1>1, <2>1
<1>3. PICK d \in Nat : j = i + 1 + d
  <2>1. j - i - 1 \in Nat /\ j = i + 1 + (j - i - 1)
    BY <1>1, <1>2
  <2> QED
    BY <2>1
<1>4. n * j = n * i + n + n * d /\ n * d \in Nat
  BY <1>1, <1>3
<1> HIDE DEF i, j
<1> QED
  BY <1>1, <1>4

-----------------------------------------------------------------------------
(***************************************************************************)
(* The inductive invariant.  That a loop misses nothing behind its cursor  *)
(* rests on what the exchange may still publish: only times that have not  *)
(* come, and the cursor is past nothing but the last record of a page.     *)
(***************************************************************************)
Dated ==
    \A s \in Symbols : \A t \in records[s] : t <= clock /\ Published(t, kind)

EndsKept ==
    /\ \A s \in Symbols : seen[s] <= clock
    /\ pc = "page" => end = ends[symbol]

CursorPast ==
    pc = "page" =>
        \/ cursor = start
        \/ \E t \in Nat : t <= clock /\ Published(t, kind) /\ cursor = Past(t)

InTurn ==
    /\ \A s \in waiting : panel[s] = {}
    /\ pc = "page" => symbol \notin waiting /\ start <= cursor

IInv ==
    TypeOK /\ Dated /\ EndsKept /\ CursorPast /\ InTurn /\ BehindCursor /\ PanelComplete

LEMMA InitIInv == Init => IInv
<1> SUFFICES ASSUME Init
             PROVE  IInv
  OBVIOUS
<1>1. clock \in Nat /\ records \in [Symbols -> SUBSET Nat] /\ start \in Nat
  BY AssumptionsHold DEF Init, Assumptions
<1>2. until \in Nat \cup {NoEnd}
  BY DEF Init
<1>3. TypeOK
  BY <1>1, <1>2, AssumptionsHold DEF Init, TypeOK, Assumptions, Stages
<1>4. Dated
  BY <1>1 DEF Init, Dated
<1>5. EndsKept /\ CursorPast /\ InTurn /\ BehindCursor /\ PanelComplete
  BY <1>1, <1>2 DEF Init, EndsKept, CursorPast, InTurn, BehindCursor, PanelComplete
<1> QED
  BY <1>3, <1>4, <1>5 DEF IInv

\* Time passes: what is published now is at or past the cursor of the loop, for
\* the cursor is at most one grid step past a record that was there.
LEMMA TickKeeps == IInv /\ Tick => IInv'
<1> SUFFICES ASSUME IInv, Tick
             PROVE  IInv'
  OBVIOUS
<1> USE DEF IInv
<1>1. PICK S \in SUBSET Symbols :
        /\ S # {} => Published(clock', kind)
        /\ records' = [s \in Symbols |->
                         IF s \in S THEN records[s] \cup {clock'} ELSE records[s]]
  BY DEF Tick
<1>2. clock \in Nat /\ clock' = clock + 1
  BY DEF Tick, TypeOK
<1>3. UNCHANGED <<arguments, loop, faults>>
  BY DEF Tick
<1>4. TypeOK'
  BY <1>1, <1>2, <1>3 DEF TypeOK, arguments, loop
<1>5. Dated'
  BY <1>1, <1>2, <1>3 DEF Dated, Published, TypeOK, arguments
<1>6. EndsKept' /\ InTurn'
  BY <1>2, <1>3 DEF EndsKept, InTurn, TypeOK, arguments, loop
<1>7. CursorPast'
  <2> SUFFICES ASSUME pc = "page", cursor # start
               PROVE  \E t \in Nat : t <= clock' /\ Published(t, kind) /\ cursor = Past(t)'
    BY <1>3 DEF CursorPast, arguments, loop
  <2>1. PICK t \in Nat : t <= clock /\ Published(t, kind) /\ cursor = Past(t)
    BY DEF CursorPast
  <2>2. Past(t)' = Past(t) /\ t <= clock'
    BY <1>2, <1>3, <2>1 DEF Past, arguments
  <2> QED
    BY <2>1, <2>2
<1>8. \A s \in Symbols : \A t \in Nat :
        t <= clock => (t \in records'[s] <=> t \in records[s])
  BY <1>1, <1>2
<1>9. BehindCursor'
  <2> SUFFICES ASSUME pc = "page"
               PROVE  rows = {t \in records'[symbol] : start <= t /\ t < cursor /\ t <= end}
    BY <1>3 DEF BehindCursor, arguments, loop
  <2>1. /\ symbol \in Symbols /\ cursor \in Nat /\ start \in Nat
        /\ records[symbol] \subseteq Nat /\ clock' \in Nat
    BY <1>2 DEF TypeOK
  <2>2. records'[symbol] = records[symbol]
          \/ (records'[symbol] = records[symbol] \cup {clock'} /\ Published(clock', kind))
    BY <1>1, <2>1
  <2>3. ASSUME Published(clock', kind)
        PROVE  cursor = start \/ cursor <= clock'
    <3>1. CASE cursor # start
      <4>1. PICK t \in Nat : t <= clock /\ Published(t, kind) /\ cursor = Past(t)
        BY <3>1 DEF CursorPast
      <4>2. t < clock'
        BY <1>2, <4>1
      <4>3. CASE kind = "klines"
        <5>1. t % Step = 0 /\ clock' % Step = 0 /\ Step \in Nat \ {0}
          BY <2>3, <4>1, <4>3, AssumptionsHold DEF Published, Assumptions
        <5>2. t + Step <= clock'
          BY <2>1, <4>1, <4>2, <5>1, GridGap
        <5> QED
          BY <4>1, <4>3, <5>2 DEF Past
      <4>4. CASE kind # "klines"
        BY <1>2, <4>1, <4>2, <4>4 DEF Past
      <4> QED
        BY <4>3, <4>4
    <3> QED
      BY <3>1
  <2>4. rows = {t \in records[symbol] : start <= t /\ t < cursor /\ t <= end}
    BY DEF BehindCursor
  <2>5. CASE records'[symbol] = records[symbol]
    BY <2>4, <2>5
  <2>6. CASE records'[symbol] = records[symbol] \cup {clock'} /\ Published(clock', kind)
    <3>1. ~(start <= clock' /\ clock' < cursor)
      BY <2>1, <2>3, <2>6
    <3> QED
      BY <2>4, <2>6, <3>1
  <2> QED
    BY <2>2, <2>5, <2>6
<1>10. PanelComplete'
  <2> SUFFICES ASSUME NEW s \in Symbols, s \notin cut, panel[s] # {}
               PROVE  /\ {t \in records'[s] : start <= t /\ t < ends[s] /\ t <= seen[s]}
                           \subseteq panel[s]
                      /\ panel[s] \subseteq {t \in records'[s] : start <= t /\ t <= ends[s]}
    BY <1>3 DEF PanelComplete, arguments, loop
  <2>1. seen[s] <= clock /\ seen[s] \in Nat
    BY DEF TypeOK, EndsKept
  <2>2. records[s] \subseteq Nat /\ records'[s] \subseteq Nat /\ records[s] \subseteq records'[s]
    BY <1>1, <1>4 DEF TypeOK
  <2> QED
    BY <1>2, <1>8, <2>1, <2>2 DEF PanelComplete
<1> QED
  BY <1>4, <1>5, <1>6, <1>7, <1>9, <1>10

LEMMA BeginKeeps == IInv /\ Begin => IInv'
<1> SUFFICES ASSUME IInv, Begin
             PROVE  IInv'
  OBVIOUS
<1> USE DEF IInv
<1>1. PICK s \in waiting :
        /\ symbol' = s
        /\ waiting' = waiting \ {s}
        /\ end' = IF until = NoEnd THEN clock ELSE until
        /\ ends' = [ends EXCEPT ![s] = end']
  BY DEF Begin
<1>2. /\ pc' = "page" /\ cursor' = start /\ rows' = {}
      /\ UNCHANGED <<arguments, exchange, panel, seen, cut, faults>>
  BY DEF Begin
<1>3. s \in Symbols /\ panel[s] = {}
  BY DEF TypeOK, InTurn
<1>4. end' \in Nat
  BY <1>1 DEF TypeOK
<1>5. TypeOK'
  BY <1>1, <1>2, <1>3, <1>4 DEF TypeOK, arguments, exchange, Stages
<1>6. Dated'
  BY <1>2 DEF Dated, exchange, arguments
<1>7. EndsKept' /\ CursorPast'
  BY <1>1, <1>2, <1>3, <1>4 DEF EndsKept, CursorPast, exchange, arguments, TypeOK
<1>8. InTurn'
  BY <1>1, <1>2 DEF InTurn, arguments, TypeOK
<1>9. BehindCursor'
  <2>1. start \in Nat /\ records[s] \subseteq Nat
    BY <1>3 DEF TypeOK
  <2> QED
    BY <1>1, <1>2, <2>1 DEF BehindCursor, exchange, arguments
<1>10. PanelComplete'
  BY <1>1, <1>2, <1>3 DEF PanelComplete, exchange, arguments, TypeOK
<1> QED
  BY <1>5, <1>6, <1>7, <1>8, <1>9, <1>10

\* A full page leaves nothing between the cursor and the record after it.
LEMMA FullPageKeeps == IInv /\ FullPage => IInv'
<1> SUFFICES ASSUME IInv, FullPage
             PROVE  IInv'
  OBVIOUS
<1> USE DEF IInv
<1>1. PICK B \in SUBSET Requested :
        /\ IsPage(B, Requested)
        /\ rows' = rows \cup B
        /\ \E t \in B : IsLast(t, B) /\ cursor' = Past(t)
  BY DEF FullPage
<1>2. PICK last \in B : IsLast(last, B) /\ cursor' = Past(last)
  BY <1>1
<1>3. /\ pc = "page" /\ pc' = "page"
      /\ UNCHANGED <<arguments, exchange, waiting, symbol, end, panel, ends, seen, cut,
                     faults>>
  BY DEF FullPage
<1>4. /\ symbol \in Symbols /\ records[symbol] \subseteq Nat
      /\ cursor \in Nat /\ end \in Nat /\ start \in Nat /\ start <= cursor
      /\ last \in Nat /\ last \in records[symbol] /\ cursor <= last /\ last <= end
  BY <1>1, <1>3 DEF TypeOK, InTurn, Requested
<1>5. cursor' \in Nat /\ last < cursor'
  BY <1>2, <1>4, AssumptionsHold DEF Past, Assumptions
<1>6. TypeOK'
  BY <1>1, <1>3, <1>4, <1>5 DEF TypeOK, arguments, exchange, Requested
<1>7. Dated' /\ EndsKept' /\ InTurn' /\ PanelComplete'
  BY <1>3, <1>4, <1>5
     DEF Dated, EndsKept, InTurn, PanelComplete, arguments, exchange
<1>8. ASSUME NEW t \in records[symbol], last < t
      PROVE  cursor' <= t
  <2>1. t \in Nat
    BY <1>4, <1>8
  <2>2. CASE kind = "klines"
    <3>1. t % Step = 0 /\ last % Step = 0
      BY <1>4, <1>8, <2>2 DEF Dated, Published
    <3>2. Step \in Nat \ {0}
      BY AssumptionsHold DEF Assumptions
    <3>3. last + Step <= t
      BY <1>4, <1>8, <2>1, <3>1, <3>2, GridGap
    <3> QED
      BY <1>2, <2>2, <3>3 DEF Past
  <2>3. CASE kind # "klines"
    BY <1>2, <1>4, <1>8, <2>1, <2>3 DEF Past
  <2> QED
    BY <2>2, <2>3
<1>9. \A t \in records[symbol] : cursor <= t /\ t <= last => t \in B
  BY <1>1, <1>2, <1>4 DEF IsPage, Requested
<1>10. \A t \in B : t \in records[symbol] /\ cursor <= t /\ t <= last /\ t <= end
  BY <1>1, <1>2 DEF IsLast, Requested
<1>11. rows = {t \in records[symbol] : start <= t /\ t < cursor /\ t <= end}
  BY <1>3 DEF BehindCursor
<1>12. rows' = {t \in records[symbol] : start <= t /\ t < cursor' /\ t <= end}
  <2>1. \A t \in records[symbol] : t \in Nat
    BY <1>4
  <2>2. ASSUME NEW t \in records[symbol]
        PROVE  t \in rows' <=> start <= t /\ t < cursor' /\ t <= end
    <3>1. CASE t < cursor
      BY <1>1, <1>4, <1>5, <1>10, <1>11, <2>1, <3>1
    <3>2. CASE cursor <= t /\ t <= last
      BY <1>1, <1>4, <1>5, <1>9, <2>1, <3>2
    <3>3. CASE last < t
      BY <1>1, <1>4, <1>5, <1>8, <1>10, <1>11, <2>1, <3>3
    <3> QED
      BY <1>4, <2>1, <3>1, <3>2, <3>3
  <2> QED
    BY <1>1, <1>10, <1>11, <2>2
<1>13. BehindCursor'
  BY <1>3, <1>12 DEF BehindCursor, arguments, exchange
<1>14. CursorPast'
  <2>1. last <= clock /\ Published(last, kind)
    BY <1>4 DEF Dated
  <2>2. Past(last)' = Past(last) /\ clock' = clock /\ kind' = kind
    BY <1>3 DEF Past, arguments, exchange
  <2> QED
    BY <1>2, <1>4, <2>1, <2>2 DEF CursorPast
<1> QED
  BY <1>6, <1>7, <1>13, <1>14

\* The end of a symbol's loop, with nothing, with all of its range, or cut.
LEMMA KeepKeeps ==
    ASSUME IInv, pc = "page", NEW all \in SUBSET Nat, Keep(all), faults' \in 0..MaxFaults,
           \/ cut' = cut \cup {symbol}
           \/ /\ cut' = cut
              /\ all # {} =>
                   /\ {t \in records[symbol] : start <= t /\ t < end} \subseteq all
                   /\ all \subseteq {t \in records[symbol] : start <= t /\ t <= end}
    PROVE  IInv'
<1> USE DEF IInv
<1>1. /\ pc' = "next" /\ rows' = {}
      /\ panel' = [panel EXCEPT ![symbol] = all]
      /\ seen' = [seen EXCEPT ![symbol] = clock]
      /\ UNCHANGED <<arguments, exchange, waiting, symbol, end, cursor, ends>>
  BY DEF Keep
<1>2. symbol \in Symbols /\ symbol \notin waiting /\ end = ends[symbol]
  BY DEF TypeOK, InTurn, EndsKept
<1>3. /\ panel'[symbol] = all
      /\ \A s \in Symbols \ {symbol} : panel'[s] = panel[s] /\ seen'[s] = seen[s]
      /\ seen'[symbol] = clock
  BY <1>1, <1>2 DEF TypeOK
<1>4. TypeOK'
  BY <1>1, <1>2 DEF TypeOK, arguments, exchange, Stages
<1>5. Dated' /\ EndsKept' /\ CursorPast' /\ BehindCursor'
  BY <1>1, <1>2, <1>3
     DEF Dated, EndsKept, CursorPast, Past, Published, BehindCursor, arguments,
         exchange, TypeOK
<1>6. InTurn'
  BY <1>1, <1>2, <1>3 DEF InTurn, TypeOK
<1>7. PanelComplete'
  BY <1>1, <1>2, <1>3 DEF PanelComplete, arguments, exchange
<1> QED
  BY <1>4, <1>5, <1>6, <1>7

LEMMA LeavingKeeps ==
    IInv /\ (LastPage \/ ReachesEnd \/ RequestRaises \/ ErrorReply) => IInv'
<1> SUFFICES ASSUME IInv, LastPage \/ ReachesEnd \/ RequestRaises \/ ErrorReply
             PROVE  IInv'
  OBVIOUS
<1> USE DEF IInv
<1>1. pc = "page" /\ symbol \in Symbols /\ rows \subseteq Nat
  BY DEF LastPage, ReachesEnd, RequestRaises, ErrorReply, TypeOK
<1>2. /\ records[symbol] \subseteq Nat /\ cursor \in Nat /\ end \in Nat
      /\ start \in Nat /\ start <= cursor
      /\ rows = {t \in records[symbol] : start <= t /\ t < cursor /\ t <= end}
  BY <1>1 DEF TypeOK, InTurn, BehindCursor
<1>3. CASE LastPage
  <2>1. PICK B \in SUBSET Requested :
          IsPage(B, Requested) /\ Cardinality(B) < Limit /\ Keep(rows \cup B)
    BY <1>3 DEF LastPage
  <2>2. B = Requested
    BY <2>1, AssumptionsHold DEF IsPage, Assumptions
  <2>3. rows \cup B = {t \in records[symbol] : start <= t /\ t <= end}
    BY <1>2, <2>2 DEF Requested
  <2>4. rows \cup B \in SUBSET Nat
    BY <1>2, <2>3
  <2>5. {t \in records[symbol] : start <= t /\ t < end} \subseteq rows \cup B
    BY <1>2, <2>3
  <2>6. cut' = cut /\ faults' \in 0..MaxFaults
    BY <1>3 DEF LastPage, TypeOK
  <2> QED
    BY <1>1, <2>1, <2>3, <2>4, <2>5, <2>6, KeepKeeps
<1>4. CASE ReachesEnd
  <2>1. {t \in records[symbol] : start <= t /\ t < end} \subseteq rows
    BY <1>2, <1>4 DEF ReachesEnd
  <2>2. rows \subseteq {t \in records[symbol] : start <= t /\ t <= end}
    BY <1>2
  <2>3. cut' = cut /\ faults' \in 0..MaxFaults /\ Keep(rows)
    BY <1>4 DEF ReachesEnd, TypeOK
  <2> QED
    BY <1>1, <2>1, <2>2, <2>3, KeepKeeps
<1>5. CASE RequestRaises
  <2>1. cut' = cut /\ faults' \in 0..MaxFaults
    BY <1>5, AssumptionsHold DEF RequestRaises, Fault, TypeOK, Assumptions
  <2>2. CASE Keep({})
    BY <1>1, <2>1, <2>2, KeepKeeps
  <2>3. CASE ~Keep({})
    <3>1. /\ pc' = "raised"
          /\ UNCHANGED <<arguments, exchange, waiting, symbol, end, cursor, rows,
                         panel, ends, seen>>
      BY <1>5, <2>3 DEF RequestRaises
    <3> QED
      BY <2>1, <3>1 DEF TypeOK, Stages, Dated, EndsKept, CursorPast, Past, Published,
         InTurn, BehindCursor, PanelComplete, arguments, exchange
  <2> QED
    BY <2>2, <2>3
<1>6. CASE ErrorReply
  <2>1. cut' = cut \cup {symbol} /\ faults' \in 0..MaxFaults /\ Keep(rows)
    BY <1>6, AssumptionsHold DEF ErrorReply, Fault, TypeOK, Assumptions
  <2> QED
    BY <1>1, <2>1, KeepKeeps
<1> QED
  BY <1>3, <1>4, <1>5, <1>6

LEMMA FinishKeeps == IInv /\ (Finish \/ UNCHANGED vars) => IInv'
<1> SUFFICES ASSUME IInv, Finish \/ UNCHANGED vars
             PROVE  IInv'
  OBVIOUS
<1>1. CASE Finish
  <2>1. pc' \in {"done", "raised"}
    BY <1>1 DEF Finish
  <2> QED
    BY <1>1, <2>1 DEF Finish, IInv, TypeOK, Stages, Dated, EndsKept, CursorPast,
       Past, Published, InTurn,
       BehindCursor, PanelComplete, arguments, exchange
<1>2. CASE UNCHANGED vars
  BY <1>2 DEF IInv, TypeOK, Dated, EndsKept, CursorPast, Past,
     Published, InTurn, BehindCursor, PanelComplete,
     vars, arguments, exchange, loop
<1> QED
  BY <1>1, <1>2

\* The loops fetch every record once, and what they leave in the panel is
\* complete: the invariant from which the two properties follow.
THEOREM Inductive == Spec => []IInv
<1>1. Init => IInv
  BY InitIInv
<1>2. IInv /\ [Next]_vars => IInv'
  BY TickKeeps, BeginKeeps, FullPageKeeps, LeavingKeeps, FinishKeeps
     DEF Next, LoopStep
<1> QED
  BY <1>1, <1>2, PTL DEF Spec

\* No record is passed over and none is taken twice, for any page size.
THEOREM BehindCursorHolds == Spec => []BehindCursor
<1>1. IInv => BehindCursor
  BY DEF IInv
<1> QED
  BY <1>1, Inductive, PTL

\* Whatever fails, a symbol in the panel is complete unless an error reply to
\* the collector cut it off.
THEOREM PanelCompleteHolds == Spec => []PanelComplete
<1>1. IInv => PanelComplete
  BY DEF IInv
<1> QED
  BY <1>1, Inductive, PTL
=============================================================================
