---------------------------- MODULE ResearchProofs ----------------------------
(***************************************************************************)
(* Proofs about the formulaic alphas (NoPeek and Settled) and the          *)
(* downloads (DownloadComplete), for every value of their constants; and,  *)
(* with what the other modules prove of the backtesters, the live books and*)
(* the simulators, about the research commands as a whole.                 *)
(***************************************************************************)
EXTENDS Research, PortfolioProofs, SimulatorProofs, SequenceTheorems

-----------------------------------------------------------------------------
(***************************************************************************)
(* NoPeek.  A call of the vocabulary on columns that read nothing later    *)
(* gives a column that reads nothing later, and what it gives on a panel cut*)
(* off at a row it gives on the whole panel.                               *)
(***************************************************************************)
\* Two columns, of a panel to row m and of what is visible of it at row i, that
\* read nothing later than the row they write, and agree.
Past(x) == \A r \in DOMAIN x : x[r] \subseteq Filled \cup 0 .. r

Prefix(x, y, m, i) ==
  /\ DOMAIN x = 0 .. m /\ DOMAIN y = 0 .. i
  /\ Past(x) /\ Past(y)
  /\ \A r \in 0 .. i : x[r] = y[r]

LEMMA AllPast ==
  ASSUME NEW S, NEW times, \A v \in S : v \subseteq times
  PROVE  All(S) \subseteq times
BY DEF All, NaN

LEMMA ArithPast ==
  ASSUME NEW xs, 1 \in DOMAIN xs, NEW m,
         \A k \in DOMAIN xs : DOMAIN xs[k] = 0 .. m /\ Past(xs[k])
  PROVE  DOMAIN Arith(xs) = 0 .. m /\ Past(Arith(xs))
<1>1. DOMAIN Arith(xs) = 0 .. m
  BY DEF Arith
<1>2. ASSUME NEW r \in 0 .. m PROVE Arith(xs)[r] \subseteq Filled \cup 0 .. r
  <2>1. Arith(xs)[r] = All({xs[k][r] : k \in DOMAIN xs})
    BY <1>2 DEF Arith
  <2>2. \A v \in {xs[k][r] : k \in DOMAIN xs} : v \subseteq Filled \cup 0 .. r
    BY <1>2 DEF Past
  <2> QED
    BY <2>1, <2>2, AllPast
<1> QED
  BY <1>1, <1>2 DEF Past

LEMMA ArithPrefix ==
  ASSUME NEW xs, NEW ys, 1 \in DOMAIN xs, DOMAIN ys = DOMAIN xs, NEW m \in Nat, NEW i \in 0 .. m,
         \A k \in DOMAIN xs : Prefix(xs[k], ys[k], m, i)
  PROVE  Prefix(Arith(xs), Arith(ys), m, i)
<1>1. /\ DOMAIN Arith(xs) = 0 .. m /\ Past(Arith(xs))
      /\ DOMAIN Arith(ys) = 0 .. i /\ Past(Arith(ys))
  BY ArithPast DEF Prefix
<1>2. ASSUME NEW r \in 0 .. i PROVE Arith(xs)[r] = Arith(ys)[r]
  <2>1. r \in 0 .. m
    BY <1>2
  <2>2. {xs[k][r] : k \in DOMAIN xs} = {ys[k][r] : k \in DOMAIN ys}
    BY <1>2 DEF Prefix
  <2>3. /\ Arith(xs)[r] = All({xs[k][r] : k \in DOMAIN xs})
        /\ Arith(ys)[r] = All({ys[k][r] : k \in DOMAIN ys})
    BY <1>1, <1>2, <2>1 DEF Arith
  <2> QED
    BY <2>2, <2>3
<1> QED
  BY <1>1, <1>2 DEF Prefix

LEMMA Arith1 ==
  ASSUME NEW m \in Nat, NEW i \in 0 .. m, NEW x, NEW y, Prefix(x, y, m, i)
  PROVE  Prefix(Arith(<<x>>), Arith(<<y>>), m, i)
<1> DEFINE xs == <<x>>
           ys == <<y>>
<1>1. DOMAIN xs = {1} /\ DOMAIN ys = {1} /\ xs[1] = x /\ ys[1] = y
  OBVIOUS
<1> HIDE DEF xs, ys
<1>2. Prefix(Arith(xs), Arith(ys), m, i)
  BY <1>1, ArithPrefix
<1> QED
  BY <1>2 DEF xs, ys

LEMMA Arith2 ==
  ASSUME NEW m \in Nat, NEW i \in 0 .. m, NEW x, NEW y, Prefix(x, y, m, i),
         NEW x2, NEW y2, Prefix(x2, y2, m, i)
  PROVE  Prefix(Arith(<<x, x2>>), Arith(<<y, y2>>), m, i)
<1> DEFINE xs == <<x, x2>>
           ys == <<y, y2>>
<1>1. /\ DOMAIN xs = {1, 2} /\ DOMAIN ys = {1, 2}
      /\ xs[1] = x /\ ys[1] = y /\ xs[2] = x2 /\ ys[2] = y2
  OBVIOUS
<1> HIDE DEF xs, ys
<1>2. Prefix(Arith(xs), Arith(ys), m, i)
  BY <1>1, ArithPrefix
<1> QED
  BY <1>2 DEF xs, ys

LEMMA Arith3 ==
  ASSUME NEW m \in Nat, NEW i \in 0 .. m, NEW x, NEW y, Prefix(x, y, m, i),
         NEW x2, NEW y2, Prefix(x2, y2, m, i), NEW x3, NEW y3, Prefix(x3, y3, m, i)
  PROVE  Prefix(Arith(<<x, x2, x3>>), Arith(<<y, y2, y3>>), m, i)
<1> DEFINE xs == <<x, x2, x3>>
           ys == <<y, y2, y3>>
<1>1. /\ DOMAIN xs = {1, 2, 3} /\ DOMAIN ys = {1, 2, 3}
      /\ xs[1] = x /\ ys[1] = y /\ xs[2] = x2 /\ ys[2] = y2 /\ xs[3] = x3 /\ ys[3] = y3
  OBVIOUS
<1> HIDE DEF xs, ys
<1>2. Prefix(Arith(xs), Arith(ys), m, i)
  BY <1>1, ArithPrefix
<1> QED
  BY <1>2 DEF xs, ys

LEMMA WherePrefix ==
  ASSUME NEW m \in Nat, NEW i \in 0 .. m, NEW c, NEW d, Prefix(c, d, m, i),
         NEW x, NEW y, Prefix(x, y, m, i), NEW x2, NEW y2, Prefix(x2, y2, m, i),
         NEW branch
  PROVE  Prefix(Where(c, x, x2, branch), Where(d, y, y2, branch), m, i)
<1>1. DOMAIN Where(c, x, x2, branch) = 0 .. m /\ DOMAIN Where(d, y, y2, branch) = 0 .. i
  BY DEF Where, Prefix
<1>2. Past(Where(c, x, x2, branch)) /\ Past(Where(d, y, y2, branch))
  BY <1>1 DEF Past, Where, Prefix, NaN
<1>3. ASSUME NEW r \in 0 .. i PROVE Where(c, x, x2, branch)[r] = Where(d, y, y2, branch)[r]
  <2>1. r \in 0 .. m /\ r \in DOMAIN c /\ r \in DOMAIN d
    BY <1>3 DEF Prefix
  <2>2. c[r] = d[r] /\ x[r] = y[r] /\ x2[r] = y2[r]
    BY <1>3 DEF Prefix
  <2> QED
    BY <2>1, <2>2 DEF Where
<1> QED
  BY <1>1, <1>2, <1>3 DEF Prefix

LEMMA DelayPast ==
  ASSUME NEW x, NEW m \in Nat, DOMAIN x = 0 .. m, Past(x), NEW d \in Int, d >= 1
  PROVE  DOMAIN Delay(x, d) = 0 .. m /\ Past(Delay(x, d))
<1>1. DOMAIN Delay(x, d) = 0 .. m
  BY DEF Delay
<1>2. ASSUME NEW r \in 0 .. m PROVE Delay(x, d)[r] \subseteq Filled \cup 0 .. r
  <2>1. CASE r - d \in 0 .. m
    <3>1. x[r - d] \subseteq Filled \cup 0 .. (r - d)
      BY <2>1 DEF Past
    <3>2. 0 .. (r - d) \subseteq 0 .. r
      BY <2>1
    <3> QED
      BY <1>2, <2>1, <3>1, <3>2 DEF Delay
  <2>2. CASE r - d \notin 0 .. m
    BY <1>2, <2>2 DEF Delay, NaN
  <2> QED
    BY <2>1, <2>2
<1> QED
  BY <1>1, <1>2 DEF Past

LEMMA DelayPrefix ==
  ASSUME NEW m \in Nat, NEW i \in 0 .. m, NEW x, NEW y, Prefix(x, y, m, i), NEW d \in Int, d >= 1
  PROVE  Prefix(Delay(x, d), Delay(y, d), m, i)
<1>1. /\ DOMAIN Delay(x, d) = 0 .. m /\ Past(Delay(x, d))
      /\ DOMAIN Delay(y, d) = 0 .. i /\ Past(Delay(y, d))
  BY DelayPast DEF Prefix
<1>2. ASSUME NEW r \in 0 .. i PROVE Delay(x, d)[r] = Delay(y, d)[r]
  <2>1. r \in 0 .. m /\ (r - d \in 0 .. m <=> r - d \in 0 .. i)
    BY <1>2
  <2> QED
    BY <1>2, <2>1 DEF Delay, Prefix
<1> QED
  BY <1>1, <1>2 DEF Prefix

Reductions == {"skip", "sum", "std", "rank", "strict"}

\* What a reduction gives comes from its window, and is determined by it.
LEMMA ReducedPast ==
  ASSUME NEW x, NEW i, NEW n, NEW kind \in Reductions, NEW times,
         \A r \in (i - n + 1) .. i : x[r] \subseteq times, Filled \subseteq times
  PROVE  Reduced(kind, x, i, n) \subseteq times
<1> DEFINE union == UNION {x[r] : r \in (i - n + 1) .. i}
<1>1. Reduced(kind, x, i, n) \in {union, Filled, NaN}
  BY DEF Reduced, Reductions
<1>2. union \subseteq times
  OBVIOUS
<1> HIDE DEF union
<1> QED
  BY <1>1, <1>2 DEF NaN

LEMMA ReducedSame ==
  ASSUME NEW x, NEW y, NEW i \in Int, NEW n \in Int, n >= 1, NEW kind,
         \A r \in (i - n + 1) .. i : x[r] = y[r]
  PROVE  Reduced(kind, x, i, n) = Reduced(kind, y, i, n)
<1> DEFINE window == (i - n + 1) .. i
<1>1. {r \in window : x[r] # NaN} = {r \in window : y[r] # NaN}
  OBVIOUS
<1>2. {x[r] : r \in window} = {y[r] : r \in window}
  OBVIOUS
<1>3. x[i] = y[i]
  OBVIOUS
<1> QED
  BY <1>1, <1>2, <1>3 DEF Reduced

LEMMA RollingPast ==
  ASSUME NEW x, NEW m \in Nat, DOMAIN x = 0 .. m, Past(x), NEW kind \in Reductions,
         NEW n \in Int, n >= 1
  PROVE  DOMAIN Rolling(kind, x, n) = 0 .. m /\ Past(Rolling(kind, x, n))
<1>1. DOMAIN Rolling(kind, x, n) = 0 .. m
  BY DEF Rolling
<1>2. ASSUME NEW r \in 0 .. m PROVE Rolling(kind, x, n)[r] \subseteq Filled \cup 0 .. r
  <2>1. CASE r - n + 1 \in 0 .. m
    <3>1. ASSUME NEW s \in (r - n + 1) .. r PROVE x[s] \subseteq Filled \cup 0 .. r
      <4>1. s \in 0 .. m /\ 0 .. s \subseteq 0 .. r
        BY <2>1, <3>1
      <4>2. x[s] \subseteq Filled \cup 0 .. s
        BY <4>1 DEF Past
      <4> QED
        BY <4>1, <4>2
    <3>2. Reduced(kind, x, r, n) \subseteq Filled \cup 0 .. r
      BY <3>1, ReducedPast
    <3> QED
      BY <1>2, <2>1, <3>2 DEF Rolling
  <2>2. CASE r - n + 1 \notin 0 .. m
    BY <1>2, <2>2 DEF Rolling, NaN
  <2> QED
    BY <2>1, <2>2
<1> QED
  BY <1>1, <1>2 DEF Past

LEMMA RollingPrefix ==
  ASSUME NEW m \in Nat, NEW i \in 0 .. m, NEW x, NEW y, Prefix(x, y, m, i),
         NEW kind \in Reductions, NEW n \in Int, n >= 1
  PROVE  Prefix(Rolling(kind, x, n), Rolling(kind, y, n), m, i)
<1>1. /\ DOMAIN Rolling(kind, x, n) = 0 .. m /\ Past(Rolling(kind, x, n))
      /\ DOMAIN Rolling(kind, y, n) = 0 .. i /\ Past(Rolling(kind, y, n))
  BY RollingPast DEF Prefix
<1>2. ASSUME NEW r \in 0 .. i PROVE Rolling(kind, x, n)[r] = Rolling(kind, y, n)[r]
  <2>1. r \in 0 .. m /\ (r - n + 1 \in 0 .. m <=> r - n + 1 \in 0 .. i)
    BY <1>2
  <2>2. ASSUME r - n + 1 \in 0 .. i PROVE Reduced(kind, x, r, n) = Reduced(kind, y, r, n)
    <3>1. \A s \in (r - n + 1) .. r : s \in 0 .. i /\ x[s] = y[s]
      BY <1>2, <2>2 DEF Prefix
    <3> QED
      BY <1>2, <3>1, ReducedSame
  <2> QED
    BY <1>2, <2>1, <2>2 DEF Rolling, Prefix
<1> QED
  BY <1>1, <1>2 DEF Prefix

-----------------------------------------------------------------------------
(* One call of the vocabulary.                                             *)

Vocabulary == (Calls \ Foreign) \cup LagCalls \cup PairCalls \cup {"where"}

RollingCalls == {"ts_mean", "ts_sum", "ts_std", "ts_max", "ts_min", "ts_argmax", "ts_argmin",
                 "ts_rank", "decay_linear"}

LEMMA CalledPrefix ==
  ASSUME NEW f \in Vocabulary, NEW n \in Int, ~OutOfRange(f, n),
         NEW q, NEW u, u.branch = q.branch,
         NEW m \in Nat, NEW i \in 0 .. m,
         NEW x, NEW x2, Prefix(x, x2, m, i),
         NEW y, NEW y2, Prefix(y, y2, m, i),
         NEW z, NEW z2, Prefix(z, z2, m, i)
  PROVE  Prefix(Called(f, x, y, z, n, q), Called(f, x2, y2, z2, n, u), m, i)
<1>1. Vocabulary \subseteq {"rank", "zscore", "scale", "signed_power"} \cup RollingCalls
        \cup {"delay", "delta", "returns", "safe_div", "vwap", "adv", "ts_corr", "ts_cov", "where"}
  BY DEF Vocabulary, Calls, Foreign, Caught, Uncaught, LagCalls, PairCalls, RollingCalls
<1>2. CASE f \in {"rank", "zscore", "scale", "signed_power"}
  <2>1. /\ Called(f, x, y, z, n, q) = Arith(<<x>>)
        /\ Called(f, x2, y2, z2, n, u) = Arith(<<x2>>)
    BY <1>2 DEF Called, Reordering, Rank, Zscore, ScaleRow, SignedPower
  <2> QED
    BY <2>1, Arith1
<1>3. CASE f \in RollingCalls
  <2>1. n >= 1
    BY <1>3 DEF OutOfRange, LagCalls, RollingCalls
  <2>2. PICK kind \in Reductions : /\ Called(f, x, y, z, n, q) = Rolling(kind, x, n)
                              /\ Called(f, x2, y2, z2, n, u) = Rolling(kind, x2, n)
    <3>1. CASE f \in {"ts_mean", "ts_max", "ts_min", "ts_argmax", "ts_argmin"}
      <4>1. /\ Called(f, x, y, z, n, q) = Rolling("skip", x, n)
            /\ Called(f, x2, y2, z2, n, u) = Rolling("skip", x2, n)
        BY <3>1 DEF Called, Reordering, TsMean, TsMax, TsMin, TsArgmax, TsArgmin
      <4> QED
        BY <4>1 DEF Reductions
    <3>2. CASE f = "ts_sum"
      BY <3>2 DEF Called, Reordering, TsSum, Reductions
    <3>3. CASE f = "ts_std"
      BY <3>3 DEF Called, Reordering, TsStd, Reductions
    <3>4. CASE f = "ts_rank"
      BY <3>4 DEF Called, Reordering, TsRank, Reductions
    <3>5. CASE f = "decay_linear"
      BY <3>5 DEF Called, Reordering, DecayLinear, Reductions
    <3> QED
      BY <1>3, <3>1, <3>2, <3>3, <3>4, <3>5 DEF RollingCalls
  <2> QED
    BY <2>1, <2>2, RollingPrefix
<1>4. CASE f \in {"delay", "delta", "returns"}
  <2>1. n >= 1
    BY <1>4 DEF OutOfRange, LagCalls
  <2>2. Prefix(Delay(x, n), Delay(x2, n), m, i)
    BY <2>1, DelayPrefix
  <2>3. Prefix(Delta(x, n), Delta(x2, n), m, i)
    BY <2>2, Arith2 DEF Delta
  <2>4. Prefix(Returns(x, n), Returns(x2, n), m, i)
    BY <2>2, <2>3, Arith2 DEF Returns, SafeDiv
  <2>5. CASE f = "delay"
    BY <2>2, <2>5 DEF Called, Reordering
  <2>6. CASE f = "delta"
    BY <2>3, <2>6 DEF Called, Reordering
  <2>7. CASE f = "returns"
    BY <2>4, <2>7 DEF Called, Reordering
  <2> QED
    BY <1>4, <2>5, <2>6, <2>7
<1>5. CASE f = "safe_div"
  <2>1. /\ Called(f, x, y, z, n, q) = Arith(<<x, y>>)
        /\ Called(f, x2, y2, z2, n, u) = Arith(<<x2, y2>>)
    BY <1>5 DEF Called, Reordering, SafeDiv
  <2> QED
    BY <2>1, Arith2
<1>6. CASE f = "vwap"
  <2>1. /\ Called(f, x, y, z, n, q) = Arith(<<x, y, x>>)
        /\ Called(f, x2, y2, z2, n, u) = Arith(<<x2, y2, x2>>)
    BY <1>6 DEF Called, Reordering, Vwap
  <2> QED
    BY <2>1, Arith3
<1>7. CASE f \in {"adv", "ts_corr", "ts_cov"}
  <2>1. n >= 1
    BY <1>7 DEF OutOfRange, LagCalls
  <2>2. Prefix(Arith(<<x, y>>), Arith(<<x2, y2>>), m, i)
    BY Arith2
  <2>3. PICK kind \in Reductions :
          /\ Called(f, x, y, z, n, q) = Rolling(kind, Arith(<<x, y>>), n)
          /\ Called(f, x2, y2, z2, n, u) = Rolling(kind, Arith(<<x2, y2>>), n)
    <3>1. CASE f = "adv"
      <4>1. /\ Called(f, x, y, z, n, q) = Rolling("skip", Arith(<<x, y>>), n)
            /\ Called(f, x2, y2, z2, n, u) = Rolling("skip", Arith(<<x2, y2>>), n)
        BY <3>1 DEF Called, Reordering, Adv, TsMean
      <4> QED
        BY <4>1 DEF Reductions
    <3>2. CASE f \in {"ts_corr", "ts_cov"}
      <4>1. /\ Called(f, x, y, z, n, q) = Rolling("strict", Arith(<<x, y>>), n)
            /\ Called(f, x2, y2, z2, n, u) = Rolling("strict", Arith(<<x2, y2>>), n)
        BY <3>2 DEF Called, Reordering, TsCorr, TsCov
      <4> QED
        BY <4>1 DEF Reductions
    <3> QED
      BY <1>7, <3>1, <3>2
  <2> QED
    BY <2>1, <2>2, <2>3, RollingPrefix
<1>8. CASE f = "where"
  <2>1. /\ Called(f, x, y, z, n, q) = Where(x, y, z, q.branch)
        /\ Called(f, x2, y2, z2, n, u) = Where(x2, y2, z2, q.branch)
    BY <1>8 DEF Called, Reordering
  <2> QED
    BY <2>1, WherePrefix
<1> QED
  BY <1>1, <1>2, <1>3, <1>4, <1>5, <1>6, <1>7, <1>8

-----------------------------------------------------------------------------
(* Every body without a foreign construct.                                 *)

LEMMA PanelsVisible ==
  ASSUME NEW q \in Panels, NEW i \in 0 .. q.last
  PROVE  /\ q.first = 0 /\ q.listed = 0 /\ q.last \in Nat
         /\ Visible(q, i) \in Panels
         /\ Visible(q, i).first = 0 /\ Visible(q, i).listed = 0
         /\ Visible(q, i).last = i /\ Visible(q, i).branch = q.branch
<1>1. PICK end \in 0 .. LastRow, branch \in BOOLEAN : q = History(0, end, branch)
  BY DEF Panels
<1>2. i \in 0 .. LastRow
  BY <1>1, FormulaAssumption DEF History
<1>3. Visible(q, i) = History(0, i, branch)
  BY <1>1 DEF Visible, History
<1>4. Visible(q, i) \in Panels
  BY <1>2, <1>3 DEF Panels
<1> QED
  BY <1>1, <1>3, <1>4, FormulaAssumption DEF History

\* The value of a body on the panel of each row is what it has there.
LooksBack(v) == \A q \in Panels : \A i \in 0 .. q.last : Prefix(v[q], v[Visible(q, i)], q.last, i)

LEMMA InputCausal == LooksBack([q \in Panels |-> Input(q)])
<1> SUFFICES ASSUME NEW q \in Panels, NEW i \in 0 .. q.last
             PROVE  Prefix(Input(q), Input(Visible(q, i)), q.last, i)
  BY PanelsVisible DEF LooksBack
<1>1. /\ q.first = 0 /\ q.listed = 0 /\ q.last \in Nat
      /\ Visible(q, i).first = 0 /\ Visible(q, i).listed = 0 /\ Visible(q, i).last = i
  BY PanelsVisible
<1>2. /\ Input(q) = [r \in 0 .. q.last |-> {r}]
      /\ Input(Visible(q, i)) = [r \in 0 .. i |-> {r}]
  BY <1>1 DEF Input, PanelRows
<1> QED
  BY <1>1, <1>2 DEF Prefix, Past

LEMMA NumberCausal == LooksBack([q \in Panels |-> Number(q)])
<1> SUFFICES ASSUME NEW q \in Panels, NEW i \in 0 .. q.last
             PROVE  Prefix(Number(q), Number(Visible(q, i)), q.last, i)
  BY PanelsVisible DEF LooksBack
<1>1. /\ q.first = 0 /\ q.last \in Nat /\ Visible(q, i).first = 0 /\ Visible(q, i).last = i
  BY PanelsVisible
<1>2. /\ Number(q) = [r \in 0 .. q.last |-> Filled]
      /\ Number(Visible(q, i)) = [r \in 0 .. i |-> Filled]
  BY <1>1 DEF Number, PanelRows
<1> QED
  BY <1>1, <1>2 DEF Prefix, Past

LEMMA CalledCausal ==
  ASSUME NEW f \in Vocabulary, NEW n \in Int, ~OutOfRange(f, n),
         NEW x, NEW y, NEW z, LooksBack(x), LooksBack(y), LooksBack(z)
  PROVE  LooksBack([q \in Panels |-> Called(f, x[q], y[q], z[q], n, q)])
<1> SUFFICES ASSUME NEW q \in Panels, NEW i \in 0 .. q.last,
                    NEW u, u = Visible(q, i)
             PROVE  Prefix(Called(f, x[q], y[q], z[q], n, q),
                           Called(f, x[u], y[u], z[u], n, u), q.last, i)
  BY PanelsVisible DEF LooksBack
<1>1. q.last \in Nat /\ u.branch = q.branch
  BY PanelsVisible
<1>2. /\ Prefix(x[q], x[u], q.last, i) /\ Prefix(y[q], y[u], q.last, i)
      /\ Prefix(z[q], z[u], q.last, i)
  BY DEF LooksBack
<1> QED
  BY <1>1, <1>2, CalledPrefix

\* A draft of the vocabulary alone has only values that read nothing later, and
\* the gate lets no other construct through than those no rule of it meets.
BodyFields == {"value", "named", "foreign", "raises", "calls"}

Sound(body) ==
  /\ DOMAIN body = BodyFields
  /\ body.foreign \subseteq Foreign
  /\ body.value \in body.named
  /\ body.foreign = {} => \A v \in body.named : LooksBack(v)

DraftInv == Sound(draft) /\ (gate = "registered" => Violations(draft) = {})

LEMMA CallSound ==
  ASSUME NEW body, Sound(body), NEW f \in Foreign \cup Vocabulary, NEW n \in Int,
         ~OutOfRange(f, n), NEW x \in body.named, NEW y \in body.named, NEW z \in body.named,
         NEW written, written = [q \in Panels |-> Called(f, x[q], y[q], z[q], n, q)],
         NEW next, DOMAIN next = BodyFields, next.value = written,
         next.named = body.named \cup {written},
         next.foreign = body.foreign \cup ({f} \cap Foreign)
  PROVE  Sound(next)
<1>1. next.foreign \subseteq Foreign /\ next.value \in next.named
  BY DEF Sound
<1>2. ASSUME next.foreign = {} PROVE \A v \in next.named : LooksBack(v)
  <2>1. body.foreign = {} /\ f \notin Foreign
    BY <1>2
  <2>2. f \in Vocabulary /\ LooksBack(x) /\ LooksBack(y) /\ LooksBack(z)
    BY <2>1 DEF Sound
  <2>3. LooksBack(written)
    BY <2>2, CalledCausal
  <2> QED
    BY <2>1, <2>3 DEF Sound
<1> QED
  BY <1>1, <1>2 DEF Sound

LEMMA DraftInitially == FormulaInit => DraftInv
<1> SUFFICES ASSUME FormulaInit PROVE DraftInv
  OBVIOUS
<1> DEFINE input == [q \in Panels |-> Input(q)]
           number == [q \in Panels |-> Number(q)]
<1>1. LooksBack(input) /\ LooksBack(number)
  BY InputCausal, NumberCausal
<1>2. /\ draft.value = input /\ draft.named = {input, number} /\ draft.foreign = {}
      /\ gate = "open"
  BY DEF FormulaInit, InputAlone
<1>3. DOMAIN draft = BodyFields
  BY DEF FormulaInit, InputAlone, BodyFields
<1> HIDE DEF input, number
<1> QED
  BY <1>1, <1>2, <1>3 DEF DraftInv, Sound

LEMMA DraftStep == DraftInv /\ Draft => DraftInv'
<1> SUFFICES ASSUME DraftInv, Draft PROVE DraftInv'
  OBVIOUS
<1>1. gate = "open" /\ gate' = gate
  BY DEF Draft
<1>2. ASSUME NEW f \in Foreign \cup Vocabulary, NEW n \in Int,
             NEW x \in draft.named, NEW y \in draft.named, NEW z \in draft.named,
             Call(f, x, y, z, n)
      PROVE  Sound(draft')
  <2> DEFINE written == [q \in Panels |-> Called(f, x[q], y[q], z[q], n, q)]
             foreign == draft.foreign \cup ({f} \cap Foreign)
  <2>1. CASE OutOfRange(f, n)
    <3>1. draft' = [draft EXCEPT !.raises = TRUE, !.calls = @ + 1]
      BY <1>2, <2>1 DEF Call
    <3>2. /\ DOMAIN draft' = DOMAIN draft
          /\ draft'.value = draft.value /\ draft'.named = draft.named
          /\ draft'.foreign = draft.foreign
      BY <3>1 DEF DraftInv, Sound, BodyFields
    <3> QED
      BY <3>2 DEF DraftInv, Sound
  <2>2. CASE ~OutOfRange(f, n)
    <3>1. draft' = [draft EXCEPT !.value = written, !.named = @ \cup {written},
                                 !.foreign = foreign, !.calls = @ + 1]
      BY <1>2, <2>2 DEF Call
    <3>2. /\ DOMAIN draft' = BodyFields
          /\ draft'.value = written /\ draft'.named = draft.named \cup {written}
          /\ draft'.foreign = foreign
      BY <3>1 DEF DraftInv, Sound, BodyFields
    <3>3. Sound(draft)
      BY DEF DraftInv
    <3> QED
      BY <1>2, <2>2, <3>2, <3>3, CallSound
  <2> QED
    BY <2>1, <2>2
<1>3. Sound(draft')
  <2>1. PICK x \in draft.named, y \in draft.named :
          \/ \E f \in Calls : Call(f, x, x, x, 1)
          \/ \E f \in LagCalls, n \in Lags : Call(f, x, x, x, n)
          \/ \E f \in PairCalls, n \in Lags : Call(f, x, y, y, n)
          \/ \E z \in draft.named : Call("where", x, y, z, 1)
    BY DEF Draft
  <2>2. Lags \subseteq Int /\ 1 \in Int
    BY FormulaAssumption
  <2>3. /\ Calls \subseteq Foreign \cup Vocabulary /\ "where" \in Vocabulary
        /\ LagCalls \subseteq Vocabulary /\ PairCalls \subseteq Vocabulary
    BY DEF Vocabulary
  <2> QED
    BY <1>2, <2>1, <2>2, <2>3
<1> QED
  BY <1>1, <1>3 DEF DraftInv, Violations

\* What DraftInv says is kept by every step: drafting from the vocabulary alone
\* adds values that look back only, the gate looks at the whole body, and a body
\* is judged as it was registered.
\* (purity.py:85-165, alpha.py:164-168)
THEOREM DraftInductive == FormulaSpec => []DraftInv
<1>1. FormulaInit => DraftInv
  BY DraftInitially
<1>2. DraftInv /\ [FormulaNext]_formulas => DraftInv'
  <2> SUFFICES ASSUME DraftInv, [FormulaNext]_formulas PROVE DraftInv'
    OBVIOUS
  <2>1. CASE Draft
    BY <2>1, DraftStep
  <2>2. CASE Register
    BY <2>2 DEF Register, DraftInv, Sound, Violations
  <2>3. ASSUME UNCHANGED <<draft, gate>> PROVE DraftInv'
    BY <2>3 DEF DraftInv, Sound, Violations
  <2>4. CASE InformationCoefficient \/ ICReport \/ DecileSpread \/ UNCHANGED formulas
    BY <2>3, <2>4 DEF InformationCoefficient, ICReport, DecileSpread, formulas
  <2> QED
    BY <2>1, <2>2, <2>4 DEF FormulaNext
<1> QED
  BY <1>1, <1>2, PTL DEF FormulaSpec

LEMMA NoPeekFromDraft == DraftInv => NoPeek
<1> SUFFICES ASSUME DraftInv, gate = "registered", draft.foreign \cap Uncaught = {},
                    NEW branch \in BOOLEAN, NEW i \in 0 .. LastRow
             PROVE  LET q == History(0, LastRow, branch)
                        v == draft.value[q][i]
                    IN  /\ v \subseteq Filled \cup 0 .. i
                        /\ v = draft.value[Visible(q, i)][i]
                        /\ i \in judged.rows => i + Forward \notin v
  BY DEF NoPeek
<1> DEFINE q == History(0, LastRow, branch)
<1>1. draft.foreign = {}
  BY DEF DraftInv, Sound, Violations, Foreign
<1>2. LooksBack(draft.value)
  BY <1>1 DEF DraftInv, Sound
<1>3. q \in Panels /\ q.last = LastRow
  BY FormulaAssumption DEF Panels, History
<1>4. Prefix(draft.value[q], draft.value[Visible(q, i)], LastRow, i)
  BY <1>2, <1>3 DEF LooksBack
<1>5. /\ draft.value[q][i] \subseteq Filled \cup 0 .. i
      /\ draft.value[q][i] = draft.value[Visible(q, i)][i]
  BY <1>4, FormulaAssumption DEF Prefix, Past
<1>6. i + Forward \notin Filled \cup 0 .. i
  BY FormulaAssumption DEF Filled
<1> QED
  BY <1>5, <1>6

\* No look-ahead in a formula of any length, over any lags, on any panel: one
\* that passed the purity gate and stays within calls, arithmetic and
\* comparisons of whole columns reads nothing after the row it scores, whether
\* the panel is evaluated whole or row by row.
\* (operators.py:34-39, purity.py:54-63, alpha.py:164-168, bench.py:90-93)
THEOREM NoPeekAlways == FormulaSpec => []NoPeek
BY DraftInductive, NoPeekFromDraft, PTL

-----------------------------------------------------------------------------
(***************************************************************************)
(* Settled.  A column settles on a young panel once its windows are full.  *)
(***************************************************************************)
\* A column of a panel that began Age rows later, and the same column of the
\* older panel: k rows into the young panel they have settled, that is, they
\* have a value and it is the same.
Agree(x, y, k, m) ==
  /\ DOMAIN x = Age .. m /\ DOMAIN y = 0 .. m
  /\ \A r \in (Age + k) .. m : x[r] # NaN /\ x[r] = y[r]

LEMMA AgeIsNat == Age \in Nat
BY DEF Age

LEMMA ArithAgree ==
  ASSUME NEW xs, NEW ys, 1 \in DOMAIN xs, DOMAIN ys = DOMAIN xs, NEW m \in Int, NEW k \in Nat,
         \A j \in DOMAIN xs : Agree(xs[j], ys[j], k, m)
  PROVE  Agree(Arith(xs), Arith(ys), k, m)
<1>1. DOMAIN Arith(xs) = Age .. m /\ DOMAIN Arith(ys) = 0 .. m
  BY DEF Arith, Agree
<1>2. ASSUME NEW r \in (Age + k) .. m PROVE Arith(xs)[r] # NaN /\ Arith(xs)[r] = Arith(ys)[r]
  <2> DEFINE vs == {xs[j][r] : j \in DOMAIN xs}
  <2>1. r \in Age .. m /\ r \in 0 .. m
    BY <1>2, AgeIsNat
  <2>2. vs = {ys[j][r] : j \in DOMAIN ys}
    BY <1>2 DEF Agree
  <2>3. Arith(xs)[r] = All(vs) /\ Arith(ys)[r] = All({ys[j][r] : j \in DOMAIN ys})
    BY <1>1, <2>1 DEF Arith
  <2>4. NaN \notin vs
    BY <1>2 DEF Agree
  <2>5. xs[1][r] # NaN /\ xs[1][r] \in vs
    BY <1>2 DEF Agree
  <2> HIDE DEF vs
  <2>6. All(vs) # NaN
    BY <2>4, <2>5 DEF All, NaN
  <2> QED
    BY <2>2, <2>3, <2>6
<1> QED
  BY <1>1, <1>2 DEF Agree

LEMMA AgreeLater ==
  ASSUME NEW m \in Int, NEW x, NEW y, NEW k \in Nat, Agree(x, y, k, m), NEW l \in Nat, k <= l
  PROVE  Agree(x, y, l, m)
BY AgeIsNat DEF Agree

LEMMA ArithAgree1 ==
  ASSUME NEW m \in Int, NEW k \in Nat, NEW x, NEW y, Agree(x, y, k, m)
  PROVE  Agree(Arith(<<x>>), Arith(<<y>>), k, m)
<1> DEFINE xs == <<x>>
           ys == <<y>>
<1>1. DOMAIN xs = {1} /\ DOMAIN ys = {1} /\ xs[1] = x /\ ys[1] = y
  OBVIOUS
<1> HIDE DEF xs, ys
<1>2. Agree(Arith(xs), Arith(ys), k, m)
  BY <1>1, ArithAgree
<1> QED
  BY <1>2 DEF xs, ys

LEMMA ArithAgree2 ==
  ASSUME NEW m \in Int, NEW k \in Nat, NEW x, NEW y, Agree(x, y, k, m),
         NEW x2, NEW y2, Agree(x2, y2, k, m)
  PROVE  Agree(Arith(<<x, x2>>), Arith(<<y, y2>>), k, m)
<1> DEFINE xs == <<x, x2>>
           ys == <<y, y2>>
<1>1. /\ DOMAIN xs = {1, 2} /\ DOMAIN ys = {1, 2}
      /\ xs[1] = x /\ ys[1] = y /\ xs[2] = x2 /\ ys[2] = y2
  OBVIOUS
<1> HIDE DEF xs, ys
<1>2. Agree(Arith(xs), Arith(ys), k, m)
  BY <1>1, ArithAgree
<1> QED
  BY <1>2 DEF xs, ys

LEMMA ArithAgree3 ==
  ASSUME NEW m \in Int, NEW k \in Nat, NEW x, NEW y, Agree(x, y, k, m),
         NEW x2, NEW y2, Agree(x2, y2, k, m), NEW x3, NEW y3, Agree(x3, y3, k, m)
  PROVE  Agree(Arith(<<x, x2, x3>>), Arith(<<y, y2, y3>>), k, m)
<1> DEFINE xs == <<x, x2, x3>>
           ys == <<y, y2, y3>>
<1>1. /\ DOMAIN xs = {1, 2, 3} /\ DOMAIN ys = {1, 2, 3}
      /\ xs[1] = x /\ ys[1] = y /\ xs[2] = x2 /\ ys[2] = y2 /\ xs[3] = x3 /\ ys[3] = y3
  OBVIOUS
<1> HIDE DEF xs, ys
<1>2. Agree(Arith(xs), Arith(ys), k, m)
  BY <1>1, ArithAgree
<1> QED
  BY <1>2 DEF xs, ys

LEMMA ArithAgree4 ==
  ASSUME NEW m \in Int, NEW k \in Nat, NEW x, NEW y, Agree(x, y, k, m),
         NEW x2, NEW y2, Agree(x2, y2, k, m), NEW x3, NEW y3, Agree(x3, y3, k, m),
         NEW x4, NEW y4, Agree(x4, y4, k, m)
  PROVE  Agree(Arith(<<x, x2, x3, x4>>), Arith(<<y, y2, y3, y4>>), k, m)
<1> DEFINE xs == <<x, x2, x3, x4>>
           ys == <<y, y2, y3, y4>>
<1>1. /\ DOMAIN xs = {1, 2, 3, 4} /\ DOMAIN ys = {1, 2, 3, 4}
      /\ xs[1] = x /\ ys[1] = y /\ xs[2] = x2 /\ ys[2] = y2 /\ xs[3] = x3 /\ ys[3] = y3
      /\ xs[4] = x4 /\ ys[4] = y4
  OBVIOUS
<1> HIDE DEF xs, ys
<1>2. Agree(Arith(xs), Arith(ys), k, m)
  BY <1>1, ArithAgree
<1> QED
  BY <1>2 DEF xs, ys

LEMMA WhereAgree ==
  ASSUME NEW m \in Int, NEW k \in Nat, NEW c, NEW d, Agree(c, d, k, m),
         NEW x, NEW y, Agree(x, y, k, m), NEW x2, NEW y2, Agree(x2, y2, k, m), NEW branch
  PROVE  Agree(Where(c, x, x2, branch), Where(d, y, y2, branch), k, m)
<1>1. DOMAIN Where(c, x, x2, branch) = Age .. m /\ DOMAIN Where(d, y, y2, branch) = 0 .. m
  BY DEF Where, Agree
<1>2. ASSUME NEW r \in (Age + k) .. m
      PROVE  /\ Where(c, x, x2, branch)[r] # NaN
             /\ Where(c, x, x2, branch)[r] = Where(d, y, y2, branch)[r]
  <2>1. r \in DOMAIN c /\ r \in DOMAIN d
    BY <1>2, AgeIsNat DEF Agree
  <2>2. /\ c[r] # NaN /\ x[r] # NaN /\ x2[r] # NaN
        /\ c[r] = d[r] /\ x[r] = y[r] /\ x2[r] = y2[r]
    BY <1>2 DEF Agree
  <2> QED
    BY <2>1, <2>2 DEF Where, NaN
<1> QED
  BY <1>1, <1>2 DEF Agree

LEMMA DelayAgree ==
  ASSUME NEW m \in Int, NEW k \in Nat, NEW x, NEW y, Agree(x, y, k, m), NEW d \in Nat,
         NEW l \in Nat, k + d <= l
  PROVE  Agree(Delay(x, d), Delay(y, d), l, m)
<1>1. DOMAIN Delay(x, d) = Age .. m /\ DOMAIN Delay(y, d) = 0 .. m
  BY DEF Delay, Agree
<1>2. ASSUME NEW r \in (Age + l) .. m
      PROVE  Delay(x, d)[r] # NaN /\ Delay(x, d)[r] = Delay(y, d)[r]
  <2>1. /\ r \in Age .. m /\ r \in 0 .. m
        /\ r - d \in Age .. m /\ r - d \in 0 .. m /\ r - d \in (Age + k) .. m
    BY <1>2, AgeIsNat
  <2>2. Delay(x, d)[r] = x[r - d] /\ Delay(y, d)[r] = y[r - d]
    BY <2>1 DEF Delay, Agree
  <2> QED
    BY <2>1, <2>2 DEF Agree
<1> QED
  BY <1>1, <1>2 DEF Agree

LEMMA ReducedNotNaN ==
  ASSUME NEW x, NEW i \in Int, NEW n \in Nat, n >= 1,
         NEW kind \in Reductions, kind = "std" => n >= 2,
         \A r \in (i - n + 1) .. i : x[r] # NaN
  PROVE  Reduced(kind, x, i, n) # NaN
<1> DEFINE window == (i - n + 1) .. i
           seen == {r \in window : x[r] # NaN}
           union == UNION {x[r] : r \in window}
<1>1. seen = window /\ i \in window
  OBVIOUS
<1>2. union # NaN
  <2>1. x[i] # NaN /\ x[i] \in {x[r] : r \in window}
    BY <1>1
  <2> QED
    BY <2>1 DEF NaN
<1>3. Cardinality(window) = n
  <2>1. i - n + 1 \in Int /\ i \in Int /\ i - n + 1 <= i
    OBVIOUS
  <2>2. Cardinality(window) = i - (i - n + 1) + 1
    BY <2>1, FS_Interval
  <2> QED
    BY <2>2
<1>4. Filled # NaN
  BY DEF Filled, NaN
<1>5. Reduced(kind, x, i, n) =
        CASE kind = "skip" -> union
          [] kind = "sum" -> IF union = NaN THEN Filled ELSE union
          [] kind = "std" -> IF Cardinality(seen) >= 2 THEN union ELSE NaN
          [] kind = "rank" -> IF x[i] # NaN THEN union ELSE NaN
          [] kind = "strict" -> IF seen = window THEN union ELSE NaN
  BY DEF Reduced
<1>6. kind = "std" => Cardinality(seen) >= 2
  BY <1>1, <1>3
<1>7. x[i] # NaN
  BY <1>1
<1> HIDE DEF window, seen, union
<1> QED
  BY <1>1, <1>2, <1>4, <1>5, <1>6, <1>7 DEF Reductions

LEMMA RollingAgree ==
  ASSUME NEW m \in Int, NEW k \in Nat, NEW x, NEW y, Agree(x, y, k, m), NEW kind \in Reductions,
         NEW n \in Nat, n >= 1, kind = "std" => n >= 2, NEW l \in Nat, k + n <= l + 1
  PROVE  Agree(Rolling(kind, x, n), Rolling(kind, y, n), l, m)
<1>1. DOMAIN Rolling(kind, x, n) = Age .. m /\ DOMAIN Rolling(kind, y, n) = 0 .. m
  BY DEF Rolling, Agree
<1>2. ASSUME NEW r \in (Age + l) .. m
      PROVE  Rolling(kind, x, n)[r] # NaN /\ Rolling(kind, x, n)[r] = Rolling(kind, y, n)[r]
  <2>1. /\ r \in Int /\ r \in Age .. m /\ r \in 0 .. m
        /\ r - n + 1 \in Age .. m /\ r - n + 1 \in 0 .. m
        /\ (r - n + 1) .. r \subseteq (Age + k) .. m
    BY <1>2, AgeIsNat
  <2>2. \A s \in (r - n + 1) .. r : x[s] # NaN /\ x[s] = y[s]
    BY <2>1 DEF Agree
  <2>3. /\ Rolling(kind, x, n)[r] = Reduced(kind, x, r, n)
        /\ Rolling(kind, y, n)[r] = Reduced(kind, y, r, n)
    BY <2>1 DEF Rolling, Agree
  <2>4. Reduced(kind, x, r, n) # NaN
    BY <2>1, <2>2, ReducedNotNaN
  <2>5. Reduced(kind, x, r, n) = Reduced(kind, y, r, n)
    BY <2>1, <2>2, ReducedSame
  <2> QED
    BY <2>3, <2>4, <2>5
<1> QED
  BY <1>1, <1>2 DEF Agree

LEMMA DeltaAgree ==
  ASSUME NEW m \in Int, NEW k \in Nat, NEW x, NEW y, Agree(x, y, k, m), NEW d \in Nat,
         NEW l \in Nat, k + d <= l
  PROVE  Agree(Delta(x, d), Delta(y, d), l, m)
BY AgreeLater, DelayAgree, ArithAgree2 DEF Delta

\* The fields and derived columns of the two panels.
SameBars(new, old, m) ==
  /\ Agree(new.close, old.close, 0, m) /\ Agree(new.open, old.open, 0, m)
  /\ Agree(new.high, old.high, 0, m)
  /\ Agree(new.low, old.low, 0, m) /\ Agree(new.volume, old.volume, 0, m)
  /\ Agree(new.vwap, old.vwap, 0, m) /\ Agree(new.number, old.number, 0, m)
  /\ Agree(new.returns, old.returns, 1, m)
  /\ new.branch = old.branch

\* An alpha that has settled k rows into a panel, which its warmup allows for.
Ready(a, b, k, m) ==
  /\ a.warmup \in Nat /\ b.warmup = a.warmup /\ k <= a.warmup
  /\ Agree(a.scores, b.scores, k, m)

\* The rolling operators, by the reduction they take.
LEMMA TsMeanAgree ==
  ASSUME NEW m \in Int, NEW k \in Nat, NEW x, NEW y, Agree(x, y, k, m),
         NEW n \in Nat, n >= 1, NEW l \in Nat, k + n <= l + 1
  PROVE  Agree(TsMean(x, n), TsMean(y, n), l, m)
BY RollingAgree DEF TsMean, Reductions

LEMMA TsSumAgree ==
  ASSUME NEW m \in Int, NEW k \in Nat, NEW x, NEW y, Agree(x, y, k, m),
         NEW n \in Nat, n >= 1, NEW l \in Nat, k + n <= l + 1
  PROVE  Agree(TsSum(x, n), TsSum(y, n), l, m)
BY RollingAgree DEF TsSum, Reductions

LEMMA TsStdAgree ==
  ASSUME NEW m \in Int, NEW k \in Nat, NEW x, NEW y, Agree(x, y, k, m),
         NEW n \in Nat, n >= 2, NEW l \in Nat, k + n <= l + 1
  PROVE  Agree(TsStd(x, n), TsStd(y, n), l, m)
BY RollingAgree DEF TsStd, Reductions

LEMMA TsMaxAgree ==
  ASSUME NEW m \in Int, NEW k \in Nat, NEW x, NEW y, Agree(x, y, k, m),
         NEW n \in Nat, n >= 1, NEW l \in Nat, k + n <= l + 1
  PROVE  Agree(TsMax(x, n), TsMax(y, n), l, m)
BY RollingAgree DEF TsMax, Reductions

LEMMA TsMinAgree ==
  ASSUME NEW m \in Int, NEW k \in Nat, NEW x, NEW y, Agree(x, y, k, m),
         NEW n \in Nat, n >= 1, NEW l \in Nat, k + n <= l + 1
  PROVE  Agree(TsMin(x, n), TsMin(y, n), l, m)
BY RollingAgree DEF TsMin, Reductions

LEMMA TsArgmaxAgree ==
  ASSUME NEW m \in Int, NEW k \in Nat, NEW x, NEW y, Agree(x, y, k, m),
         NEW n \in Nat, n >= 1, NEW l \in Nat, k + n <= l + 1
  PROVE  Agree(TsArgmax(x, n), TsArgmax(y, n), l, m)
BY RollingAgree DEF TsArgmax, Reductions

LEMMA TsArgminAgree ==
  ASSUME NEW m \in Int, NEW k \in Nat, NEW x, NEW y, Agree(x, y, k, m),
         NEW n \in Nat, n >= 1, NEW l \in Nat, k + n <= l + 1
  PROVE  Agree(TsArgmin(x, n), TsArgmin(y, n), l, m)
BY RollingAgree DEF TsArgmin, Reductions

LEMMA TsRankAgree ==
  ASSUME NEW m \in Int, NEW k \in Nat, NEW x, NEW y, Agree(x, y, k, m),
         NEW n \in Nat, n >= 1, NEW l \in Nat, k + n <= l + 1
  PROVE  Agree(TsRank(x, n), TsRank(y, n), l, m)
BY RollingAgree DEF TsRank, Reductions

LEMMA DecayLinearAgree ==
  ASSUME NEW m \in Int, NEW k \in Nat, NEW x, NEW y, Agree(x, y, k, m),
         NEW n \in Nat, n >= 1, NEW l \in Nat, k + n <= l + 1
  PROVE  Agree(DecayLinear(x, n), DecayLinear(y, n), l, m)
BY RollingAgree DEF DecayLinear, Reductions

LEMMA TsCorrAgree ==
  ASSUME NEW m \in Int, NEW k \in Nat, NEW x, NEW y, Agree(x, y, k, m),
         NEW x2, NEW y2, Agree(x2, y2, k, m),
         NEW n \in Nat, n >= 1, NEW l \in Nat, k + n <= l + 1
  PROVE  Agree(TsCorr(x, x2, n), TsCorr(y, y2, n), l, m)
BY ArithAgree2, RollingAgree DEF TsCorr, Reductions

LEMMA TsCovAgree ==
  ASSUME NEW m \in Int, NEW k \in Nat, NEW x, NEW y, Agree(x, y, k, m),
         NEW x2, NEW y2, Agree(x2, y2, k, m),
         NEW n \in Nat, n >= 1, NEW l \in Nat, k + n <= l + 1
  PROVE  Agree(TsCov(x, x2, n), TsCov(y, y2, n), l, m)
BY ArithAgree2, RollingAgree DEF TsCov, Reductions

LEMMA AdvAgree ==
  ASSUME NEW m \in Int, NEW k \in Nat, NEW x, NEW y, Agree(x, y, k, m),
         NEW x2, NEW y2, Agree(x2, y2, k, m),
         NEW n \in Nat, n >= 1, NEW l \in Nat, k + n <= l + 1
  PROVE  Agree(Adv(x, x2, n), Adv(y, y2, n), l, m)
BY ArithAgree2, TsMeanAgree DEF Adv

-----------------------------------------------------------------------------
(***************************************************************************)
(* How far each alpha of the registry looks back: it has settled so many   *)
(* rows into a panel, no more than its warmup.                             *)
(***************************************************************************)

LEMMA SlopesAgree ==
  ASSUME NEW m \in Int, NEW new, NEW old, SameBars(new, old, m)
  PROVE  Agree(SlopeDiff(new), SlopeDiff(old), 20, m)
<1> DEFINE x1(v) == Delay(v.close, 20)
           x2(v) == Delay(v.close, 10)
           x3(v) == Arith(<<x1(v), x2(v), v.close>>)
<1>1. Agree(x1(new), x1(old), 20, m)
  BY DelayAgree DEF SameBars
<1>2. Agree(x2(new), x2(old), 10, m)
  BY DelayAgree DEF SameBars
<1>3. /\ Agree(x2(new), x2(old), 20, m)
      /\ Agree(new.close, old.close, 20, m)
  BY <1>2, AgreeLater DEF SameBars
<1>4. Agree(x3(new), x3(old), 20, m)
  BY <1>1, <1>3, ArithAgree3
<1> QED
  BY <1>4 DEF SlopeDiff

LEMMA alpha101_001_ready ==
  ASSUME NEW m \in Int, NEW new, NEW old, SameBars(new, old, m)
  PROVE  Ready(alpha101_001(new), alpha101_001(old), 24, m)
<1> DEFINE x1(v) == TsStd(v.returns, 20)
           x2(v) == Where(v.returns, x1(v), v.close, v.branch)
           x3(v) == SignedPower(x2(v))
           x4(v) == TsArgmax(x3(v), 5)
           x5(v) == Rank(x4(v))
<1>1. Agree(x1(new), x1(old), 20, m)
  BY TsStdAgree DEF SameBars
<1>2. /\ Agree(new.returns, old.returns, 20, m)
      /\ Agree(new.close, old.close, 20, m)
  BY AgreeLater DEF SameBars
<1>3. Agree(x2(new), x2(old), 20, m)
  BY <1>1, <1>2, WhereAgree DEF SameBars
<1>4. Agree(x3(new), x3(old), 20, m)
  BY <1>3, ArithAgree1 DEF SignedPower
<1>5. Agree(x4(new), x4(old), 24, m)
  BY <1>4, TsArgmaxAgree
<1>6. Agree(x5(new), x5(old), 24, m)
  BY <1>5, ArithAgree1 DEF Rank
<1> QED
  BY <1>6 DEF alpha101_001, Alpha, Ready

LEMMA alpha101_002_ready ==
  ASSUME NEW m \in Int, NEW new, NEW old, SameBars(new, old, m)
  PROVE  Ready(alpha101_002(new), alpha101_002(old), 7, m)
<1> DEFINE x1(v) == Delta(v.volume, 2)
           x2(v) == Rank(x1(v))
           x3(v) == SafeDiv(v.close, v.open)
           x4(v) == Rank(x3(v))
           x5(v) == TsCorr(x2(v), x4(v), 6)
<1>1. Agree(x1(new), x1(old), 2, m)
  BY DeltaAgree DEF SameBars
<1>2. Agree(x2(new), x2(old), 2, m)
  BY <1>1, ArithAgree1 DEF Rank
<1>3. Agree(x3(new), x3(old), 0, m)
  BY ArithAgree2 DEF SafeDiv, SameBars
<1>4. Agree(x4(new), x4(old), 0, m)
  BY <1>3, ArithAgree1 DEF Rank
<1>5. Agree(x4(new), x4(old), 2, m)
  BY <1>4, AgreeLater
<1>6. Agree(x5(new), x5(old), 7, m)
  BY <1>2, <1>5, TsCorrAgree
<1> QED
  BY <1>6 DEF alpha101_002, Alpha, Ready

LEMMA alpha101_003_ready ==
  ASSUME NEW m \in Int, NEW new, NEW old, SameBars(new, old, m)
  PROVE  Ready(alpha101_003(new), alpha101_003(old), 9, m)
<1> DEFINE x1(v) == Rank(v.open)
           x2(v) == Rank(v.volume)
           x3(v) == TsCorr(x1(v), x2(v), 10)
<1>1. Agree(x1(new), x1(old), 0, m)
  BY ArithAgree1 DEF Rank, SameBars
<1>2. Agree(x2(new), x2(old), 0, m)
  BY ArithAgree1 DEF Rank, SameBars
<1>3. Agree(x3(new), x3(old), 9, m)
  BY <1>1, <1>2, TsCorrAgree
<1> QED
  BY <1>3 DEF alpha101_003, Alpha, Ready

LEMMA alpha101_004_ready ==
  ASSUME NEW m \in Int, NEW new, NEW old, SameBars(new, old, m)
  PROVE  Ready(alpha101_004(new), alpha101_004(old), 8, m)
<1> DEFINE x1(v) == Rank(v.low)
           x2(v) == TsRank(x1(v), 9)
<1>1. Agree(x1(new), x1(old), 0, m)
  BY ArithAgree1 DEF Rank, SameBars
<1>2. Agree(x2(new), x2(old), 8, m)
  BY <1>1, TsRankAgree
<1> QED
  BY <1>2 DEF alpha101_004, Alpha, Ready

LEMMA alpha101_006_ready ==
  ASSUME NEW m \in Int, NEW new, NEW old, SameBars(new, old, m)
  PROVE  Ready(alpha101_006(new), alpha101_006(old), 9, m)
<1> DEFINE x1(v) == TsCorr(v.open, v.volume, 10)
<1>1. Agree(x1(new), x1(old), 9, m)
  BY TsCorrAgree DEF SameBars
<1> QED
  BY <1>1 DEF alpha101_006, Alpha, Ready

LEMMA alpha101_008_ready ==
  ASSUME NEW m \in Int, NEW new, NEW old, SameBars(new, old, m)
  PROVE  Ready(alpha101_008(new), alpha101_008(old), 15, m)
<1> DEFINE x1(v) == TsSum(v.open, 5)
           x2(v) == TsSum(v.returns, 5)
           x3(v) == Arith(<<x1(v), x2(v)>>)
           x4(v) == Delta(x3(v), 10)
           x5(v) == Rank(x4(v))
<1>1. Agree(x1(new), x1(old), 4, m)
  BY TsSumAgree DEF SameBars
<1>2. Agree(x2(new), x2(old), 5, m)
  BY TsSumAgree DEF SameBars
<1>3. Agree(x1(new), x1(old), 5, m)
  BY <1>1, AgreeLater
<1>4. Agree(x3(new), x3(old), 5, m)
  BY <1>2, <1>3, ArithAgree2
<1>5. Agree(x4(new), x4(old), 15, m)
  BY <1>4, DeltaAgree
<1>6. Agree(x5(new), x5(old), 15, m)
  BY <1>5, ArithAgree1 DEF Rank
<1> QED
  BY <1>6 DEF alpha101_008, Alpha, Ready

LEMMA alpha101_009_ready ==
  ASSUME NEW m \in Int, NEW new, NEW old, SameBars(new, old, m)
  PROVE  Ready(alpha101_009(new), alpha101_009(old), 5, m)
<1> DEFINE x1(v) == Delta(v.close, 1)
           x2(v) == TsMin(x1(v), 5)
           x3(v) == TsMax(x1(v), 5)
           x4(v) == Arith(<<x2(v), x3(v)>>)
           x5(v) == Where(x4(v), x1(v), x1(v), v.branch)
<1>1. Agree(x1(new), x1(old), 1, m)
  BY DeltaAgree DEF SameBars
<1>2. Agree(x2(new), x2(old), 5, m)
  BY <1>1, TsMinAgree
<1>3. Agree(x3(new), x3(old), 5, m)
  BY <1>1, TsMaxAgree
<1>4. Agree(x4(new), x4(old), 5, m)
  BY <1>2, <1>3, ArithAgree2
<1>5. Agree(x1(new), x1(old), 5, m)
  BY <1>1, AgreeLater
<1>6. Agree(x5(new), x5(old), 5, m)
  BY <1>4, <1>5, WhereAgree DEF SameBars
<1> QED
  BY <1>6 DEF alpha101_009, Alpha, Ready

LEMMA alpha101_012_ready ==
  ASSUME NEW m \in Int, NEW new, NEW old, SameBars(new, old, m)
  PROVE  Ready(alpha101_012(new), alpha101_012(old), 1, m)
<1> DEFINE x1(v) == Delta(v.volume, 1)
           x2(v) == Delta(v.close, 1)
           x3(v) == Arith(<<x1(v), x2(v)>>)
<1>1. Agree(x1(new), x1(old), 1, m)
  BY DeltaAgree DEF SameBars
<1>2. Agree(x2(new), x2(old), 1, m)
  BY DeltaAgree DEF SameBars
<1>3. Agree(x3(new), x3(old), 1, m)
  BY <1>1, <1>2, ArithAgree2
<1> QED
  BY <1>3 DEF alpha101_012, Alpha, Ready

LEMMA alpha101_013_ready ==
  ASSUME NEW m \in Int, NEW new, NEW old, SameBars(new, old, m)
  PROVE  Ready(alpha101_013(new), alpha101_013(old), 4, m)
<1> DEFINE x1(v) == Rank(v.close)
           x2(v) == Rank(v.volume)
           x3(v) == TsCov(x1(v), x2(v), 5)
           x4(v) == Rank(x3(v))
<1>1. Agree(x1(new), x1(old), 0, m)
  BY ArithAgree1 DEF Rank, SameBars
<1>2. Agree(x2(new), x2(old), 0, m)
  BY ArithAgree1 DEF Rank, SameBars
<1>3. Agree(x3(new), x3(old), 4, m)
  BY <1>1, <1>2, TsCovAgree
<1>4. Agree(x4(new), x4(old), 4, m)
  BY <1>3, ArithAgree1 DEF Rank
<1> QED
  BY <1>4 DEF alpha101_013, Alpha, Ready

LEMMA alpha101_014_ready ==
  ASSUME NEW m \in Int, NEW new, NEW old, SameBars(new, old, m)
  PROVE  Ready(alpha101_014(new), alpha101_014(old), 9, m)
<1> DEFINE x1(v) == Delta(v.returns, 3)
           x2(v) == Rank(x1(v))
           x3(v) == TsCorr(v.open, v.volume, 10)
           x4(v) == Arith(<<x2(v), x3(v)>>)
<1>1. Agree(x1(new), x1(old), 4, m)
  BY DeltaAgree DEF SameBars
<1>2. Agree(x2(new), x2(old), 4, m)
  BY <1>1, ArithAgree1 DEF Rank
<1>3. Agree(x3(new), x3(old), 9, m)
  BY TsCorrAgree DEF SameBars
<1>4. Agree(x2(new), x2(old), 9, m)
  BY <1>2, AgreeLater
<1>5. Agree(x4(new), x4(old), 9, m)
  BY <1>3, <1>4, ArithAgree2
<1> QED
  BY <1>5 DEF alpha101_014, Alpha, Ready

LEMMA alpha101_016_ready ==
  ASSUME NEW m \in Int, NEW new, NEW old, SameBars(new, old, m)
  PROVE  Ready(alpha101_016(new), alpha101_016(old), 4, m)
<1> DEFINE x1(v) == Rank(v.high)
           x2(v) == Rank(v.volume)
           x3(v) == TsCov(x1(v), x2(v), 5)
           x4(v) == Rank(x3(v))
<1>1. Agree(x1(new), x1(old), 0, m)
  BY ArithAgree1 DEF Rank, SameBars
<1>2. Agree(x2(new), x2(old), 0, m)
  BY ArithAgree1 DEF Rank, SameBars
<1>3. Agree(x3(new), x3(old), 4, m)
  BY <1>1, <1>2, TsCovAgree
<1>4. Agree(x4(new), x4(old), 4, m)
  BY <1>3, ArithAgree1 DEF Rank
<1> QED
  BY <1>4 DEF alpha101_016, Alpha, Ready

LEMMA alpha101_018_ready ==
  ASSUME NEW m \in Int, NEW new, NEW old, SameBars(new, old, m)
  PROVE  Ready(alpha101_018(new), alpha101_018(old), 9, m)
<1> DEFINE x1(v) == Arith(<<v.close, v.open>>)
           x2(v) == TsStd(x1(v), 5)
           x3(v) == TsCorr(v.close, v.open, 10)
           x4(v) == Arith(<<x2(v), x1(v), x3(v)>>)
           x5(v) == Rank(x4(v))
<1>1. Agree(x1(new), x1(old), 0, m)
  BY ArithAgree2 DEF SameBars
<1>2. Agree(x2(new), x2(old), 4, m)
  BY <1>1, TsStdAgree
<1>3. Agree(x3(new), x3(old), 9, m)
  BY TsCorrAgree DEF SameBars
<1>4. /\ Agree(x2(new), x2(old), 9, m)
      /\ Agree(x1(new), x1(old), 9, m)
  BY <1>1, <1>2, AgreeLater
<1>5. Agree(x4(new), x4(old), 9, m)
  BY <1>3, <1>4, ArithAgree3
<1>6. Agree(x5(new), x5(old), 9, m)
  BY <1>5, ArithAgree1 DEF Rank
<1> QED
  BY <1>6 DEF alpha101_018, Alpha, Ready

LEMMA alpha101_019_ready ==
  ASSUME NEW m \in Int, NEW new, NEW old, SameBars(new, old, m)
  PROVE  Ready(alpha101_019(new), alpha101_019(old), 250, m)
<1> DEFINE x1(v) == Delay(v.close, 7)
           x2(v) == Delta(v.close, 7)
           x3(v) == TsSum(v.returns, 250)
           x4(v) == Rank(x3(v))
           x5(v) == Arith(<<x1(v), x2(v), x4(v)>>)
<1>1. Agree(x1(new), x1(old), 7, m)
  BY DelayAgree DEF SameBars
<1>2. Agree(x2(new), x2(old), 7, m)
  BY DeltaAgree DEF SameBars
<1>3. Agree(x3(new), x3(old), 250, m)
  BY TsSumAgree DEF SameBars
<1>4. Agree(x4(new), x4(old), 250, m)
  BY <1>3, ArithAgree1 DEF Rank
<1>5. /\ Agree(x1(new), x1(old), 250, m)
      /\ Agree(x2(new), x2(old), 250, m)
  BY <1>1, <1>2, AgreeLater
<1>6. Agree(x5(new), x5(old), 250, m)
  BY <1>4, <1>5, ArithAgree3
<1> QED
  BY <1>6 DEF alpha101_019, Alpha, Ready

LEMMA alpha101_023_ready ==
  ASSUME NEW m \in Int, NEW new, NEW old, SameBars(new, old, m)
  PROVE  Ready(alpha101_023(new), alpha101_023(old), 19, m)
<1> DEFINE x1(v) == TsMean(v.high, 20)
           x2(v) == Arith(<<x1(v), v.high>>)
           x3(v) == Delta(v.high, 2)
           x4(v) == Where(x2(v), x3(v), v.number, v.branch)
<1>1. Agree(x1(new), x1(old), 19, m)
  BY TsMeanAgree DEF SameBars
<1>2. Agree(new.high, old.high, 19, m)
  BY AgreeLater DEF SameBars
<1>3. Agree(x2(new), x2(old), 19, m)
  BY <1>1, <1>2, ArithAgree2
<1>4. Agree(x3(new), x3(old), 2, m)
  BY DeltaAgree DEF SameBars
<1>5. /\ Agree(x3(new), x3(old), 19, m)
      /\ Agree(new.number, old.number, 19, m)
  BY <1>4, AgreeLater DEF SameBars
<1>6. Agree(x4(new), x4(old), 19, m)
  BY <1>3, <1>5, WhereAgree DEF SameBars
<1> QED
  BY <1>6 DEF alpha101_023, Alpha, Ready

LEMMA alpha101_026_ready ==
  ASSUME NEW m \in Int, NEW new, NEW old, SameBars(new, old, m)
  PROVE  Ready(alpha101_026(new), alpha101_026(old), 10, m)
<1> DEFINE x1(v) == TsRank(v.volume, 5)
           x2(v) == TsRank(v.high, 5)
           x3(v) == TsCorr(x1(v), x2(v), 5)
           x4(v) == TsMax(x3(v), 3)
<1>1. Agree(x1(new), x1(old), 4, m)
  BY TsRankAgree DEF SameBars
<1>2. Agree(x2(new), x2(old), 4, m)
  BY TsRankAgree DEF SameBars
<1>3. Agree(x3(new), x3(old), 8, m)
  BY <1>1, <1>2, TsCorrAgree
<1>4. Agree(x4(new), x4(old), 10, m)
  BY <1>3, TsMaxAgree
<1> QED
  BY <1>4 DEF alpha101_026, Alpha, Ready

LEMMA alpha101_028_ready ==
  ASSUME NEW m \in Int, NEW new, NEW old, SameBars(new, old, m)
  PROVE  Ready(alpha101_028(new), alpha101_028(old), 23, m)
<1> DEFINE x1(v) == Adv(v.close, v.volume, 20)
           x2(v) == TsCorr(x1(v), v.low, 5)
           x3(v) == Arith(<<x2(v), v.high, v.low, v.close>>)
           x4(v) == ScaleRow(x3(v))
<1>1. Agree(x1(new), x1(old), 19, m)
  BY AdvAgree DEF SameBars
<1>2. Agree(new.low, old.low, 19, m)
  BY AgreeLater DEF SameBars
<1>3. Agree(x2(new), x2(old), 23, m)
  BY <1>1, <1>2, TsCorrAgree
<1>4. /\ Agree(new.high, old.high, 23, m)
      /\ Agree(new.low, old.low, 23, m)
      /\ Agree(new.close, old.close, 23, m)
  BY AgreeLater DEF SameBars
<1>5. Agree(x3(new), x3(old), 23, m)
  BY <1>3, <1>4, ArithAgree4
<1>6. Agree(x4(new), x4(old), 23, m)
  BY <1>5, ArithAgree1 DEF ScaleRow
<1> QED
  BY <1>6 DEF alpha101_028, Alpha, Ready

LEMMA alpha101_032_ready ==
  ASSUME NEW m \in Int, NEW new, NEW old, SameBars(new, old, m)
  PROVE  Ready(alpha101_032(new), alpha101_032(old), 234, m)
<1> DEFINE x1(v) == TsMean(v.close, 7)
           x2(v) == Arith(<<x1(v), v.close>>)
           x3(v) == ScaleRow(x2(v))
           x4(v) == Delay(v.close, 5)
           x5(v) == TsCorr(v.vwap, x4(v), 230)
           x6(v) == ScaleRow(x5(v))
           x7(v) == Arith(<<x3(v), x6(v)>>)
<1>1. Agree(x1(new), x1(old), 6, m)
  BY TsMeanAgree DEF SameBars
<1>2. Agree(new.close, old.close, 6, m)
  BY AgreeLater DEF SameBars
<1>3. Agree(x2(new), x2(old), 6, m)
  BY <1>1, <1>2, ArithAgree2
<1>4. Agree(x3(new), x3(old), 6, m)
  BY <1>3, ArithAgree1 DEF ScaleRow
<1>5. Agree(x4(new), x4(old), 5, m)
  BY DelayAgree DEF SameBars
<1>6. Agree(new.vwap, old.vwap, 5, m)
  BY AgreeLater DEF SameBars
<1>7. Agree(x5(new), x5(old), 234, m)
  BY <1>5, <1>6, TsCorrAgree
<1>8. Agree(x6(new), x6(old), 234, m)
  BY <1>7, ArithAgree1 DEF ScaleRow
<1>9. Agree(x3(new), x3(old), 234, m)
  BY <1>4, AgreeLater
<1>10. Agree(x7(new), x7(old), 234, m)
  BY <1>8, <1>9, ArithAgree2
<1> QED
  BY <1>10 DEF alpha101_032, Alpha, Ready

LEMMA alpha101_033_ready ==
  ASSUME NEW m \in Int, NEW new, NEW old, SameBars(new, old, m)
  PROVE  Ready(alpha101_033(new), alpha101_033(old), 0, m)
<1> DEFINE x1(v) == SafeDiv(v.open, v.close)
           x2(v) == Rank(x1(v))
<1>1. Agree(x1(new), x1(old), 0, m)
  BY ArithAgree2 DEF SafeDiv, SameBars
<1>2. Agree(x2(new), x2(old), 0, m)
  BY <1>1, ArithAgree1 DEF Rank
<1> QED
  BY <1>2 DEF alpha101_033, Alpha, Ready

LEMMA alpha101_034_ready ==
  ASSUME NEW m \in Int, NEW new, NEW old, SameBars(new, old, m)
  PROVE  Ready(alpha101_034(new), alpha101_034(old), 5, m)
<1> DEFINE x1(v) == TsStd(v.returns, 2)
           x2(v) == TsStd(v.returns, 5)
           x3(v) == SafeDiv(x1(v), x2(v))
           x4(v) == Rank(x3(v))
           x5(v) == Delta(v.close, 1)
           x6(v) == Rank(x5(v))
           x7(v) == Arith(<<x4(v), x6(v)>>)
           x8(v) == Rank(x7(v))
<1>1. Agree(x1(new), x1(old), 2, m)
  BY TsStdAgree DEF SameBars
<1>2. Agree(x2(new), x2(old), 5, m)
  BY TsStdAgree DEF SameBars
<1>3. Agree(x1(new), x1(old), 5, m)
  BY <1>1, AgreeLater
<1>4. Agree(x3(new), x3(old), 5, m)
  BY <1>2, <1>3, ArithAgree2 DEF SafeDiv
<1>5. Agree(x4(new), x4(old), 5, m)
  BY <1>4, ArithAgree1 DEF Rank
<1>6. Agree(x5(new), x5(old), 1, m)
  BY DeltaAgree DEF SameBars
<1>7. Agree(x6(new), x6(old), 1, m)
  BY <1>6, ArithAgree1 DEF Rank
<1>8. Agree(x6(new), x6(old), 5, m)
  BY <1>7, AgreeLater
<1>9. Agree(x7(new), x7(old), 5, m)
  BY <1>5, <1>8, ArithAgree2
<1>10. Agree(x8(new), x8(old), 5, m)
  BY <1>9, ArithAgree1 DEF Rank
<1> QED
  BY <1>10 DEF alpha101_034, Alpha, Ready

LEMMA alpha101_035_ready ==
  ASSUME NEW m \in Int, NEW new, NEW old, SameBars(new, old, m)
  PROVE  Ready(alpha101_035(new), alpha101_035(old), 32, m)
<1> DEFINE x1(v) == TsRank(v.volume, 32)
           x2(v) == Arith(<<v.close, v.high, v.low>>)
           x3(v) == TsRank(x2(v), 16)
           x4(v) == TsRank(v.returns, 32)
           x5(v) == Arith(<<x1(v), x3(v), x4(v)>>)
<1>1. Agree(x1(new), x1(old), 31, m)
  BY TsRankAgree DEF SameBars
<1>2. Agree(x2(new), x2(old), 0, m)
  BY ArithAgree3 DEF SameBars
<1>3. Agree(x3(new), x3(old), 15, m)
  BY <1>2, TsRankAgree
<1>4. Agree(x4(new), x4(old), 32, m)
  BY TsRankAgree DEF SameBars
<1>5. /\ Agree(x1(new), x1(old), 32, m)
      /\ Agree(x3(new), x3(old), 32, m)
  BY <1>1, <1>3, AgreeLater
<1>6. Agree(x5(new), x5(old), 32, m)
  BY <1>4, <1>5, ArithAgree3
<1> QED
  BY <1>6 DEF alpha101_035, Alpha, Ready

LEMMA alpha101_038_ready ==
  ASSUME NEW m \in Int, NEW new, NEW old, SameBars(new, old, m)
  PROVE  Ready(alpha101_038(new), alpha101_038(old), 9, m)
<1> DEFINE x1(v) == TsRank(v.close, 10)
           x2(v) == Rank(x1(v))
           x3(v) == SafeDiv(v.close, v.open)
           x4(v) == Rank(x3(v))
           x5(v) == Arith(<<x2(v), x4(v)>>)
<1>1. Agree(x1(new), x1(old), 9, m)
  BY TsRankAgree DEF SameBars
<1>2. Agree(x2(new), x2(old), 9, m)
  BY <1>1, ArithAgree1 DEF Rank
<1>3. Agree(x3(new), x3(old), 0, m)
  BY ArithAgree2 DEF SafeDiv, SameBars
<1>4. Agree(x4(new), x4(old), 0, m)
  BY <1>3, ArithAgree1 DEF Rank
<1>5. Agree(x4(new), x4(old), 9, m)
  BY <1>4, AgreeLater
<1>6. Agree(x5(new), x5(old), 9, m)
  BY <1>2, <1>5, ArithAgree2
<1> QED
  BY <1>6 DEF alpha101_038, Alpha, Ready

LEMMA alpha101_040_ready ==
  ASSUME NEW m \in Int, NEW new, NEW old, SameBars(new, old, m)
  PROVE  Ready(alpha101_040(new), alpha101_040(old), 9, m)
<1> DEFINE x1(v) == TsStd(v.high, 10)
           x2(v) == Rank(x1(v))
           x3(v) == TsCorr(v.high, v.volume, 10)
           x4(v) == Arith(<<x2(v), x3(v)>>)
<1>1. Agree(x1(new), x1(old), 9, m)
  BY TsStdAgree DEF SameBars
<1>2. Agree(x2(new), x2(old), 9, m)
  BY <1>1, ArithAgree1 DEF Rank
<1>3. Agree(x3(new), x3(old), 9, m)
  BY TsCorrAgree DEF SameBars
<1>4. Agree(x4(new), x4(old), 9, m)
  BY <1>2, <1>3, ArithAgree2
<1> QED
  BY <1>4 DEF alpha101_040, Alpha, Ready

LEMMA alpha101_041_ready ==
  ASSUME NEW m \in Int, NEW new, NEW old, SameBars(new, old, m)
  PROVE  Ready(alpha101_041(new), alpha101_041(old), 0, m)
<1> DEFINE x1(v) == Arith(<<v.high, v.low, v.vwap>>)
<1>1. Agree(x1(new), x1(old), 0, m)
  BY ArithAgree3 DEF SameBars
<1> QED
  BY <1>1 DEF alpha101_041, Alpha, Ready

LEMMA alpha101_044_ready ==
  ASSUME NEW m \in Int, NEW new, NEW old, SameBars(new, old, m)
  PROVE  Ready(alpha101_044(new), alpha101_044(old), 4, m)
<1> DEFINE x1(v) == Rank(v.volume)
           x2(v) == TsCorr(v.high, x1(v), 5)
<1>1. Agree(x1(new), x1(old), 0, m)
  BY ArithAgree1 DEF Rank, SameBars
<1>2. Agree(x2(new), x2(old), 4, m)
  BY <1>1, TsCorrAgree DEF SameBars
<1> QED
  BY <1>2 DEF alpha101_044, Alpha, Ready

LEMMA alpha101_046_ready ==
  ASSUME NEW m \in Int, NEW new, NEW old, SameBars(new, old, m)
  PROVE  Ready(alpha101_046(new), alpha101_046(old), 20, m)
<1> DEFINE x1(v) == SlopeDiff(v)
           x2(v) == Delay(v.close, 1)
           x3(v) == Arith(<<v.close, x2(v)>>)
           x4(v) == Where(x1(v), v.number, x3(v), v.branch)
           x5(v) == Where(x1(v), v.number, x4(v), v.branch)
<1>1. Agree(x1(new), x1(old), 20, m)
  BY SlopesAgree
<1>2. Agree(x2(new), x2(old), 1, m)
  BY DelayAgree DEF SameBars
<1>3. Agree(new.close, old.close, 1, m)
  BY AgreeLater DEF SameBars
<1>4. Agree(x3(new), x3(old), 1, m)
  BY <1>2, <1>3, ArithAgree2
<1>5. /\ Agree(new.number, old.number, 20, m)
      /\ Agree(x3(new), x3(old), 20, m)
  BY <1>4, AgreeLater DEF SameBars
<1>6. Agree(x4(new), x4(old), 20, m)
  BY <1>1, <1>5, WhereAgree DEF SameBars
<1>7. Agree(new.number, old.number, 20, m)
  BY AgreeLater DEF SameBars
<1>8. Agree(x5(new), x5(old), 20, m)
  BY <1>1, <1>6, <1>7, WhereAgree DEF SameBars
<1> QED
  BY <1>8 DEF alpha101_046, Alpha, Ready

LEMMA alpha101_049_ready ==
  ASSUME NEW m \in Int, NEW new, NEW old, SameBars(new, old, m)
  PROVE  Ready(alpha101_049(new), alpha101_049(old), 20, m)
<1> DEFINE x1(v) == SlopeDiff(v)
           x2(v) == Delta(v.close, 1)
           x3(v) == Where(x1(v), v.number, x2(v), v.branch)
<1>1. Agree(x1(new), x1(old), 20, m)
  BY SlopesAgree
<1>2. Agree(x2(new), x2(old), 1, m)
  BY DeltaAgree DEF SameBars
<1>3. /\ Agree(new.number, old.number, 20, m)
      /\ Agree(x2(new), x2(old), 20, m)
  BY <1>2, AgreeLater DEF SameBars
<1>4. Agree(x3(new), x3(old), 20, m)
  BY <1>1, <1>3, WhereAgree DEF SameBars
<1> QED
  BY <1>4 DEF alpha101_049, Alpha, Ready

LEMMA alpha101_051_ready ==
  ASSUME NEW m \in Int, NEW new, NEW old, SameBars(new, old, m)
  PROVE  Ready(alpha101_051(new), alpha101_051(old), 20, m)
<1> DEFINE x1(v) == SlopeDiff(v)
           x2(v) == Delta(v.close, 1)
           x3(v) == Where(x1(v), v.number, x2(v), v.branch)
<1>1. Agree(x1(new), x1(old), 20, m)
  BY SlopesAgree
<1>2. Agree(x2(new), x2(old), 1, m)
  BY DeltaAgree DEF SameBars
<1>3. /\ Agree(new.number, old.number, 20, m)
      /\ Agree(x2(new), x2(old), 20, m)
  BY <1>2, AgreeLater DEF SameBars
<1>4. Agree(x3(new), x3(old), 20, m)
  BY <1>1, <1>3, WhereAgree DEF SameBars
<1> QED
  BY <1>4 DEF alpha101_051, Alpha, Ready

LEMMA alpha101_053_ready ==
  ASSUME NEW m \in Int, NEW new, NEW old, SameBars(new, old, m)
  PROVE  Ready(alpha101_053(new), alpha101_053(old), 9, m)
<1> DEFINE x1(v) == Arith(<<v.close, v.low, v.high>>)
           x2(v) == Arith(<<v.close, v.low>>)
           x3(v) == SafeDiv(x1(v), x2(v))
           x4(v) == Delta(x3(v), 9)
<1>1. Agree(x1(new), x1(old), 0, m)
  BY ArithAgree3 DEF SameBars
<1>2. Agree(x2(new), x2(old), 0, m)
  BY ArithAgree2 DEF SameBars
<1>3. Agree(x3(new), x3(old), 0, m)
  BY <1>1, <1>2, ArithAgree2 DEF SafeDiv
<1>4. Agree(x4(new), x4(old), 9, m)
  BY <1>3, DeltaAgree
<1> QED
  BY <1>4 DEF alpha101_053, Alpha, Ready

LEMMA alpha101_054_ready ==
  ASSUME NEW m \in Int, NEW new, NEW old, SameBars(new, old, m)
  PROVE  Ready(alpha101_054(new), alpha101_054(old), 0, m)
<1> DEFINE x1(v) == Arith(<<v.low, v.close, v.open>>)
           x2(v) == Arith(<<v.low, v.high, v.close>>)
           x3(v) == SafeDiv(x1(v), x2(v))
<1>1. Agree(x1(new), x1(old), 0, m)
  BY ArithAgree3 DEF SameBars
<1>2. Agree(x2(new), x2(old), 0, m)
  BY ArithAgree3 DEF SameBars
<1>3. Agree(x3(new), x3(old), 0, m)
  BY <1>1, <1>2, ArithAgree2 DEF SafeDiv
<1> QED
  BY <1>3 DEF alpha101_054, Alpha, Ready

LEMMA alpha101_101_ready ==
  ASSUME NEW m \in Int, NEW new, NEW old, SameBars(new, old, m)
  PROVE  Ready(alpha101_101(new), alpha101_101(old), 0, m)
<1> DEFINE x1(v) == Arith(<<v.close, v.open>>)
           x2(v) == Arith(<<v.high, v.low>>)
           x3(v) == SafeDiv(x1(v), x2(v))
<1>1. Agree(x1(new), x1(old), 0, m)
  BY ArithAgree2 DEF SameBars
<1>2. Agree(x2(new), x2(old), 0, m)
  BY ArithAgree2 DEF SameBars
<1>3. Agree(x3(new), x3(old), 0, m)
  BY <1>1, <1>2, ArithAgree2 DEF SafeDiv
<1> QED
  BY <1>3 DEF alpha101_101, Alpha, Ready

LEMMA academic_strev_ready ==
  ASSUME NEW m \in Int, NEW new, NEW old, SameBars(new, old, m)
  PROVE  Ready(academic_strev(new), academic_strev(old), 5, m)
<1> DEFINE x1(v) == Delay(v.close, 5)
           x2(v) == Arith(<<v.close, x1(v)>>)
           x3(v) == SafeDiv(x2(v), x1(v))
<1>1. Agree(x1(new), x1(old), 5, m)
  BY DelayAgree DEF SameBars
<1>2. Agree(new.close, old.close, 5, m)
  BY AgreeLater DEF SameBars
<1>3. Agree(x2(new), x2(old), 5, m)
  BY <1>1, <1>2, ArithAgree2
<1>4. Agree(x3(new), x3(old), 5, m)
  BY <1>3, <1>1, ArithAgree2 DEF SafeDiv
<1> QED
  BY <1>4 DEF academic_strev, Alpha, Ready

LEMMA academic_mom_ready ==
  ASSUME NEW m \in Int, NEW new, NEW old, SameBars(new, old, m)
  PROVE  Ready(academic_mom(new), academic_mom(old), 30, m)
<1> DEFINE x1(v) == Delay(v.close, 7)
           x2(v) == Delay(v.close, 30)
           x3(v) == Arith(<<x1(v), x2(v)>>)
           x4(v) == SafeDiv(x3(v), x2(v))
<1>1. Agree(x1(new), x1(old), 7, m)
  BY DelayAgree DEF SameBars
<1>2. Agree(x2(new), x2(old), 30, m)
  BY DelayAgree DEF SameBars
<1>3. Agree(x1(new), x1(old), 30, m)
  BY <1>1, AgreeLater
<1>4. Agree(x3(new), x3(old), 30, m)
  BY <1>2, <1>3, ArithAgree2
<1>5. Agree(x4(new), x4(old), 30, m)
  BY <1>4, <1>2, ArithAgree2 DEF SafeDiv
<1> QED
  BY <1>5 DEF academic_mom, Alpha, Ready

LEMMA academic_illiq_ready ==
  ASSUME NEW m \in Int, NEW new, NEW old, SameBars(new, old, m)
  PROVE  Ready(academic_illiq(new), academic_illiq(old), 20, m)
<1> DEFINE x1(v) == Arith(<<v.close, v.volume>>)
           x2(v) == SafeDiv(v.returns, x1(v))
           x3(v) == TsMean(x2(v), 20)
<1>1. Agree(x1(new), x1(old), 0, m)
  BY ArithAgree2 DEF SameBars
<1>2. Agree(x1(new), x1(old), 1, m)
  BY <1>1, AgreeLater
<1>3. Agree(x2(new), x2(old), 1, m)
  BY <1>2, ArithAgree2 DEF SafeDiv, SameBars
<1>4. Agree(x3(new), x3(old), 20, m)
  BY <1>3, TsMeanAgree
<1> QED
  BY <1>4 DEF academic_illiq, Alpha, Ready

LEMMA academic_high52w_ready ==
  ASSUME NEW m \in Int, NEW new, NEW old, SameBars(new, old, m)
  PROVE  Ready(academic_high52w(new), academic_high52w(old), 364, m)
<1> DEFINE x1(v) == TsMax(v.high, 365)
           x2(v) == SafeDiv(v.close, x1(v))
<1>1. Agree(x1(new), x1(old), 364, m)
  BY TsMaxAgree DEF SameBars
<1>2. Agree(new.close, old.close, 364, m)
  BY AgreeLater DEF SameBars
<1>3. Agree(x2(new), x2(old), 364, m)
  BY <1>1, <1>2, ArithAgree2 DEF SafeDiv
<1> QED
  BY <1>3 DEF academic_high52w, Alpha, Ready

LEMMA academic_ivol_ready ==
  ASSUME NEW m \in Int, NEW new, NEW old, SameBars(new, old, m)
  PROVE  Ready(academic_ivol(new), academic_ivol(old), 30, m)
<1> DEFINE x1(v) == TsStd(v.returns, 30)
<1>1. Agree(x1(new), x1(old), 30, m)
  BY TsStdAgree DEF SameBars
<1> QED
  BY <1>1 DEF academic_ivol, Alpha, Ready

LEMMA academic_maxret_ready ==
  ASSUME NEW m \in Int, NEW new, NEW old, SameBars(new, old, m)
  PROVE  Ready(academic_maxret(new), academic_maxret(old), 20, m)
<1> DEFINE x1(v) == TsMax(v.returns, 20)
<1>1. Agree(x1(new), x1(old), 20, m)
  BY TsMaxAgree DEF SameBars
<1> QED
  BY <1>1 DEF academic_maxret, Alpha, Ready

LEMMA academic_decay_mom_ready ==
  ASSUME NEW m \in Int, NEW new, NEW old, SameBars(new, old, m)
  PROVE  Ready(academic_decay_mom(new), academic_decay_mom(old), 20, m)
<1> DEFINE x1(v) == DecayLinear(v.returns, 20)
<1>1. Agree(x1(new), x1(old), 20, m)
  BY DecayLinearAgree DEF SameBars
<1> QED
  BY <1>1 DEF academic_decay_mom, Alpha, Ready

LEMMA academic_argmin_low_ready ==
  ASSUME NEW m \in Int, NEW new, NEW old, SameBars(new, old, m)
  PROVE  Ready(academic_argmin_low(new), academic_argmin_low(old), 29, m)
<1> DEFINE x1(v) == TsArgmin(v.low, 30)
<1>1. Agree(x1(new), x1(old), 29, m)
  BY TsArgminAgree DEF SameBars
<1> QED
  BY <1>1 DEF academic_argmin_low, Alpha, Ready

LEMMA academic_volume_trend_ready ==
  ASSUME NEW m \in Int, NEW new, NEW old, SameBars(new, old, m)
  PROVE  Ready(academic_volume_trend(new), academic_volume_trend(old), 29, m)
<1> DEFINE x1(v) == Adv(v.close, v.volume, 5)
           x2(v) == Adv(v.close, v.volume, 30)
           x3(v) == SafeDiv(x1(v), x2(v))
           x4(v) == Rank(x3(v))
<1>1. Agree(x1(new), x1(old), 4, m)
  BY AdvAgree DEF SameBars
<1>2. Agree(x2(new), x2(old), 29, m)
  BY AdvAgree DEF SameBars
<1>3. Agree(x1(new), x1(old), 29, m)
  BY <1>1, AgreeLater
<1>4. Agree(x3(new), x3(old), 29, m)
  BY <1>2, <1>3, ArithAgree2 DEF SafeDiv
<1>5. Agree(x4(new), x4(old), 29, m)
  BY <1>4, ArithAgree1 DEF Rank
<1> QED
  BY <1>5 DEF academic_volume_trend, Alpha, Ready

LEMMA ComputeReady ==
  ASSUME NEW m \in Int, NEW new, NEW old, SameBars(new, old, m), NEW name \in Registry
  PROVE  /\ \E k \in Nat : Ready(Compute(name, new), Compute(name, old), k, m)
         /\ \A v : Compute(name, v).warmup = Compute(name, new).warmup
<1>1. CASE name = "alpha101_001"
  BY <1>1, alpha101_001_ready DEF Compute, alpha101_001, Alpha
<1>2. CASE name = "alpha101_002"
  BY <1>2, alpha101_002_ready DEF Compute, alpha101_002, Alpha
<1>3. CASE name = "alpha101_003"
  BY <1>3, alpha101_003_ready DEF Compute, alpha101_003, Alpha
<1>4. CASE name = "alpha101_004"
  BY <1>4, alpha101_004_ready DEF Compute, alpha101_004, Alpha
<1>5. CASE name = "alpha101_006"
  BY <1>5, alpha101_006_ready DEF Compute, alpha101_006, Alpha
<1>6. CASE name = "alpha101_008"
  BY <1>6, alpha101_008_ready DEF Compute, alpha101_008, Alpha
<1>7. CASE name = "alpha101_009"
  BY <1>7, alpha101_009_ready DEF Compute, alpha101_009, Alpha
<1>8. CASE name = "alpha101_012"
  BY <1>8, alpha101_012_ready DEF Compute, alpha101_012, Alpha
<1>9. CASE name = "alpha101_013"
  BY <1>9, alpha101_013_ready DEF Compute, alpha101_013, Alpha
<1>10. CASE name = "alpha101_014"
  BY <1>10, alpha101_014_ready DEF Compute, alpha101_014, Alpha
<1>11. CASE name = "alpha101_016"
  BY <1>11, alpha101_016_ready DEF Compute, alpha101_016, Alpha
<1>12. CASE name = "alpha101_018"
  BY <1>12, alpha101_018_ready DEF Compute, alpha101_018, Alpha
<1>13. CASE name = "alpha101_019"
  BY <1>13, alpha101_019_ready DEF Compute, alpha101_019, Alpha
<1>14. CASE name = "alpha101_023"
  BY <1>14, alpha101_023_ready DEF Compute, alpha101_023, Alpha
<1>15. CASE name = "alpha101_026"
  BY <1>15, alpha101_026_ready DEF Compute, alpha101_026, Alpha
<1>16. CASE name = "alpha101_028"
  BY <1>16, alpha101_028_ready DEF Compute, alpha101_028, Alpha
<1>17. CASE name = "alpha101_032"
  BY <1>17, alpha101_032_ready DEF Compute, alpha101_032, Alpha
<1>18. CASE name = "alpha101_033"
  BY <1>18, alpha101_033_ready DEF Compute, alpha101_033, Alpha
<1>19. CASE name = "alpha101_034"
  BY <1>19, alpha101_034_ready DEF Compute, alpha101_034, Alpha
<1>20. CASE name = "alpha101_035"
  BY <1>20, alpha101_035_ready DEF Compute, alpha101_035, Alpha
<1>21. CASE name = "alpha101_038"
  BY <1>21, alpha101_038_ready DEF Compute, alpha101_038, Alpha
<1>22. CASE name = "alpha101_040"
  BY <1>22, alpha101_040_ready DEF Compute, alpha101_040, Alpha
<1>23. CASE name = "alpha101_041"
  BY <1>23, alpha101_041_ready DEF Compute, alpha101_041, Alpha
<1>24. CASE name = "alpha101_044"
  BY <1>24, alpha101_044_ready DEF Compute, alpha101_044, Alpha
<1>25. CASE name = "alpha101_046"
  BY <1>25, alpha101_046_ready DEF Compute, alpha101_046, Alpha
<1>26. CASE name = "alpha101_049"
  BY <1>26, alpha101_049_ready DEF Compute, alpha101_049, Alpha
<1>27. CASE name = "alpha101_051"
  BY <1>27, alpha101_051_ready DEF Compute, alpha101_051, Alpha
<1>28. CASE name = "alpha101_053"
  BY <1>28, alpha101_053_ready DEF Compute, alpha101_053, Alpha
<1>29. CASE name = "alpha101_054"
  BY <1>29, alpha101_054_ready DEF Compute, alpha101_054, Alpha
<1>30. CASE name = "alpha101_101"
  BY <1>30, alpha101_101_ready DEF Compute, alpha101_101, Alpha
<1>31. CASE name = "academic_strev"
  BY <1>31, academic_strev_ready DEF Compute, academic_strev, Alpha
<1>32. CASE name = "academic_mom"
  BY <1>32, academic_mom_ready DEF Compute, academic_mom, Alpha
<1>33. CASE name = "academic_illiq"
  BY <1>33, academic_illiq_ready DEF Compute, academic_illiq, Alpha
<1>34. CASE name = "academic_high52w"
  BY <1>34, academic_high52w_ready DEF Compute, academic_high52w, Alpha
<1>35. CASE name = "academic_ivol"
  BY <1>35, academic_ivol_ready DEF Compute, academic_ivol, Alpha
<1>36. CASE name = "academic_maxret"
  BY <1>36, academic_maxret_ready DEF Compute, academic_maxret, Alpha
<1>37. CASE name = "academic_decay_mom"
  BY <1>37, academic_decay_mom_ready DEF Compute, academic_decay_mom, Alpha
<1>38. CASE name = "academic_argmin_low"
  BY <1>38, academic_argmin_low_ready DEF Compute, academic_argmin_low, Alpha
<1>39. CASE name = "academic_volume_trend"
  BY <1>39, academic_volume_trend_ready DEF Compute, academic_volume_trend, Alpha
<1> QED
  BY <1>1, <1>2, <1>3, <1>4, <1>5, <1>6, <1>7, <1>8, <1>9, <1>10,
     <1>11, <1>12, <1>13, <1>14, <1>15, <1>16, <1>17, <1>18, <1>19, <1>20,
     <1>21, <1>22, <1>23, <1>24, <1>25, <1>26, <1>27, <1>28, <1>29, <1>30,
     <1>31, <1>32, <1>33, <1>34, <1>35, <1>36, <1>37, <1>38, <1>39 DEF Registry

-----------------------------------------------------------------------------
(* Scores of the zoo, on a young panel and an old one.                     *)

LEMMA PanelsSame ==
  ASSUME NEW m \in Nat, m >= Age, NEW branch, NEW new, NEW old,
         new = PanelOf(History(Age, m, branch)), old = PanelOf(History(0, m, branch))
  PROVE  SameBars(new, old, m)
<1> DEFINE c == Input(History(Age, m, branch))
           d == Input(History(0, m, branch))
           e == Number(History(Age, m, branch))
           f == Number(History(0, m, branch))
<1>1. /\ new.close = c /\ new.open = c /\ new.high = c /\ new.low = c /\ new.volume = c
      /\ new.returns = Returns(c, 1) /\ new.vwap = Vwap(c, c, c) /\ new.number = e
      /\ new.branch = branch
  BY DEF PanelOf, History
<1>2. /\ old.close = d /\ old.open = d /\ old.high = d /\ old.low = d /\ old.volume = d
      /\ old.returns = Returns(d, 1) /\ old.vwap = Vwap(d, d, d) /\ old.number = f
      /\ old.branch = branch
  BY DEF PanelOf, History
<1>3. Agree(c, d, 0, m)
  <2>1. c = [i \in Age .. m |-> {i}] /\ d = [i \in 0 .. m |-> {i}]
    BY AgeIsNat DEF Input, History, PanelRows
  <2> QED
    BY <2>1, AgeIsNat DEF Agree, NaN
<1>4. Agree(e, f, 0, m)
  BY AgeIsNat DEF Number, History, PanelRows, Agree, Filled, NaN
<1> HIDE DEF c, d, e, f
<1>5. Agree(Returns(c, 1), Returns(d, 1), 1, m)
  <2>1. Agree(Delay(c, 1), Delay(d, 1), 1, m) /\ Agree(Delta(c, 1), Delta(d, 1), 1, m)
    BY <1>3, DelayAgree, DeltaAgree
  <2> QED
    BY <2>1, ArithAgree2 DEF Returns, SafeDiv
<1>6. Agree(Vwap(c, c, c), Vwap(d, d, d), 0, m)
  BY <1>3, ArithAgree3 DEF Vwap
<1> QED
  BY <1>1, <1>2, <1>3, <1>4, <1>5, <1>6 DEF SameBars

ZooInv == row \in Nat /\ alpha \subseteq Registry \cup ShortWarmup

\* Rows only grow, and what is followed is an alpha of the zoo.
LEMMA ZooInductive == ZooSpec => []ZooInv
<1>1. ZooInit => ZooInv
  BY DEF ZooInit, ZooInv, NaN
<1>2. ZooInv /\ [ZooNext]_zoo => ZooInv'
  BY DEF ZooInv, ZooNext, Follow, Ask, zoo
<1> QED
  BY <1>1, <1>2, PTL DEF ZooSpec

LEMMA ScoresSettle == ZooInv => Settled
<1> SUFFICES ASSUME ZooInv, NEW a \in alpha \ ShortWarmup, NEW branch \in BOOLEAN
             PROVE  LET young == Score(a, Age + row, Young(branch))
                    IN  /\ young # NaN => young = Score(a, Age + row, Old(branch))
                        /\ row >= Warmup(a) => young # NaN
  BY DEF Settled
<1> DEFINE m == Age + row
           new == PanelOf(History(Age, m, branch))
           old == PanelOf(History(0, m, branch))
           x == Compute(a, new)
           y == Compute(a, old)
<1>1. a \in Registry /\ row \in Nat /\ m \in Nat /\ m >= Age
  BY AgeIsNat DEF ZooInv
<1>2. SameBars(new, old, m)
  BY <1>1, PanelsSame
<1>3. Visible(Young(branch), m) = History(Age, m, branch) /\ Young(branch).first = Age
  BY DEF Visible, Young, History
<1>4. Visible(Old(branch), m) = History(0, m, branch) /\ Old(branch).first = 0
  BY DEF Visible, Old, History
<1>5. Score(a, m, Young(branch)) = IF m - Age + 1 <= x.warmup THEN NaN ELSE x.scores[m]
  BY <1>3 DEF Score
<1>6. Score(a, m, Old(branch)) = IF m - 0 + 1 <= y.warmup THEN NaN ELSE y.scores[m]
  BY <1>4 DEF Score
<1> HIDE DEF new, old
<1>7. PICK k \in Nat : Ready(x, y, k, m)
  BY <1>1, <1>2, ComputeReady
<1>8. Warmup(a) = x.warmup
  <2>1. Warmup(a) = Compute(a, PanelOf(Young(TRUE))).warmup
    BY DEF Warmup
  <2>2. m \in Int
    BY <1>1
  <2>3. \A v : Compute(a, v).warmup = Compute(a, new).warmup
    BY <1>1, <1>2, <2>2, ComputeReady
  <2> QED
    BY <2>1, <2>3
<1> HIDE DEF x, y
<1>9. ASSUME row >= x.warmup
      PROVE  x.scores[m] # NaN /\ x.scores[m] = y.scores[m]
  <2>1. m \in (Age + k) .. m
    BY <1>1, <1>7, <1>9, AgeIsNat DEF Ready
  <2> QED
    BY <1>7, <2>1 DEF Ready, Agree
<1>10. x.warmup \in Nat /\ y.warmup = x.warmup
  BY <1>7 DEF Ready
<1>11. m - Age + 1 = row + 1 /\ m - 0 + 1 >= row + 1
  BY <1>1, AgeIsNat
<1> QED
  BY <1>1, <1>5, <1>6, <1>8, <1>9, <1>10, <1>11

\* Every warmup of the registry is long enough, at every row, and however far
\* an alpha is followed: past it the alpha has a score, and one that no bar
\* before the panel can change.  (alpha.py:133 and :180, zoo.py)
THEOREM SettledAlways == ZooSpec => []Settled
BY ZooInductive, ScoresSettle, PTL

-----------------------------------------------------------------------------
(***************************************************************************)
(* DownloadComplete.  A record is in one place at a time, from the listing to*)
(* the table, and no place loses one.                                      *)
(***************************************************************************)
Items(s) == {s[k] : k \in 1 .. Len(s)}
Distinct(s) == \A i, j \in 1 .. Len(s) : s[i] = s[j] => i = j

DownloadTypeOK ==
  /\ source \in {"none", "metrics", "tvl", "fees"}
  /\ status \in {"idle", "listing", "fetching", "failing", "raised", "done"}
  /\ todo \in Seq(Symbols) /\ Distinct(todo)
  /\ waiting \in Seq(Records) /\ Distinct(waiting)
  /\ running \subseteq Records
  /\ answer = [x \in DOMAIN answer |-> answer[x]]

\* Nothing has been asked for.
NothingYet ==
  waiting = <<>> /\ running = {} /\ DOMAIN answer = {} /\ taken = {} /\ rows = {} /\ published = {}

\* While the files are listed: what is published is submitted, and of symbols
\* that have been listed.
ListingInv ==
  /\ running = {} /\ DOMAIN answer = {} /\ taken = {} /\ rows = {}
  /\ published \subseteq Items(waiting)
  /\ \A j \in Items(waiting), k \in 1 .. Len(todo) : j[1] # todo[k]

\* While they are fetched: a record is in one place, has one answer, which is
\* right, and is a row when it was taken as one.
PoolInv ==
  /\ published \subseteq Items(waiting) \cup running \cup DOMAIN answer
  /\ Items(waiting) \cap running = {}
  /\ (Items(waiting) \cup running) \cap DOMAIN answer = {}
  /\ \A j \in DOMAIN answer : answer[j] \in DayAnswers(j)
  /\ taken \subseteq DOMAIN answer
  /\ rows = {j \in taken : answer[j] = "row"}
  /\ status = "failing" => \E j \in DOMAIN answer : answer[j] = "raises"
  /\ status = "raised" =>
       /\ Idle
       /\ \/ \E j \in DOMAIN answer : answer[j] = "raises"
          \/ taken = DOMAIN answer /\ rows = {}
  /\ status = "done" => Idle /\ taken = DOMAIN answer /\ rows # {}

PanelInv ==
  /\ waiting = <<>> /\ running = {}
  /\ rows = published
  /\ \A x \in DOMAIN answer : answer[x] = "frame"
  /\ status \in {"listing", "raised", "done"}

DownloadInv ==
  /\ DownloadTypeOK
  /\ status = "idle" <=> source = "none"
  /\ status = "idle" => NothingYet
  /\ source = "metrics" =>
       \/ status = "listing" /\ ListingInv
       \/ status \in {"fetching", "failing", "raised", "done"} /\ PoolInv
  /\ source \in {"tvl", "fees"} => PanelInv

-----------------------------------------------------------------------------
(* Sequences.                                                              *)

LEMMA EmptyItems == \A s : s = <<>> => Items(s) = {} /\ Distinct(s)
BY DEF Items, Distinct

\* Taking the head of a sequence without repetition.
LEMMA HeadTaken ==
  ASSUME NEW S, NEW s \in Seq(S), s # <<>>, Distinct(s)
  PROVE  /\ Head(s) \in S /\ Tail(s) \in Seq(S) /\ Distinct(Tail(s))
         /\ Items(s) = {Head(s)} \cup Items(Tail(s))
         /\ Head(s) \notin Items(Tail(s))
<1>1. /\ Head(s) \in S /\ Tail(s) \in Seq(S)
      /\ Len(Tail(s)) = Len(s) - 1
      /\ \A i \in 1 .. Len(Tail(s)) : Tail(s)[i] = s[i + 1]
  BY HeadTailProperties
<1>2. Len(s) \in Nat \ {0} /\ Head(s) = s[1]
  BY EmptySeq
<1> DEFINE rest == Tail(s)
<1> HIDE DEF rest
<1>3. /\ Len(rest) = Len(s) - 1
      /\ \A i \in 1 .. Len(rest) : rest[i] = s[i + 1] /\ i + 1 \in 2 .. Len(s)
  BY <1>1, <1>2 DEF rest
<1>4. Distinct(rest)
  <2> SUFFICES ASSUME NEW i \in 1 .. Len(rest), NEW j \in 1 .. Len(rest), rest[i] = rest[j]
               PROVE  i = j
    BY DEF Distinct
  <2>1. s[i + 1] = s[j + 1] /\ i + 1 \in 1 .. Len(s) /\ j + 1 \in 1 .. Len(s)
    BY <1>2, <1>3
  <2> QED BY <2>1 DEF Distinct
<1>5. Items(s) = {s[1]} \cup Items(rest)
  <2>1. ASSUME NEW k \in 1 .. Len(s) PROVE s[k] \in {s[1]} \cup Items(rest)
    <3>1. CASE k = 1
      BY <3>1
    <3>2. CASE k # 1
      <4>1. k - 1 \in 1 .. Len(rest) /\ rest[k - 1] = s[(k - 1) + 1]
        BY <1>2, <1>3, <3>2
      <4>2. (k - 1) + 1 = k
        OBVIOUS
      <4> QED BY <4>1, <4>2 DEF Items
    <3> QED BY <3>1, <3>2
  <2>2. ASSUME NEW k \in 1 .. Len(rest) PROVE rest[k] \in Items(s)
    <3>1. rest[k] = s[k + 1] /\ k + 1 \in 1 .. Len(s)
      BY <1>2, <1>3
    <3> QED BY <3>1 DEF Items
  <2>3. s[1] \in Items(s)
    <3>1. 1 \in 1 .. Len(s)
      BY <1>2
    <3> QED BY <3>1 DEF Items
  <2> QED BY <2>1, <2>2, <2>3 DEF Items
<1>6. s[1] \notin Items(rest)
  <2> SUFFICES ASSUME NEW k \in 1 .. Len(rest), rest[k] = s[1] PROVE FALSE
    BY DEF Items
  <2>1. s[k + 1] = s[1] /\ k + 1 \in 1 .. Len(s) /\ 1 \in 1 .. Len(s) /\ k + 1 # 1
    BY <1>2, <1>3
  <2> QED BY <2>1 DEF Distinct
<1> QED BY <1>1, <1>2, <1>4, <1>5, <1>6 DEF rest

\* Putting one sequence after another.
LEMMA PutAfter ==
  ASSUME NEW S, NEW s \in Seq(S), NEW more \in Seq(S),
         Distinct(s), Distinct(more), Items(s) \cap Items(more) = {}
  PROVE  s \o more \in Seq(S) /\ Distinct(s \o more) /\ Items(s \o more) = Items(s) \cup Items(more)
<1> DEFINE u == s \o more
           m == Len(s)
           n == Len(more)
<1>1. /\ u \in Seq(S) /\ Len(u) = m + n
      /\ \A i \in 1 .. m + n : u[i] = IF i <= m THEN s[i] ELSE more[i - m]
  BY ConcatProperties
<1>2. m \in Nat /\ n \in Nat
  BY LenProperties
<1> HIDE DEF u
<1>3. \A i \in 1 .. m : i \in 1 .. m + n /\ u[i] = s[i] /\ s[i] \in Items(s)
  BY <1>1, <1>2 DEF Items
<1>4. \A i \in 1 .. m + n : ~(i <= m) =>
        i - m \in 1 .. n /\ u[i] = more[i - m] /\ more[i - m] \in Items(more)
  BY <1>1, <1>2 DEF Items
<1>5. Distinct(u)
  <2> SUFFICES ASSUME NEW i \in 1 .. m + n, NEW j \in 1 .. m + n, u[i] = u[j] PROVE i = j
    BY <1>1 DEF Distinct
  <2>1. i \in 1 .. m \/ ~(i <= m)
    BY <1>2
  <2>2. j \in 1 .. m \/ ~(j <= m)
    BY <1>2
  <2>3. CASE i \in 1 .. m /\ j \in 1 .. m
    BY <1>3, <2>3 DEF Distinct
  <2>4. CASE ~(i <= m) /\ ~(j <= m)
    <3>1. i - m = j - m
      BY <1>4, <2>4 DEF Distinct
    <3> QED BY <1>2, <3>1
  <2>5. CASE i \in 1 .. m /\ ~(j <= m)
    BY <1>3, <1>4, <2>5
  <2>6. CASE ~(i <= m) /\ j \in 1 .. m
    BY <1>3, <1>4, <2>6
  <2> QED BY <2>1, <2>2, <2>3, <2>4, <2>5, <2>6
<1>6. Items(u) \subseteq Items(s) \cup Items(more)
  <2> SUFFICES ASSUME NEW i \in 1 .. m + n PROVE u[i] \in Items(s) \cup Items(more)
    BY <1>1 DEF Items
  <2>1. i \in 1 .. m \/ ~(i <= m)
    BY <1>2
  <2> QED BY <1>3, <1>4, <2>1
<1>7. Items(s) \subseteq Items(u)
  BY <1>1, <1>3 DEF Items
<1>8. Items(more) \subseteq Items(u)
  <2> SUFFICES ASSUME NEW k \in 1 .. n PROVE more[k] \in Items(u)
    BY DEF Items
  <2>1. k + m \in 1 .. m + n /\ ~(k + m <= m) /\ (k + m) - m = k
    BY <1>2
  <2>2. u[k + m] = more[k]
    BY <1>1, <2>1
  <2> QED BY <1>1, <2>1, <2>2 DEF Items
<1> QED BY <1>1, <1>5, <1>6, <1>7, <1>8 DEF u

-----------------------------------------------------------------------------
(* What is submitted.                                                      *)

\* Every day from the first file on, or the start of the window, and each once.
LEMMA FilesAre ==
  ASSUME NEW s \in Symbols, NEW f \in 0 .. LastDay + 1
  PROVE  /\ Files(s, f) \in Seq(Records) /\ Distinct(Files(s, f))
         /\ Items(Files(s, f)) = {s} \X {d \in WindowDays : d >= f}
<1> DEFINE d == IF f > 1 THEN f ELSE 1
           n == LastDay + 1 - d
           F == Files(s, f)
<1>1. LastDay \in Nat /\ d \in 1 .. LastDay + 1 /\ n \in 0 .. LastDay
  BY DownloadAssumption
<1>2. F = [k \in 1 .. n |-> <<s, d + k - 1>>]
  BY DEF Files
<1>3. \A k \in 1 .. n : d + k - 1 \in WindowDays /\ d + k - 1 >= f
  BY <1>1 DEF WindowDays
<1>4. \A k \in 1 .. n : <<s, d + k - 1>> \in Records
  BY <1>3 DEF Records
<1> HIDE DEF d, n, F
<1>5. F \in Seq(Records) /\ Len(F) = n
  <2>1. F \in [1 .. n -> Records]
    BY <1>2, <1>4
  <2>2. n \in Nat
    BY <1>1
  <2> QED BY <2>1, <2>2, SeqDef, LenProperties
<1>6. \A k \in 1 .. n : F[k] = <<s, d + k - 1>>
  BY <1>2
<1>7. Distinct(F)
  <2> SUFFICES ASSUME NEW i \in 1 .. n, NEW j \in 1 .. n, F[i] = F[j] PROVE i = j
    BY <1>5 DEF Distinct
  <2>1. d + i - 1 = d + j - 1
    BY <1>6
  <2> QED BY <1>1, <2>1
<1>8. Items(F) \subseteq {s} \X {x \in WindowDays : x >= f}
  <2> SUFFICES ASSUME NEW k \in 1 .. n PROVE F[k] \in {s} \X {x \in WindowDays : x >= f}
    BY <1>5 DEF Items
  <2>1. \A x \in WindowDays : x >= f => <<s, x>> \in {s} \X {y \in WindowDays : y >= f}
    OBVIOUS
  <2>2. <<s, d + k - 1>> \in {s} \X {y \in WindowDays : y >= f}
    BY <1>3, <2>1
  <2> QED BY <1>6, <2>2
<1>9. {s} \X {x \in WindowDays : x >= f} \subseteq Items(F)
  <2> SUFFICES ASSUME NEW x \in WindowDays, x >= f PROVE <<s, x>> \in Items(F)
    OBVIOUS
  <2>1. x - d + 1 \in 1 .. n /\ d + (x - d + 1) - 1 = x
    BY <1>1 DEF d, n, WindowDays
  <2>2. F[x - d + 1] = <<s, x>>
    BY <1>6, <2>1
  <2> QED BY <1>5, <2>1, <2>2 DEF Items
<1> QED BY <1>5, <1>7, <1>8, <1>9 DEF F

\* The symbols are asked for once each.
LEMMA OrdersDistinct == ASSUME NEW o \in Orders PROVE o \in Seq(Symbols) /\ Distinct(o)
<1> DEFINE n == Cardinality(Symbols)
<1>1. n \in Nat /\ IsFiniteSet(1 .. n) /\ Cardinality(1 .. n) = n
  BY DownloadAssumption, FS_CardinalityType, FS_Interval
<1>2. o \in [1 .. n -> Symbols] /\ \A s \in Symbols : \E k \in 1 .. n : o[k] = s
  BY DEF Orders
<1>3. o \in Surjection(1 .. n, Symbols)
  BY <1>2 DEF Surjection
<1> HIDE DEF n
<1>4. n = Cardinality(Symbols)
  BY DEF n
<1>5. o \in Injection(1 .. n, Symbols)
  BY <1>1, <1>3, <1>4, FS_SurjSameCardinalityImpliesInj
<1>6. o \in Seq(Symbols) /\ Len(o) = n
  BY <1>1, <1>2, SeqDef, LenProperties
<1>7. \A i, j \in 1 .. n : o[i] = o[j] => i = j
  BY <1>5 DEF Injection, IsInjective
<1> QED BY <1>6, <1>7 DEF Distinct

-----------------------------------------------------------------------------
(* The invariant.                                                          *)

LEMMA DownloadInitInv == DownloadInit => DownloadInv
<1> SUFFICES ASSUME DownloadInit PROVE DownloadInv
  OBVIOUS
<1>1. source = "none" /\ status = "idle" /\ NothingYet /\ todo = <<>>
  BY DEF DownloadInit, NothingYet
<1>2. DownloadTypeOK
  BY <1>1, EmptyItems, EmptySeq DEF DownloadInit, DownloadTypeOK
<1> QED BY <1>1, <1>2 DEF DownloadInv

LEMMA BeginMetricsKeeps == ASSUME DownloadInv, BeginMetrics PROVE DownloadInv'
<1>1. /\ NothingYet /\ DownloadTypeOK /\ todo' \in Orders
      /\ source' = "metrics" /\ status' = "listing"
      /\ UNCHANGED <<waiting, running, answer, taken, rows, published>>
  BY DEF BeginMetrics, DownloadInv
<1>2. DownloadTypeOK'
  BY <1>1, OrdersDistinct DEF DownloadTypeOK
<1>3. ListingInv'
  BY <1>1, EmptyItems DEF ListingInv, NothingYet
<1> QED BY <1>1, <1>2, <1>3 DEF DownloadInv

LEMMA BeginPanelKeeps == ASSUME DownloadInv, BeginPanel PROVE DownloadInv'
<1>1. /\ NothingYet /\ DownloadTypeOK /\ todo' \in Orders
      /\ source' \in {"tvl", "fees"} /\ status' \in {"listing", "raised"}
      /\ UNCHANGED <<waiting, running, answer, taken, rows, published>>
  BY DEF BeginPanel, DownloadInv
<1>2. DownloadTypeOK'
  BY <1>1, OrdersDistinct DEF DownloadTypeOK
<1>3. PanelInv'
  BY <1>1 DEF PanelInv, NothingYet
<1> QED BY <1>1, <1>2, <1>3 DEF DownloadInv

\* What is known while the metrics are listed.
LEMMA Listing ==
  ASSUME DownloadInv, status = "listing", source = "metrics", todo # <<>>
  PROVE  /\ DownloadTypeOK /\ ListingInv
         /\ Head(todo) \in Symbols /\ Tail(todo) \in Seq(Symbols) /\ Distinct(Tail(todo))
         /\ Items(todo) = {Head(todo)} \cup Items(Tail(todo))
         /\ Head(todo) \notin Items(Tail(todo))
         /\ \A j \in Items(waiting) : j[1] \notin Items(todo)
<1>1. DownloadTypeOK /\ ListingInv
  BY DEF DownloadInv
<1>2. \A j \in Items(waiting) : j[1] \notin Items(todo)
  BY <1>1 DEF ListingInv, Items
<1> QED BY <1>1, <1>2, HeadTaken DEF DownloadTypeOK

LEMMA SkipSymbolKeeps == ASSUME DownloadInv, SkipSymbol PROVE DownloadInv'
<1>1. /\ status = "listing" /\ source = "metrics" /\ todo # <<>> /\ todo' = Tail(todo)
      /\ UNCHANGED <<source, status, waiting, running, answer, taken, rows, published>>
  BY DEF SkipSymbol
<1>2. DownloadTypeOK'
  BY <1>1, Listing DEF DownloadTypeOK
<1>3. \A j \in Items(waiting) : j[1] \notin Items(Tail(todo))
  BY <1>1, Listing
<1>4. \A j \in Items(waiting'), k \in 1 .. Len(todo') : j[1] # todo'[k]
  BY <1>1, <1>3 DEF Items
<1>5. ListingInv'
  BY <1>1, <1>4, Listing DEF ListingInv
<1> QED BY <1>1, <1>2, <1>5 DEF DownloadInv

LEMMA AvailableFromKeeps == ASSUME DownloadInv, AvailableFrom PROVE DownloadInv'
<1> DEFINE s == Head(todo)
<1>1. PICK f \in 0 .. LastDay + 1 :
        /\ waiting' = waiting \o Files(s, f)
        /\ \E days \in SUBSET {d \in WindowDays : d >= f} : published' = published \cup ({s} \X days)
  BY DEF AvailableFrom
<1>2. /\ status = "listing" /\ source = "metrics" /\ todo # <<>> /\ todo' = Tail(todo)
      /\ UNCHANGED <<source, status, running, answer, taken, rows>>
  BY DEF AvailableFrom
<1>3. /\ DownloadTypeOK /\ ListingInv
      /\ s \in Symbols /\ Tail(todo) \in Seq(Symbols) /\ Distinct(Tail(todo))
      /\ Items(todo) = {s} \cup Items(Tail(todo)) /\ s \notin Items(Tail(todo))
      /\ \A j \in Items(waiting) : j[1] \notin Items(todo)
  BY <1>2, Listing
<1>4. /\ Files(s, f) \in Seq(Records) /\ Distinct(Files(s, f))
      /\ Items(Files(s, f)) = {s} \X {d \in WindowDays : d >= f}
  BY <1>3, FilesAre
<1>5. Items(waiting) \cap Items(Files(s, f)) = {}
  BY <1>3, <1>4
<1>6. /\ waiting' \in Seq(Records) /\ Distinct(waiting')
      /\ Items(waiting') = Items(waiting) \cup Items(Files(s, f))
  BY <1>1, <1>3, <1>4, <1>5, PutAfter DEF DownloadTypeOK
<1>7. published' \subseteq Items(waiting')
  BY <1>1, <1>3, <1>4, <1>6 DEF ListingInv
<1>8. \A j \in Items(waiting') : j[1] \notin Items(todo')
  BY <1>2, <1>3, <1>4, <1>6
<1>9. \A j \in Items(waiting'), k \in 1 .. Len(todo') : j[1] # todo'[k]
  BY <1>8 DEF Items
<1>10. ListingInv'
  BY <1>2, <1>3, <1>7, <1>9 DEF ListingInv
<1>11. DownloadTypeOK'
  BY <1>2, <1>3, <1>6 DEF DownloadTypeOK
<1> QED BY <1>2, <1>10, <1>11 DEF DownloadInv

LEMMA OpenPoolKeeps == ASSUME DownloadInv, OpenPool PROVE DownloadInv'
<1>1. /\ status = "listing" /\ source = "metrics" /\ status' = "fetching"
      /\ UNCHANGED <<source, todo, waiting, running, answer, taken, rows, published>>
      /\ DownloadTypeOK /\ ListingInv
  BY DEF OpenPool, DownloadInv
<1>2. DownloadTypeOK'
  BY <1>1 DEF DownloadTypeOK
<1>3. PoolInv'
  BY <1>1 DEF ListingInv, PoolInv
<1> QED BY <1>1, <1>2, <1>3 DEF DownloadInv

\* The pool runs for the metrics alone.
LEMMA Fetching ==
  ASSUME DownloadInv, status \in {"fetching", "failing"} \/ running # {}
  PROVE  /\ source = "metrics" /\ status \in {"fetching", "failing"}
         /\ DownloadTypeOK /\ PoolInv
BY DEF DownloadInv, PanelInv, ListingInv, NothingYet, DownloadTypeOK, PoolInv, Idle

\* The pool goes on as it is, so long as its records do.
LEMMA PoolGoesOn ==
  ASSUME DownloadInv, source = "metrics", source' = source, todo' = todo,
         status' \in {"fetching", "failing", "raised", "done"},
         DownloadTypeOK', PoolInv'
  PROVE  DownloadInv'
BY DEF DownloadInv

LEMMA StartDayKeeps == ASSUME DownloadInv, StartDay PROVE DownloadInv'
<1>1. /\ status \in {"fetching", "failing"} /\ waiting # <<>>
      /\ running' = running \cup {Head(waiting)} /\ waiting' = Tail(waiting)
      /\ UNCHANGED <<source, status, todo, answer, taken, rows, published>>
  BY DEF StartDay
<1>2. source = "metrics" /\ DownloadTypeOK /\ PoolInv
  BY <1>1, Fetching
<1>3. /\ Head(waiting) \in Records /\ waiting' \in Seq(Records) /\ Distinct(waiting')
      /\ Items(waiting) = {Head(waiting)} \cup Items(waiting')
      /\ Head(waiting) \notin Items(waiting')
  BY <1>1, <1>2, HeadTaken DEF DownloadTypeOK
<1>4. DownloadTypeOK'
  BY <1>1, <1>2, <1>3 DEF DownloadTypeOK
<1>5. PoolInv'
  BY <1>1, <1>2, <1>3 DEF PoolInv, DayAnswers
<1> QED BY <1>1, <1>2, <1>4, <1>5, PoolGoesOn

LEMMA FetchDayKeeps == ASSUME DownloadInv, FetchDay PROVE DownloadInv'
<1>0. PICK j \in running : \E a \in DayAnswers(j) :
        /\ answer' = [x \in DOMAIN answer \cup {j} |-> IF x = j THEN a ELSE answer[x]]
        /\ running' = running \ {j}
        /\ UNCHANGED <<source, status, todo, waiting, taken, rows, published>>
  BY DEF FetchDay
<1>1. PICK a \in DayAnswers(j) :
        /\ answer' = [x \in DOMAIN answer \cup {j} |-> IF x = j THEN a ELSE answer[x]]
        /\ running' = running \ {j}
        /\ UNCHANGED <<source, status, todo, waiting, taken, rows, published>>
  BY <1>0
<1>2. source = "metrics" /\ DownloadTypeOK /\ PoolInv /\ status \in {"fetching", "failing"}
  BY <1>1, Fetching
<1>3. /\ DOMAIN answer' = DOMAIN answer \cup {j} /\ answer'[j] = a
      /\ \A x \in DOMAIN answer : answer'[x] = answer[x]
  BY <1>1, <1>2 DEF PoolInv
<1>4. DownloadTypeOK'
  BY <1>1, <1>2 DEF DownloadTypeOK
<1>5. PoolInv'
  <2>1. \A x \in DOMAIN answer' : answer'[x] \in DayAnswers(x)'
    BY <1>1, <1>2, <1>3 DEF PoolInv, DayAnswers
  <2>2. /\ published' \subseteq Items(waiting') \cup running' \cup DOMAIN answer'
        /\ Items(waiting') \cap running' = {}
        /\ (Items(waiting') \cup running') \cap DOMAIN answer' = {}
        /\ taken' \subseteq DOMAIN answer'
    BY <1>1, <1>2, <1>3 DEF PoolInv
  <2>3. rows' = {x \in taken' : answer'[x] = "row"}
    BY <1>1, <1>2, <1>3 DEF PoolInv
  <2>4. status' = "failing" => \E x \in DOMAIN answer' : answer'[x] = "raises"
    BY <1>1, <1>2, <1>3 DEF PoolInv
  <2> QED BY <1>1, <1>2, <2>1, <2>2, <2>3, <2>4 DEF PoolInv
<1> QED BY <1>1, <1>2, <1>4, <1>5, PoolGoesOn

LEMMA TakeKeeps == ASSUME DownloadInv, Take PROVE DownloadInv'
<1>1. PICK j \in DOMAIN answer \ taken :
        /\ taken' = taken \cup {j}
        /\ rows' = IF answer[j] = "row" THEN rows \cup {j} ELSE rows
        /\ status' = IF answer[j] = "raises" THEN "failing" ELSE status
  BY DEF Take
<1>2. status = "fetching" /\ UNCHANGED <<source, todo, waiting, running, answer, published>>
  BY DEF Take
<1>3. source = "metrics" /\ DownloadTypeOK /\ PoolInv
  BY <1>2, Fetching
<1>4. DownloadTypeOK'
  BY <1>1, <1>2, <1>3 DEF DownloadTypeOK
<1>5. PoolInv'
  BY <1>1, <1>2, <1>3 DEF PoolInv, DayAnswers
<1> QED BY <1>1, <1>2, <1>3, <1>4, <1>5, PoolGoesOn

LEMMA LeavePoolKeeps == ASSUME DownloadInv, LeavePool PROVE DownloadInv'
<1>1. /\ Idle /\ status \in {"fetching", "failing"}
      /\ UNCHANGED <<source, todo, waiting, running, answer, taken, rows, published>>
  BY DEF LeavePool
<1>2. source = "metrics" /\ DownloadTypeOK /\ PoolInv
  BY <1>1, Fetching
<1>3. \/ status = "failing" /\ status' = "raised"
      \/ status = "fetching" /\ taken = DOMAIN answer /\ rows = {} /\ status' = "raised"
      \/ status = "fetching" /\ taken = DOMAIN answer /\ rows # {} /\ status' = "done"
  BY DEF LeavePool
<1>4. DownloadTypeOK'
  BY <1>1, <1>2, <1>3 DEF DownloadTypeOK
<1>5. PoolInv'
  BY <1>1, <1>2, <1>3 DEF PoolInv, DayAnswers, Idle
<1> QED BY <1>1, <1>2, <1>3, <1>4, <1>5, PoolGoesOn

\* A protocol less to ask for.
LEMMA NextSymbolIs ==
  ASSUME DownloadInv, NextSymbol
  PROVE  /\ DownloadTypeOK /\ PanelInv
         /\ source \in {"tvl", "fees"} /\ status = "listing"
         /\ todo' = Tail(todo) /\ todo' \in Seq(Symbols) /\ Distinct(todo')
         /\ UNCHANGED <<source, status, waiting, running, taken>>
<1>1. /\ status = "listing" /\ source \in {"tvl", "fees"} /\ todo # <<>>
      /\ todo' = Tail(todo) /\ UNCHANGED <<source, status, waiting, running, taken>>
      /\ DownloadTypeOK /\ PanelInv
  BY DEF NextSymbol, DownloadInv
<1> QED BY <1>1, HeadTaken DEF DownloadTypeOK

LEMMA SkipProtocolKeeps == ASSUME DownloadInv, SkipProtocol PROVE DownloadInv'
<1>1. NextSymbol /\ UNCHANGED <<answer, rows, published>>
  BY DEF SkipProtocol
<1> QED BY <1>1, NextSymbolIs DEF DownloadInv, DownloadTypeOK, PanelInv

LEMMA AddProtocolKeeps == ASSUME DownloadInv, AddProtocol PROVE DownloadInv'
<1>1. /\ NextSymbol
      /\ answer' = [x \in DOMAIN answer \cup {Head(todo)} |->
                      IF x = Head(todo) THEN "frame" ELSE answer[x]]
  BY DEF AddProtocol
<1>2. PICK days \in SUBSET (0 .. LastDay + 1) :
        /\ rows' = rows \cup ({Head(todo)} \X (days \cap WindowDays))
        /\ published' = published \cup ({Head(todo)} \X (days \cap WindowDays))
  BY DEF AddProtocol
<1>3. \A x \in DOMAIN answer' : answer'[x] = "frame"
  BY <1>1, NextSymbolIs DEF PanelInv
<1>4. answer' = [x \in DOMAIN answer' |-> answer'[x]]
  BY <1>1
<1>5. DownloadTypeOK'
  BY <1>1, <1>4, NextSymbolIs DEF DownloadTypeOK
<1>6. PanelInv'
  BY <1>1, <1>2, <1>3, NextSymbolIs DEF PanelInv
<1> QED BY <1>1, <1>5, <1>6, NextSymbolIs DEF DownloadInv

LEMMA ConcatKeeps == ASSUME DownloadInv, Concat PROVE DownloadInv'
BY DEF Concat, DownloadInv, DownloadTypeOK, PanelInv

LEMMA DownloadNextKeeps == DownloadInv /\ [DownloadNext]_download => DownloadInv'
<1> SUFFICES ASSUME DownloadInv, [DownloadNext]_download PROVE DownloadInv'
  OBVIOUS
<1>1. CASE DownloadNext
  BY <1>1, BeginMetricsKeeps, SkipSymbolKeeps, AvailableFromKeeps, OpenPoolKeeps, StartDayKeeps,
     FetchDayKeeps, TakeKeeps, LeavePoolKeeps, BeginPanelKeeps, SkipProtocolKeeps,
     AddProtocolKeeps, ConcatKeeps DEF DownloadNext
<1>2. CASE UNCHANGED download
  BY <1>2 DEF download, DownloadInv, DownloadTypeOK, NothingYet, ListingInv, PoolInv, PanelInv,
              DayAnswers, Idle
<1> QED BY <1>1, <1>2

\* Every record of a symbol that was not skipped is asked for once, and its
\* answer is counted once, whatever the order the threads end in.
\* (vision.py:164-237, onchain.py:115-132 and 149-173)
THEOREM DownloadInductive == DownloadSpec => []DownloadInv
BY DownloadInitInv, DownloadNextKeeps, PTL DEF DownloadSpec

LEMMA DownloadInvComplete == DownloadInv => DownloadComplete
<1> SUFFICES ASSUME DownloadInv PROVE DownloadComplete
  OBVIOUS
<1>1. CASE source \in {"tvl", "fees"}
  BY <1>1, EmptyItems DEF DownloadInv, PanelInv, DownloadComplete, Idle
<1>2. CASE source = "metrics" /\ status = "done"
  <2>1. PoolInv /\ Idle /\ taken = DOMAIN answer /\ rows # {}
    BY <1>2 DEF DownloadInv, PoolInv
  <2>2. published \subseteq DOMAIN answer
    BY <2>1, EmptyItems DEF PoolInv, Idle
  <2>3. rows = {j \in published : j \in DOMAIN answer => answer[j] # "failed"}
    BY <2>1, <2>2 DEF PoolInv, DayAnswers
  <2> QED BY <1>2, <2>1, <2>3 DEF DownloadComplete
<1>3. CASE source = "metrics" /\ status = "raised"
  <2>1. /\ PoolInv /\ Idle
        /\ \/ \E j \in DOMAIN answer : answer[j] = "raises"
           \/ taken = DOMAIN answer /\ rows = {}
    BY <1>3 DEF DownloadInv, PoolInv
  <2>2. published \subseteq DOMAIN answer
    BY <2>1, EmptyItems DEF PoolInv, Idle
  <2>3. taken = DOMAIN answer /\ rows = {} => \A j \in published : answer[j] = "failed"
    BY <2>1, <2>2 DEF PoolInv, DayAnswers
  <2> QED BY <1>3, <2>1, <2>2, <2>3 DEF DownloadComplete
<1>4. CASE source = "none" \/ status \notin {"done", "raised"}
  BY <1>4 DEF DownloadInv, DownloadComplete
<1> QED BY <1>1, <1>2, <1>3, <1>4 DEF DownloadInv, DownloadTypeOK

\* A table has what the service has, for any symbols, any days and any number
\* of workers.  (vision.py:164-237, onchain.py:115-132 and 149-173)
THEOREM DownloadCompleteAlways == DownloadSpec => []DownloadComplete
BY DownloadInductive, DownloadInvComplete, PTL

-----------------------------------------------------------------------------
(***************************************************************************)
(* The program as a whole.  A command steps its own component, so that     *)
(* what is proved of each holds of the specification the runs check.       *)
(***************************************************************************)

\* The walk-forward study is under way in no other command.
CommandInv ==
  /\ command \in Commands
  /\ command = "walk" => WalkInv
  /\ command # "walk" => stage = "idle"
  /\ CausalInv /\ SameInv /\ PricedInv

LEMMA OtherCommands ==
  [ResearchNext]_research =>
    /\ [LiveNext]_live /\ [EngineNext]_engine /\ [BookNext]_limitbook /\ [MakerNext]_maker
    /\ [FormulaNext]_formulas /\ [ZooNext]_zoo /\ [DownloadNext]_download
<1> SUFFICES ASSUME [ResearchNext]_research
             PROVE  /\ [LiveNext]_live /\ [EngineNext]_engine /\ [BookNext]_limitbook
                    /\ [MakerNext]_maker /\ [FormulaNext]_formulas /\ [ZooNext]_zoo
                    /\ [DownloadNext]_download
  OBVIOUS
<1>1. CASE \/ \E j \in Jobs : Cross(Begin(j))
           \/ Cross(Hold) \/ Cross(Rebalance) \/ Cross(Finish)
  BY <1>1 DEF Cross
<1>2. CASE \/ \E w \in Studies : Walk(StartStudy(w))
           \/ Walk(TryParams) \/ Walk(Judge) \/ Walk(TestBest) \/ Walk(Stitch) \/ Walk(TooShort)
           \/ Walk(InSegment(Hold)) \/ Walk(InSegment(Rebalance)) \/ Walk(InSegment(Finish))
  BY <1>2 DEF Walk
<1>3. CASE Live(MakeCombined) \/ Live(MakeAlpha)
  BY <1>3 DEF Live, LiveNext
<1>4. CASE Single(EngineNext)
  BY <1>4 DEF Single
<1>5. CASE Limit(BookNext)
  BY <1>5 DEF Limit
<1>6. CASE Make(MakerNext)
  BY <1>6 DEF Make
<1>7. CASE Write(FormulaNext)
  BY <1>7 DEF Write
<1>8. CASE Scored(ZooNext)
  BY <1>8 DEF Scored
<1>9. CASE Fetch(DownloadNext)
  BY <1>9 DEF Fetch
<1>10. CASE UNCHANGED research
  BY <1>10 DEF research
<1> QED
  BY <1>1, <1>2, <1>3, <1>4, <1>5, <1>6, <1>7, <1>8, <1>9, <1>10 DEF ResearchNext

LEMMA BacktestCommands ==
  [ResearchNext]_research =>
    /\ command' = command
    /\ command = "walk" => [WalkNext]_<<vars, walk>>
    /\ command # "walk" => [Next]_vars /\ stage' = stage
<1> SUFFICES ASSUME [ResearchNext]_research
             PROVE  /\ command' = command
                    /\ command = "walk" => [WalkNext]_<<vars, walk>>
                    /\ command # "walk" => [Next]_vars /\ stage' = stage
  OBVIOUS
<1>1. CASE \/ \E j \in Jobs : Cross(Begin(j))
           \/ Cross(Hold) \/ Cross(Rebalance) \/ Cross(Finish)
  <2>1. Next /\ command = "cross" /\ command' = command /\ UNCHANGED walk
    BY <1>1 DEF Cross, Next
  <2> QED
    BY <2>1 DEF walk
<1>2. CASE \/ \E w \in Studies : Walk(StartStudy(w))
           \/ Walk(TryParams) \/ Walk(Judge) \/ Walk(TestBest) \/ Walk(Stitch) \/ Walk(TooShort)
           \/ Walk(InSegment(Hold)) \/ Walk(InSegment(Rebalance)) \/ Walk(InSegment(Finish))
  BY <1>2 DEF Walk, WalkNext
<1>3. CASE \/ Live(MakeCombined) \/ Live(MakeAlpha)
           \/ Single(EngineNext) \/ Limit(BookNext) \/ Make(MakerNext)
           \/ Write(FormulaNext) \/ Scored(ZooNext) \/ Fetch(DownloadNext)
           \/ UNCHANGED research
  <2>1. command' = command /\ UNCHANGED vars /\ UNCHANGED walk
    BY <1>3 DEF Live, Single, Limit, Make, Write, Scored, Fetch, research
  <2> QED
    BY <2>1 DEF walk
<1> QED
  BY <1>1, <1>2, <1>3 DEF ResearchNext

LEMMA CommandInitially == ResearchInit => CommandInv
<1> SUFFICES ASSUME ResearchInit PROVE CommandInv
  OBVIOUS
<1>1. WalkInit /\ command \in Commands
  BY DEF ResearchInit
<1>2. WalkInv /\ stage = "idle"
  BY <1>1, NothingStitched DEF WalkInit, Init, WalkInv
<1>3. CausalInv /\ SameInv /\ PricedInv
  BY <1>1 DEF WalkInit, Init, CausalInv, SameInv, PricedInv, Begun
<1> QED
  BY <1>1, <1>2, <1>3 DEF CommandInv

LEMMA CommandSteps == CommandInv /\ [ResearchNext]_research => CommandInv'
<1> SUFFICES ASSUME CommandInv, [ResearchNext]_research PROVE CommandInv'
  OBVIOUS
<1>1. command' = command
  BY BacktestCommands
<1>2. CASE command = "walk"
  <2>1. [WalkNext]_<<vars, walk>> /\ WalkInv
    BY <1>2, BacktestCommands DEF CommandInv
  <2>2. WalkInv' /\ Driven
    BY <2>1, WalkSteps, WalkDriven DEF CommandInv
  <2>3. CausalInv' /\ SameInv' /\ PricedInv'
    BY <2>2, CausalDriven, SameDriven, PricedDriven DEF CommandInv
  <2> QED
    BY <1>1, <1>2, <2>2, <2>3 DEF CommandInv
<1>3. CASE command # "walk"
  <2>1. [Next]_vars /\ stage' = "idle"
    BY <1>3, BacktestCommands DEF CommandInv
  <2>2. CausalInv' /\ SameInv' /\ PricedInv'
    BY <2>1, NextDriven, CausalDriven, SameDriven, PricedDriven DEF CommandInv
  <2> QED
    BY <1>1, <1>3, <2>1, <2>2 DEF CommandInv
<1> QED
  BY <1>2, <1>3

LEMMA CommandKeeps ==
  CommandInv => NoLookAhead /\ SameResult /\ PricedOrFilledIn /\ OutOfSample
<1> SUFFICES ASSUME CommandInv
             PROVE  NoLookAhead /\ SameResult /\ PricedOrFilledIn /\ OutOfSample
  OBVIOUS
<1>1. NoLookAhead
  BY CausalLooksBack DEF CommandInv
<1>2. SameResult
  BY DEF CommandInv, SameInv, SameResult
<1>3. PricedOrFilledIn
  BY DEF CommandInv, PricedInv, PricedOrFilledIn, HoldsPriced
<1>4. OutOfSample
  <2>1. CASE command = "walk"
    BY <2>1, WalkOutOfSample DEF CommandInv
  <2>2. CASE command # "walk"
    BY <2>2 DEF CommandInv, OutOfSample
  <2> QED
    BY <2>1, <2>2
<1> QED
  BY <1>1, <1>2, <1>3, <1>4

\* Every command runs its component as the component is specified by itself:
\* nothing that another command does is a step of it.  (cli.py)
THEOREM CommandsRunComponents ==
  ResearchSpec => /\ LiveSpec /\ EngineSpec /\ BookSpec /\ MakerSpec
                  /\ FormulaSpec /\ ZooSpec /\ DownloadSpec
<1>1. ResearchInit => /\ LiveInit /\ EngineInit /\ BookInit /\ MakerInit
                      /\ FormulaInit /\ ZooInit /\ DownloadInit
  BY DEF ResearchInit, LiveInit
<1> QED
  BY <1>1, OtherCommands, PTL
     DEF ResearchSpec, LiveSpec, EngineSpec, BookSpec, MakerSpec, FormulaSpec, ZooSpec, DownloadSpec

\* What the backtester and the study promise, whichever command drives the
\* backtester, for studies of strategies that read only prices, volumes and funding
\* (ContextOnly).  (cross_sectional.py:5-6, 131-149, walkforward.py:127-149)
THEOREM BacktestsSound ==
  ResearchSpec => [](NoLookAhead /\ SameResult /\ PricedOrFilledIn /\ OutOfSample)
<1>1. ResearchSpec => []CommandInv
  BY CommandInitially, CommandSteps, PTL DEF ResearchSpec
<1> QED
  BY <1>1, CommandKeeps, PTL

\* All the invariants of the research commands together, for any data, jobs,
\* formulas and orders, and any studies of strategies that read only prices,
\* volumes and funding, each under the conditions it states.
THEOREM ResearchSound ==
  ResearchSpec => []( /\ NoLookAhead /\ SameResult /\ PricedOrFilledIn /\ OutOfSample
                      /\ LivePriced /\ EngineCausal /\ HoldsLastTarget
                      /\ BookConserved /\ BestPricesFirst /\ MakerPaysInformed
                      /\ NoPeek /\ Settled /\ DownloadComplete )
BY BacktestsSound, CommandsRunComponents, LivePricedAlways, EngineCausalHolds,
   HoldsLastTargetAlways, BookConservedAlways, BestPricesFirstAlways, MakerPaysInformedAlways,
   NoPeekAlways, SettledAlways, DownloadCompleteAlways, PTL
=============================================================================
