---------------------------- MODULE Market_proofs ----------------------------
(***************************************************************************)
(* What Market guarantees for every timeframe, lookback, window, horizon   *)
(* and partitioning, any number of workers, scans, backfills and failures. *)
(***************************************************************************)
EXTENDS Market, FiniteSetTheorems, WellFoundedInduction, TLAPS

(***************************************************************************)
(* The inductive invariant.  Its parts are predicates of the rows stored   *)
(* so far, and rows are only ever added: each part holds on once it holds. *)
(***************************************************************************)
LookedBack(t) == {o \in Candles : t - Lookback <= o /\ o + TF <= t}

\* Rows whose price was taken after their candle opened, one to a candle.
RowsOK(R) ==
  /\ R \subseteq Row
  /\ \A r \in R : r.open <= r.taken
  /\ \A r, x \in R : r.open = x.open => r = x

\* A scan's message covers every candle it has to find that is not stored.
GapOK(g, R, t) ==
  /\ g.at \in Minutes /\ g.at <= t /\ g.opens \subseteq Int
  /\ \A o \in LookedBack(g.at) :
       o \in Opens(R) \/ (Min(g.opens) <= o /\ o <= Max(g.opens) + 1)

\* The candle of a message is stored; under an even key it came by the stream.
KeyOK(k, R) ==
  /\ k \in Keys
  /\ \E r \in R : r.open = KeyCandle(k) /\ (k % 2 = 0 => r.from = "stream")

\* What is computed under a key.
FeatureOK(k, used, R) ==
  /\ k \in Keys /\ used \subseteq Row /\ used # {}
  /\ \A x \in used : x.open <= KeyCandle(k)
  /\ \E r \in R :
       /\ r.open = KeyCandle(k)
       /\ (\E x \in used : x.open = KeyCandle(k)) \/ (k % 2 = 1 /\ r.from = "stream")

\* Rows of one request.
OneFetch(rows) == \E t : \A r \in rows : r.from = "rest" /\ r.taken = t

\* A fetched answer and the rows stored cover what the scan had to find.
AnswerOK(g, rows, R, t) ==
  /\ g \in [at: Minutes, opens: SUBSET Int] /\ GapOK(g, R, t)
  /\ RowsOK(rows) /\ OneFetch(rows)
  /\ \A o \in LookedBack(g.at) : o \in Opens(R) \/ o \in Opens(rows)

TaskOK(place, m, R, t) ==
  /\ place = "backfill" =>
       \E g \in m.task : m.task = {g} /\ AnswerOK(g, m.rows, R, t)
  /\ place = "send" =>
       /\ \E g \in m.task : m.task = {g} /\ AnswerOK(g, m.rows, R, t)
       /\ Opens(m.rows) \subseteq Opens(R)
  /\ place = "upsert" =>
       \E k \in Keys : m.task = {k} /\ KeyOK(k, R) /\ FeatureOK(k, m.rows, R)

ClockInv == now \in Minutes /\ failures \in 0 .. MaxFailures /\ months \subseteq Nat
StreamInv ==
  /\ watched \in Candles \cup {None}
  /\ stream \subseteq Row /\ \A r \in stream : r.open <= r.taken /\ r.from = "stream"
RawInv == RowsOK(raw)
KeysInv == (\A k \in computes : KeyOK(k, raw)) /\ detects \in BOOLEAN /\ short \subseteq Keys
GapsInv ==
  /\ gaps \subseteq [at: Minutes, opens: SUBSET Int]
  /\ \A g \in gaps : GapOK(g, raw, now)
TasksInv ==
  /\ pc \in [Workers -> {"idle", "backfill", "send", "upsert"}]
  /\ mem = [w \in Workers |-> mem[w]]
  /\ \A w \in Workers : TaskOK(pc[w], mem[w], raw, now)
FeaturesInv ==
  /\ features \subseteq Feature /\ fill \subseteq Feature
  /\ \A f, g \in features : f.key = g.key => f = g
  /\ \A f, g \in fill : f.key = g.key => f = g
  /\ \A f \in features \cup fill : FeatureOK(f.key, f.used, raw)
ScannedInv ==
  /\ scanned \subseteq Minutes
  /\ \A t \in scanned : LookedBack(t) \subseteq Opens(raw)
SignalsInv ==
  /\ signals \subseteq Minutes /\ due \subseteq signals
  /\ outcomes \subseteq [fired: signals, used: SUBSET Row, scans: SUBSET Minutes]

OutcomeSound == OutcomeFresh /\ OutcomeComplete

MarketInv ==
  /\ ClockInv /\ StreamInv /\ RawInv /\ KeysInv /\ GapsInv /\ TasksInv
  /\ FeaturesInv /\ ScannedInv /\ SignalsInv
  /\ OutcomeSound /\ FeaturesExplained

-----------------------------------------------------------------------------
(***************************************************************************)
(* Arithmetic: least and greatest elements, and multiples of the           *)
(* timeframe.                                                              *)
(***************************************************************************)
LEMMA ConstantsTyped ==
  /\ IsFiniteSet(Workers)
  /\ TF \in Nat /\ TF >= 2 /\ Lookback \in Nat /\ Horizon \in Nat
  /\ MinHistory \in Nat /\ MinHistory >= 1 /\ Window \in Nat /\ Window >= 1
  /\ Deployed \subseteq Nat /\ Month \in Nat \ {0}
  /\ MaxNow \in Nat /\ MaxNow >= TF /\ MaxFailures \in Nat
  BY MarketAssumption

LEMMA LeastNatural ==
  ASSUME NEW S, S \subseteq Nat, S # {}
  PROVE  \E x \in S : \A y \in S : x <= y
<1> DEFINE Below == {ss \in Nat \X Nat : ss[1] < ss[2]}
<1>1. OpToRel(<, Nat) = Below
  BY Zenon DEF OpToRel
<1>2. IsWellFoundedOn(Below, Nat)
  BY <1>1, NatLessThanWellFounded, Zenon
<1>3. \A a, b \in Nat : a < b => <<a, b>> \in Below
  OBVIOUS
<1> HIDE DEF Below
<1>4. PICK x \in S : \A y \in S : ~(<<y, x>> \in Below)
  BY <1>2, WFMin, Zenon
<1>5. ASSUME NEW y \in S PROVE x <= y
  <2>1. x \in Nat /\ y \in Nat
    BY <1>4, <1>5
  <2>2. ~(y < x)
    BY <1>3, <1>4, <1>5, <2>1
  <2> QED
    BY <2>1, <2>2
<1> QED
  BY <1>5

\* Integers between two bounds have a least and a greatest one.
LEMMA LeastExists ==
  ASSUME NEW a \in Int, NEW S, S \subseteq Int, \A x \in S : a <= x, S # {}
  PROVE  Min(S) \in S /\ \A y \in S : Min(S) <= y
<1> DEFINE T == {x - a : x \in S}
<1>1. T \subseteq Nat /\ T # {}
  <2>1. \A x \in S : x - a \in Nat
    OBVIOUS
  <2> QED BY <2>1, Zenon
<1>2. PICK t \in T : \A u \in T : t <= u
  BY <1>1, LeastNatural
<1>3. PICK x \in S : t = x - a
  OBVIOUS
<1>4. \A y \in S : x <= y
  <2> SUFFICES ASSUME NEW y \in S PROVE x <= y
    OBVIOUS
  <2>1. y - a \in T
    OBVIOUS
  <2>2. x - a <= y - a
    BY <1>2, <1>3, <2>1
  <2>3. x \in Int /\ y \in Int
    OBVIOUS
  <2> QED BY <2>2, <2>3
<1> QED BY <1>4 DEF Min

LEMMA GreatestExists ==
  ASSUME NEW b \in Int, NEW S, S \subseteq Int, \A x \in S : x <= b, S # {}
  PROVE  Max(S) \in S /\ \A y \in S : y <= Max(S)
<1> DEFINE T == {b - x : x \in S}
<1>1. T \subseteq Nat /\ T # {}
  <2>1. \A x \in S : b - x \in Nat
    OBVIOUS
  <2> QED BY <2>1, Zenon
<1>2. PICK t \in T : \A u \in T : t <= u
  BY <1>1, LeastNatural
<1>3. PICK x \in S : t = b - x
  OBVIOUS
<1>4. \A y \in S : x >= y
  <2> SUFFICES ASSUME NEW y \in S PROVE x >= y
    OBVIOUS
  <2>1. b - y \in T
    OBVIOUS
  <2>2. b - x <= b - y
    BY <1>2, <1>3, <2>1
  <2>3. x \in Int /\ y \in Int
    OBVIOUS
  <2> QED BY <2>2, <2>3
<1>5. Max(S) \in S /\ \A y \in S : Max(S) >= y
  BY <1>4 DEF Max
<1>6. Max(S) \in Int
  BY <1>5
<1> QED BY <1>5, <1>6

LEMMA Remainder ==
  ASSUME NEW a \in Int, NEW d \in Nat, d >= 1
  PROVE  /\ a % d \in 0 .. d - 1
         /\ a \div d \in Int
         /\ a = d * (a \div d) + (a % d)
  OBVIOUS

LEMMA ProductTyped ==
  ASSUME NEW a \in Int, NEW b \in Int
  PROVE  a * b \in Int
  OBVIOUS

\* Two multiples of d less than d apart are the same.
LEMMA Apart ==
  ASSUME NEW d \in Nat, d >= 1, NEW q \in Int, NEW r \in Int, NEW e \in Int,
         d * q = d * r + e, 0 <= e, e < d
  PROVE  e = 0 /\ q = r
<1>1. q - r \in Int /\ d * (q - r) = e
  OBVIOUS
<1> DEFINE n == q - r
<1>2. n \in Int /\ d * n = e
  BY <1>1
<1> HIDE DEF n
<1>3. CASE n >= 1
  <2>1. d * n >= d
    BY <1>2, <1>3
  <2> QED BY <2>1, <1>2
<1>4. CASE n <= -1
  <2>1. d * n <= -d
    BY <1>2, <1>4
  <2> QED BY <2>1, <1>2
<1>5. CASE n = 0
  BY <1>5, <1>2 DEF n
<1> QED BY <1>2, <1>3, <1>4, <1>5

\* A number is a multiple of d less its remainder; of two numbers less than d
\* apart at most one is a multiple.
LEMMA Aligned ==
  ASSUME NEW a \in Int, NEW d \in Nat, d >= 1
  PROVE  (a - (a % d)) % d = 0
<1> DEFINE q == a \div d
           b == a - (a % d)
           r == b \div d
           e == b % d
<1>1. q \in Int /\ b \in Int /\ b = d * q
  <2>1. q \in Int /\ a % d \in Int /\ a = d * q + (a % d)
    BY Remainder
  <2>2. d * q \in Int
    BY <2>1, ProductTyped
  <2> HIDE DEF q
  <2> QED BY <2>1, <2>2
<1>2. r \in Int /\ e \in 0 .. d - 1 /\ b = d * r + e
  BY <1>1, Remainder
<1> HIDE DEF q, b, r, e
<1>3. d * q = d * r + e /\ 0 <= e /\ e < d /\ e \in Int
  BY <1>1, <1>2
<1>4. e = 0
  BY <1>1, <1>2, <1>3, Apart
<1> QED BY <1>4 DEF b, e

LEMMA NotAligned ==
  ASSUME NEW a \in Int, NEW c \in Int, NEW d \in Nat, d >= 1,
         c % d = 0, a % d = 0, c <= a, a < c + d
  PROVE  a = c
<1> DEFINE q == a \div d
           r == c \div d
<1>1. q \in Int /\ r \in Int /\ a = d * q /\ c = d * r
  BY Remainder
<1> HIDE DEF q, r
<1>2. a - c \in Int /\ d * q = d * r + (a - c) /\ 0 <= a - c /\ a - c < d
  BY <1>1
<1>3. a - c = 0
  BY <1>1, <1>2, Apart
<1> QED BY <1>3

\* A remainder does not change when d is added.
LEMMA StepAligned ==
  ASSUME NEW a \in Int, NEW d \in Nat, d >= 1, a % d = 0
  PROVE  (a + d) % d = 0
<1> DEFINE q == a \div d
           b == a + d
           r == b \div d
           e == b % d
<1>1. q \in Int /\ b \in Int /\ a = d * q
  BY Remainder
<1>2. d * (q + 1) = d * q + d /\ q + 1 \in Int
  BY <1>1
<1>3. r \in Int /\ e \in 0 .. d - 1 /\ b = d * r + e
  BY <1>1, Remainder
<1>4. b = d * (q + 1)
  BY <1>1, <1>2
<1> HIDE DEF q, b, r, e
<1>5. d * (q + 1) = d * r + e /\ 0 <= e /\ e < d /\ e \in Int
  BY <1>3, <1>4
<1>6. e = 0
  BY <1>2, <1>3, <1>5, Apart
<1> QED BY <1>6 DEF b, e

-----------------------------------------------------------------------------
(***************************************************************************)
(* Candles, rows and keys.                                                 *)
(***************************************************************************)
LEMMA CandleFacts ==
  ASSUME NEW o \in Candles
  PROVE  o \in Nat /\ o \in Minutes /\ o <= MaxNow /\ o % TF = 0
  BY ConstantsTyped DEF Candles, Minutes

LEMMA RowFacts ==
  ASSUME NEW r \in Row
  PROVE  /\ r.open \in Candles /\ r.open \in Nat
         /\ r.taken \in Minutes /\ r.taken \in Nat
         /\ r.from \in {"stream", "rest", "history"}
  BY CandleFacts, ConstantsTyped DEF Row, Minutes

LEMMA FormingCandle ==
  ASSUME now \in Minutes
  PROVE  Forming \in Candles /\ Forming <= now
<1>1. now \in Nat /\ now <= MaxNow /\ MaxNow \in Nat /\ TF \in Nat /\ TF >= 2
  BY ConstantsTyped DEF Minutes
<1>2. now % TF \in 0 .. TF - 1
  BY <1>1, Remainder
<1>3. now % TF <= now
  <2>1. now = TF * (now \div TF) + (now % TF) /\ now \div TF \in Int
    BY <1>1, Remainder
  <2> DEFINE q == now \div TF
             e == now % TF
  <2>2. now = TF * q + e /\ q \in Int /\ e \in 0 .. TF - 1
    BY <2>1, <1>2
  <2> HIDE DEF q, e
  <2>3. q >= 0
    <3> SUFFICES ASSUME q <= -1 PROVE FALSE
      BY <2>2
    <3>1. TF * q <= -TF
      BY <1>1, <2>2
    <3> QED BY <3>1, <1>1, <2>2
  <2>4. TF * q >= 0
    BY <1>1, <2>2, <2>3
  <2>5. e <= now
    BY <1>1, <2>2, <2>4
  <2> QED BY <2>5 DEF e
<1>4. (now - (now % TF)) % TF = 0
  BY <1>1, Aligned
<1> QED BY <1>1, <1>2, <1>3, <1>4 DEF Forming, Candles, Minutes

\* The key of a row names its candle, and is even if the row came by the stream.
LEMMA CloseFacts ==
  ASSUME NEW r \in Row
  PROVE  /\ Close(r) \in Keys /\ Close(r) \in Nat
         /\ KeyCandle(Close(r)) = r.open
         /\ Close(r) % 2 = 0 <=> r.from = "stream"
         /\ r.from = "stream" => Close(r) = 2 * (r.open + TF)
         /\ r.from # "stream" => Close(r) = 2 * (r.open + TF) - 1
<1>1. r.open \in Candles /\ r.open \in Nat /\ TF \in Nat /\ TF >= 2
  BY RowFacts, ConstantsTyped
<1>2. CASE r.from = "stream"
  <2>1. Close(r) = 2 * (r.open + TF) - 0 /\ Close(r) = 2 * (r.open + TF)
    BY <1>1, <1>2 DEF Close
  <2>2. Close(r) \in Keys
    BY <1>1, <2>1 DEF Keys
  <2>3. (Close(r) + 1) \div 2 = r.open + TF /\ Close(r) % 2 = 0
    BY <1>1, <2>1
  <2> QED BY <1>1, <1>2, <2>1, <2>2, <2>3 DEF KeyCandle
<1>3. CASE r.from # "stream"
  <2>1. Close(r) = 2 * (r.open + TF) - 1
    BY <1>1, <1>3 DEF Close
  <2>2. Close(r) \in Keys
    BY <1>1, <2>1 DEF Keys
  <2>3. (Close(r) + 1) \div 2 = r.open + TF /\ Close(r) % 2 = 1
    BY <1>1, <2>1
  <2> QED BY <1>1, <1>3, <2>1, <2>2, <2>3 DEF KeyCandle
<1> QED BY <1>2, <1>3

LEMMA KeyFacts ==
  ASSUME NEW k \in Keys
  PROVE  /\ k \in Nat /\ KeyCandle(k) \in Candles
         /\ k % 2 \in {0, 1}
         /\ k % 2 = 0 => k = 2 * (KeyCandle(k) + TF)
         /\ k % 2 = 1 => k = 2 * (KeyCandle(k) + TF) - 1
<1>1. PICK o \in Candles, d \in {0, 1} : k = 2 * (o + TF) - d
  BY DEF Keys
<1>2. o \in Nat /\ TF \in Nat /\ TF >= 2
  BY CandleFacts, ConstantsTyped
<1>3. CASE d = 0
  <2>1. (k + 1) \div 2 = o + TF /\ k % 2 = 0
    BY <1>1, <1>2, <1>3
  <2> QED BY <1>1, <1>2, <1>3, <2>1 DEF KeyCandle
<1>4. CASE d = 1
  <2>1. (k + 1) \div 2 = o + TF /\ k % 2 = 1
    BY <1>1, <1>2, <1>4
  <2> QED BY <1>1, <1>2, <1>4, <2>1 DEF KeyCandle
<1> QED BY <1>3, <1>4

\* A row that closes by a key is of the key's candle or an earlier one.
LEMMA ClosedBy ==
  ASSUME NEW r \in Row, NEW k \in Keys, Close(r) <= k
  PROVE  r.open <= KeyCandle(k)
<1>1. r.open \in Nat /\ KeyCandle(k) \in Nat /\ TF \in Nat
  BY RowFacts, KeyFacts, CandleFacts, ConstantsTyped
<1>2. Close(r) \in Nat /\ Close(r) >= 2 * (r.open + TF) - 1
  BY <1>1, CloseFacts
<1>3. k \in Nat /\ k <= 2 * (KeyCandle(k) + TF)
  BY <1>1, KeyFacts
<1> QED BY <1>1, <1>2, <1>3

\* Of two rows the one that closes later opens later or at the same time.
LEMMA CloseOrder ==
  ASSUME NEW r \in Row, NEW x \in Row, Close(x) > Close(r)
  PROVE  x.open >= r.open
<1>1. r.open \in Nat /\ x.open \in Nat /\ TF \in Nat
  BY RowFacts, ConstantsTyped
<1>2. Close(r) \in Nat /\ Close(x) \in Nat /\ Close(r) >= 2 * (r.open + TF) - 1
      /\ Close(x) <= 2 * (x.open + TF)
  BY <1>1, CloseFacts
<1> QED BY <1>1, <1>2

(***************************************************************************)
(* More rows never take from what holds.                                   *)
(***************************************************************************)
LEMMA Grows ==
  ASSUME NEW R, NEW Q, R \subseteq Q, NEW t \in Minutes, NEW u \in Minutes, t <= u
  PROVE  /\ Opens(R) \subseteq Opens(Q)
         /\ \A g : GapOK(g, R, t) => GapOK(g, Q, u)
         /\ \A k : KeyOK(k, R) => KeyOK(k, Q)
         /\ \A k, used : FeatureOK(k, used, R) => FeatureOK(k, used, Q)
         /\ \A place, m : TaskOK(place, m, R, t) => TaskOK(place, m, Q, u)
<1>1. Opens(R) \subseteq Opens(Q)
  BY DEF Opens
<1>2. \A g : GapOK(g, R, t) => GapOK(g, Q, u)
  <2> SUFFICES ASSUME NEW g, GapOK(g, R, t) PROVE GapOK(g, Q, u)
    OBVIOUS
  <2>1. g.at \in Int /\ t \in Int /\ u \in Int /\ g.at <= t
    BY ConstantsTyped DEF GapOK, Minutes
  <2>2. g.at <= u
    BY <2>1
  <2> QED BY <1>1, <2>2 DEF GapOK
<1>3. \A k : KeyOK(k, R) => KeyOK(k, Q)
  BY DEF KeyOK
<1>4. \A k, used : FeatureOK(k, used, R) => FeatureOK(k, used, Q)
  <2> SUFFICES ASSUME NEW k, NEW used, FeatureOK(k, used, R) PROVE FeatureOK(k, used, Q)
    OBVIOUS
  <2>1. PICK r \in R :
          /\ r.open = KeyCandle(k)
          /\ (\E x \in used : x.open = KeyCandle(k)) \/ (k % 2 = 1 /\ r.from = "stream")
    BY DEF FeatureOK
  <2>2. r \in Q
    OBVIOUS
  <2> QED BY <2>1, <2>2 DEF FeatureOK
<1>5. \A g, rows : AnswerOK(g, rows, R, t) => AnswerOK(g, rows, Q, u)
  BY <1>1, <1>2, Zenon DEF AnswerOK
<1>6. \A place, m : TaskOK(place, m, R, t) => TaskOK(place, m, Q, u)
  <2> SUFFICES ASSUME NEW place, NEW m, TaskOK(place, m, R, t) PROVE TaskOK(place, m, Q, u)
    OBVIOUS
  <2>1. \A rows : Opens(rows) \subseteq Opens(R) => Opens(rows) \subseteq Opens(Q)
    BY <1>1, Zenon
  <2> QED BY <1>3, <1>4, <1>5, <2>1, Zenon DEF TaskOK
<1> QED BY <1>1, <1>2, <1>3, <1>4, <1>6

(***************************************************************************)
(* What the actions make of rows.                                          *)
(***************************************************************************)
\* INSERT ... ON CONFLICT DO NOTHING: one row to a candle, and a row for every
\* candle given.
LEMMA InsertKeeps ==
  ASSUME RawInv, NEW rows, RowsOK(rows)
  PROVE  /\ RowsOK(raw \cup Inserted(rows))
         /\ Opens(raw \cup Inserted(rows)) = Opens(raw) \cup Opens(rows)
<1> DEFINE R == raw \cup Inserted(rows)
<1>1. Inserted(rows) \subseteq rows /\ \A r \in Inserted(rows) : r.open \notin Opens(raw)
  BY DEF Inserted
<1>2. R \subseteq Row /\ \A r \in R : r.open <= r.taken
  BY <1>1 DEF RawInv, RowsOK
<1>3. \A r, x \in R : r.open = x.open => r = x
  <2> SUFFICES ASSUME NEW r \in R, NEW x \in R, r.open = x.open PROVE r = x
    OBVIOUS
  <2>1. CASE r \in raw /\ x \in raw
    BY <2>1 DEF RawInv, RowsOK
  <2>2. CASE r \in Inserted(rows) /\ x \in Inserted(rows)
    BY <2>2, <1>1 DEF RowsOK
  <2>3. CASE r \in raw /\ x \in Inserted(rows)
    BY <2>3, <1>1 DEF Opens
  <2>4. CASE x \in raw /\ r \in Inserted(rows)
    BY <2>4, <1>1 DEF Opens
  <2> QED BY <2>1, <2>2, <2>3, <2>4
<1>4. Opens(R) = Opens(raw) \cup Opens(rows)
  <2>1. \A r \in rows : r.open \in Opens(raw) \/ r \in R
    BY DEF Inserted
  <2>2. \A r \in R : r \in raw \/ r \in rows
    BY <1>1
  <2> HIDE DEF R
  <2> QED BY <2>1, <2>2 DEF Opens, R
<1> QED BY <1>2, <1>3, <1>4 DEF RowsOK


\* Rows are finitely many: one to a candle at most.
LEMMA RowsFinite ==
  ASSUME NEW R, RowsOK(R)
  PROVE  IsFiniteSet(R)
<1> DEFINE f == [r \in R |-> r.open]
<1>1. \A r \in R : r.open \in 0 .. MaxNow
  BY RowFacts, CandleFacts, ConstantsTyped DEF RowsOK
<1>2. f \in Injection(R, 0 .. MaxNow)
  BY <1>1 DEF Injection, IsInjective, RowsOK
<1>3. IsFiniteSet(0 .. MaxNow)
  BY FS_Interval, ConstantsTyped
<1> QED BY <1>2, <1>3, FS_Injection

\* What klines answers: a row for each candle asked for that has opened.
LEMMA FetchedFacts ==
  ASSUME now \in Minutes, NEW from, NEW to
  PROVE  /\ RowsOK(Fetched(from, to))
         /\ OneFetch(Fetched(from, to))
         /\ \A o \in Candles : from <= o /\ o <= to /\ o <= now => o \in Opens(Fetched(from, to))
<1> DEFINE S == {x \in Candles : from <= x /\ x <= to /\ x <= now}
           F == {[open |-> o, from |-> "rest", taken |-> now] : o \in S}
<1>1. \A r \in F : \E o \in S : r = [open |-> o, from |-> "rest", taken |-> now]
  OBVIOUS
<1>2. F \subseteq Row
  BY <1>1 DEF Row
<1>3. \A r \in F : r.open <= r.taken /\ r.from = "rest" /\ r.taken = now
  BY <1>1
<1>4. \A r, x \in F : r.open = x.open => r = x
  BY <1>1
<1>5. \A o \in S : o \in Opens(F)
  <2> SUFFICES ASSUME NEW o \in S PROVE o \in Opens(F)
    OBVIOUS
  <2>1. [open |-> o, from |-> "rest", taken |-> now] \in F
    OBVIOUS
  <2>2. [open |-> o, from |-> "rest", taken |-> now].open = o
    OBVIOUS
  <2> HIDE DEF F
  <2> QED BY <2>1, <2>2 DEF Opens
<1>6. OneFetch(F)
  BY <1>3 DEF OneFetch
<1> QED BY <1>2, <1>3, <1>4, <1>5, <1>6 DEF Fetched, RowsOK

\* The grid of a scan: a closed candle that is not stored is between two missing
\* times, also when the grid meets no candle.
LEMMA GridCovers ==
  ASSUME ClockInv, RawInv, NEW c \in LookedBack(now), c \notin Opens(raw)
  PROVE  \E a, b \in Missing : a <= c /\ c <= b
<1> DEFINE s == now - Lookback
           d == (c - s) % TF
           g == c - d
<1>1. /\ now \in Nat /\ Lookback \in Nat /\ TF \in Nat /\ TF >= 2 /\ TF >= 1 /\ s \in Int
      /\ c \in Candles /\ c \in Nat /\ c % TF = 0 /\ s <= c /\ c + TF <= now
  BY CandleFacts, ConstantsTyped DEF ClockInv, Minutes, LookedBack
<1>2. d \in 0 .. TF - 1 /\ c - s \in Int /\ c - s >= 0
  BY <1>1, Remainder
<1>3. ((c - s) - d) % TF = 0
  BY <1>1, <1>2, Aligned, Zenon
<1>4. g - s = (c - s) - d /\ g \in Int
  BY <1>1, <1>2
<1>5. (g - s) % TF = 0
  BY <1>3, <1>4
<1>6. g >= s
  <2>1. c - s = TF * ((c - s) \div TF) + d /\ (c - s) \div TF \in Int
    BY <1>1, <1>2, Remainder
  <2> DEFINE q == (c - s) \div TF
  <2>2. c - s = TF * q + d /\ q \in Int
    BY <2>1
  <2> HIDE DEF q, d, s
  <2>3. q >= 0
    <3> SUFFICES ASSUME q <= -1 PROVE FALSE
      BY <2>2
    <3>1. TF * q <= -TF
      BY <1>1, <2>2
    <3> QED BY <3>1, <1>1, <1>2, <2>2
  <2>4. TF * q >= 0
    BY <1>1, <2>2, <2>3
  <2> QED BY <1>1, <1>2, <2>2, <2>4
<1> HIDE DEF d, g
<1>7. g <= c /\ c < g + TF /\ g < now
  BY <1>1, <1>2, <1>4 DEF g
<1>8. g \in expected_candle_opens(now - Lookback, now)
  BY <1>1, <1>4, <1>5, <1>6, <1>7 DEF expected_candle_opens
<1>9. CASE d = 0
  <2>1. g = c
    BY <1>9, <1>1 DEF g
  <2>2. g \in Missing
    BY <2>1, <1>8 DEF Missing
  <2> QED BY <2>1, <2>2, <1>1
<1>10. CASE d # 0
  <2>1. \A o \in Opens(raw) : o \in Candles
    BY RowFacts DEF RawInv, RowsOK, Opens
  <2>2. g # c
    BY <1>10, <1>1, <1>2 DEF g
  <2>3. g \notin Opens(raw)
    <3> SUFFICES ASSUME g \in Candles PROVE FALSE
      BY <2>1
    <3>1. g % TF = 0 /\ g \in Int
      BY CandleFacts
    <3> QED BY <3>1, <1>1, <1>7, <2>2, NotAligned
  <2>4. g + TF \in expected_candle_opens(now - Lookback, now)
    <3>1. (g - s) + TF = g + TF - s
      BY <1>1, <1>4
    <3>2. (g + TF - s) % TF = 0
      <4> DEFINE n == g - s
      <4>1. n \in Int /\ n % TF = 0
        BY <1>1, <1>4, <1>5
      <4> HIDE DEF n
      <4>2. (n + TF) % TF = 0
        BY <4>1, <1>1, StepAligned
      <4> QED BY <4>2, <3>1 DEF n
    <3>3. g + TF <= now - 1 /\ g + TF >= s
      BY <1>1, <1>2, <1>4, <1>6, <1>7, <2>2
    <3> QED BY <3>2, <3>3, <1>1, <1>4 DEF expected_candle_opens
  <2>5. g + TF \notin Opens(raw)
    <3> SUFFICES ASSUME g + TF \in Candles PROVE FALSE
      BY <2>1
    <3>1. (g + TF) % TF = 0 /\ g + TF \in Int
      BY CandleFacts
    <3>2. c <= g + TF /\ g + TF < c + TF
      BY <1>1, <1>4, <1>7, <2>2
    <3>3. g + TF = c
      <4> DEFINE n == g + TF
      <4>1. n \in Int /\ n % TF = 0 /\ c <= n /\ n < c + TF
        BY <3>1, <3>2
      <4> HIDE DEF n
      <4>2. n = c
        BY <4>1, <1>1, NotAligned
      <4> QED BY <4>2 DEF n
    <3> QED BY <3>3, <1>1, <1>4, <1>7
  <2>6. g \in Missing /\ g + TF \in Missing
    BY <2>3, <2>4, <2>5, <1>8 DEF Missing
  <2>7. c <= g + TF
    BY <1>1, <1>4, <1>7
  <2> QED BY <2>6, <2>7, <1>7
<1> QED BY <1>9, <1>10

\* What a scan sends covers every closed candle that is not stored.
LEMMA ScanCovers ==
  ASSUME ClockInv, RawInv
  PROVE  /\ Missing = {} => LookedBack(now) \subseteq Opens(raw)
         /\ Missing # {} => GapOK([at |-> now, opens |-> Missing], raw, now)
         /\ Missing \subseteq Int
<1>1. now \in Nat /\ Lookback \in Nat /\ now \in Minutes
  BY ConstantsTyped DEF ClockInv, Minutes
<1>2. Missing \subseteq Int /\ \A x \in Missing : now - Lookback <= x /\ x <= now
  BY <1>1 DEF Missing, expected_candle_opens
<1>3. Missing = {} => LookedBack(now) \subseteq Opens(raw)
  BY GridCovers
<1>4. ASSUME Missing # {} PROVE GapOK([at |-> now, opens |-> Missing], raw, now)
  <2> DEFINE lo == Min(Missing)
             hi == Max(Missing)
  <2>0. now - Lookback \in Int /\ now \in Int /\ \A x \in Missing : x \in Int
    BY <1>1, <1>2
  <2>1. lo \in Missing /\ (\A y \in Missing : lo <= y) /\ lo \in Int
    BY <2>0, <1>2, <1>4, LeastExists, Zenon
  <2>2. hi \in Missing /\ (\A y \in Missing : y <= hi) /\ hi \in Int
    BY <2>0, <1>2, <1>4, GreatestExists, Zenon
  <2> HIDE DEF lo, hi
  <2>3. ASSUME NEW o \in LookedBack(now), o \notin Opens(raw) PROVE lo <= o /\ o <= hi + 1
    <3>1. PICK a, b \in Missing : a <= o /\ o <= b
      BY <2>3, GridCovers
    <3>2. a \in Int /\ b \in Int /\ o \in Int /\ lo <= a /\ b <= hi
      BY <1>2, <2>1, <2>2, <3>1, CandleFacts DEF LookedBack
    <3> QED BY <2>1, <2>2, <3>1, <3>2
  <2>4. now <= now
    BY <1>1
  <2>5. \A o \in LookedBack(now) :
          o \in Opens(raw) \/ (Min(Missing) <= o /\ o <= Max(Missing) + 1)
    BY <2>3 DEF lo, hi
  <2> QED BY <1>1, <1>2, <2>4, <2>5 DEF GapOK
<1> QED BY <1>2, <1>3, <1>4


\* What is computed under a key of a stored candle rests on rows that close by
\* it, and on the candle itself unless the stream stored it and the key is odd.
LEMMA LoadedFacts ==
  ASSUME RawInv, NEW k \in Keys, KeyOK(k, raw), Cardinality(Loaded(k)) >= MinHistory
  PROVE  FeatureOK(k, Last(Loaded(k)), raw)
<1> DEFINE L == Loaded(k)
           U == Last(L)
<1>1. L \subseteq raw /\ raw \subseteq Row /\ \A r \in L : Close(r) <= k
  BY DEF Loaded, RawInv, RowsOK
<1>2. IsFiniteSet(L) /\ L # {}
  <2>1. IsFiniteSet(raw)
    BY RowsFinite DEF RawInv
  <2>2. IsFiniteSet(L)
    BY <1>1, <2>1, FS_Subset
  <2>3. Cardinality(L) # 0
    BY ConstantsTyped, <2>2, FS_CardinalityType
  <2> QED BY <2>2, <2>3, FS_EmptySet
<1>3. U \subseteq L
  BY DEF Last
<1>4. \A x \in U : x.open <= KeyCandle(k)
  BY <1>1, <1>3, ClosedBy
<1>5. ASSUME NEW r \in L, \A x \in L : Close(x) <= Close(r) PROVE r \in U
  <2>1. \A x \in L : Close(x) \in Nat
    BY <1>1, CloseFacts
  <2>2. {x \in L : Close(x) > Close(r)} = {}
    BY <1>5, <2>1
  <2>3. Cardinality({x \in L : Close(x) > Close(r)}) < Window
    BY <2>2, FS_EmptySet, ConstantsTyped
  <2> HIDE DEF L
  <2> QED BY <2>3 DEF Last
<1>6. U # {}
  <2> DEFINE C == {Close(x) : x \in L}
  <2>1. k \in Int
    BY KeyFacts
  <2>2. C \subseteq Int /\ C # {} /\ \A c \in C : c <= k
    <3>1. \A x \in L : Close(x) \in Int /\ Close(x) <= k
      BY <1>1, CloseFacts
    <3> HIDE DEF L
    <3> QED BY <3>1, <1>2
  <2> HIDE DEF C
  <2>3. Max(C) \in C /\ \A c \in C : c <= Max(C)
    BY <2>1, <2>2, GreatestExists
  <2>4. PICK r \in L : Max(C) = Close(r)
    BY <2>3 DEF C
  <2>5. \A x \in L : Close(x) \in C
    BY DEF C
  <2>6. \A x \in L : Close(x) <= Close(r)
    BY <2>3, <2>4, <2>5
  <2> QED BY <1>5, <2>6
<1>7. PICK r \in raw : r.open = KeyCandle(k) /\ (k % 2 = 0 => r.from = "stream")
  BY DEF KeyOK
<1>8. CASE Close(r) <= k
  <2>1. r \in L
    BY <1>8 DEF Loaded
  <2>2. ASSUME NEW x \in L PROVE Close(x) <= Close(r)
    <3>1. x.open <= r.open /\ x.open \in Int /\ r.open \in Int
      BY <1>1, <1>7, ClosedBy, RowFacts
    <3>2. Close(x) \in Int /\ Close(r) \in Int
      BY <1>1, CloseFacts
    <3>3. CASE Close(x) > Close(r)
      <4>1. x.open = r.open
        BY <3>1, <3>3, <1>1, CloseOrder
      <4>2. x = r
        BY <4>1, <1>1 DEF RawInv, RowsOK
      <4> QED BY <4>2, <3>2
    <3> QED BY <3>2, <3>3
  <2>3. r \in U
    BY <1>5, <2>1, <2>2
  <2> HIDE DEF U
  <2>4. U \subseteq Row
    BY <1>1, <1>3
  <2> QED BY <1>4, <1>6, <1>7, <2>3, <2>4 DEF FeatureOK, U
<1>9. CASE ~(Close(r) <= k)
  <2>1. r.open \in Nat /\ TF \in Nat /\ r \in Row /\ Close(r) \in Nat /\ k \in Nat
    BY <1>1, RowFacts, ConstantsTyped, CloseFacts, KeyFacts
  <2>2. r.from = "stream"
    <3> SUFFICES ASSUME r.from # "stream" PROVE FALSE
      OBVIOUS
    <3>1. Close(r) = 2 * (r.open + TF) - 1
      BY <2>1, CloseFacts
    <3>2. k >= 2 * (r.open + TF) - 1
      BY <1>7, <2>1, KeyFacts
    <3> QED BY <3>1, <3>2, <1>9, <2>1
  <2>3. k % 2 = 1
    <3> SUFFICES ASSUME k % 2 = 0 PROVE FALSE
      BY KeyFacts
    <3>1. k = 2 * (r.open + TF)
      BY <1>7, KeyFacts
    <3>2. Close(r) = 2 * (r.open + TF)
      BY <2>1, <2>2, CloseFacts
    <3> QED BY <3>1, <3>2, <1>9, <2>1
  <2>4. U \subseteq Row
    BY <1>1, <1>3
  <2> HIDE DEF U
  <2> QED BY <1>4, <1>6, <1>7, <2>2, <2>3, <2>4 DEF FeatureOK, U
<1> QED BY <1>8, <1>9

(***************************************************************************)
(* What a step leaves alone stays as it is.                                *)
(***************************************************************************)
LEMMA PartsKept ==
  ASSUME MarketInv, raw \subseteq raw', now' \in Minutes, now <= now'
  PROVE  /\ UNCHANGED <<watched, stream>> => StreamInv'
         /\ UNCHANGED <<computes, detects, short>> => KeysInv'
         /\ UNCHANGED gaps => GapsInv'
         /\ UNCHANGED <<pc, mem>> => TasksInv'
         /\ UNCHANGED <<features, fill>> => FeaturesInv'
         /\ UNCHANGED scanned => ScannedInv'
         /\ UNCHANGED <<signals, due, outcomes>> => SignalsInv' /\ OutcomeSound'
<1>0. now \in Minutes
  BY DEF MarketInv, ClockInv
<1>1. UNCHANGED <<watched, stream>> => StreamInv'
  BY DEF MarketInv, StreamInv
<1>2. UNCHANGED <<computes, detects, short>> => KeysInv'
  BY <1>0, Grows DEF MarketInv, KeysInv
<1>3. UNCHANGED gaps => GapsInv'
  BY <1>0, Grows DEF MarketInv, GapsInv
<1>4. UNCHANGED <<pc, mem>> => TasksInv'
  <2> SUFFICES ASSUME UNCHANGED <<pc, mem>> PROVE TasksInv'
    OBVIOUS
  <2>1. \A w \in Workers : TaskOK(pc[w], mem[w], raw', now')
    BY <1>0, Grows DEF MarketInv, TasksInv
  <2> QED BY <2>1 DEF MarketInv, TasksInv
<1>5. UNCHANGED <<features, fill>> => FeaturesInv'
  <2> SUFFICES ASSUME UNCHANGED <<features, fill>> PROVE FeaturesInv'
    OBVIOUS
  <2>1. \A f \in features \cup fill : FeatureOK(f.key, f.used, raw')
    BY <1>0, Grows DEF MarketInv, FeaturesInv
  <2> QED BY <2>1 DEF MarketInv, FeaturesInv
<1>6. UNCHANGED scanned => ScannedInv'
  <2>1. Opens(raw) \subseteq Opens(raw')
    BY <1>0, Grows
  <2> QED BY <2>1 DEF MarketInv, ScannedInv
<1>7. UNCHANGED <<signals, due, outcomes>> => SignalsInv' /\ OutcomeSound'
  BY DEF MarketInv, SignalsInv, OutcomeSound, OutcomeFresh, OutcomeComplete
<1> QED BY <1>1, <1>2, <1>3, <1>4, <1>5, <1>6, <1>7

\* A step of w, and no other task.
LEMMA TaskMoves ==
  ASSUME MarketInv, raw \subseteq raw', now' = now, NEW w \in Workers,
         NEW place \in {"idle", "backfill", "send", "upsert"}, NEW m,
         Goto(w, place), Keep(w, m), TaskOK(place, m, raw', now)
  PROVE  /\ TasksInv'
         /\ pc' = [v \in Workers |-> IF v = w THEN place ELSE pc[v]]
         /\ mem' = [v \in Workers |-> IF v = w THEN m ELSE mem[v]]
<1>1. pc' = [v \in Workers |-> IF v = w THEN place ELSE pc[v]]
  BY DEF MarketInv, TasksInv, Goto
<1>2. mem' = [v \in Workers |-> IF v = w THEN m ELSE mem[v]]
  BY DEF MarketInv, TasksInv, Keep
<1>3. now \in Minutes /\ now <= now
  BY ConstantsTyped DEF MarketInv, ClockInv, Minutes
<1>4. \A v \in Workers : TaskOK(pc[v], mem[v], raw', now)
  BY <1>3, Grows DEF MarketInv, TasksInv
<1>5. \A v \in Workers : TaskOK(pc'[v], mem'[v], raw', now')
  BY <1>1, <1>2, <1>4
<1>6. pc' \in [Workers -> {"idle", "backfill", "send", "upsert"}] /\ mem' = [v \in Workers |-> mem'[v]]
  BY <1>1, <1>2 DEF MarketInv, TasksInv
<1> QED BY <1>1, <1>2, <1>5, <1>6 DEF TasksInv

LEMMA FinishedTask == \A R, t : TaskOK("idle", NoTask, R, t)
  BY DEF TaskOK

(***************************************************************************)
(* Rows without features.                                                  *)
(***************************************************************************)
Covered == {f.key : f \in features} \cup computes \cup InHand \cup short
Accounted(r) == r.from = "history" \/ Close(r) \in Covered \/ r \in ToSend
Origins == {Origin(r) : r \in Uncomputed}

LEMMA OriginsFinite ==
  ASSUME NEW U, IsFiniteSet(U)
  PROVE  /\ IsFiniteSet({Origin(r) : r \in U})
         /\ Cardinality({Origin(r) : r \in U}) \in Nat
<1> DEFINE T == {Origin(r) : r \in U}
           f == [r \in U |-> Origin(r)]
<1>1. f \in Surjection(U, T)
  BY DEF Surjection
<1>2. IsFiniteSet(T)
  BY <1>1, FS_Surjection
<1> QED BY <1>2, FS_CardinalityType

LEMMA UncomputedFacts ==
  ASSUME RawInv
  PROVE  /\ Uncomputed = {r \in raw : ~Accounted(r)}
         /\ IsFiniteSet(Origins) /\ Cardinality(Origins) \in Nat
<1>1. Uncomputed \subseteq raw /\ IsFiniteSet(raw)
  BY RowsFinite DEF RawInv, Uncomputed
<1>2. IsFiniteSet(Uncomputed)
  BY <1>1, FS_Subset
<1>3. IsFiniteSet(Origins) /\ Cardinality(Origins) \in Nat
  BY <1>2, OriginsFinite DEF Origins
<1> QED BY <1>3 DEF Uncomputed, Covered, Accounted

\* Rows without features were that before, or all have one origin and a failure
\* explains them.
LEMMA Explained ==
  ASSUME MarketInv, RawInv', failures' \in Nat, NEW o0,
         \/ failures' >= failures /\ \A r \in raw' : Accounted(r)' \/ r \in Uncomputed
         \/ /\ failures' = failures + 1
            /\ \A r \in raw' : Accounted(r)' \/ r \in Uncomputed \/ Origin(r) = o0
  PROVE  FeaturesExplained'
<1>1. /\ Uncomputed' = {r \in raw' : ~Accounted(r)'}
      /\ IsFiniteSet(Origins') /\ Cardinality(Origins') \in Nat
  <2>1. Uncomputed' \subseteq raw' /\ IsFiniteSet(raw')
    BY RowsFinite DEF RawInv, Uncomputed
  <2>2. IsFiniteSet(Uncomputed')
    BY <2>1, FS_Subset
  <2>3. Origins' = {Origin(r) : r \in Uncomputed'}
    BY DEF Origins, Origin
  <2>4. IsFiniteSet(Origins') /\ Cardinality(Origins') \in Nat
    BY <2>2, <2>3, OriginsFinite
  <2> QED BY <2>4 DEF Uncomputed, Covered, Accounted
<1>2. /\ Uncomputed = {r \in raw : ~Accounted(r)}
      /\ IsFiniteSet(Origins) /\ Cardinality(Origins) \in Nat
  BY UncomputedFacts DEF MarketInv
<1>3. failures \in Nat /\ Cardinality(Origins) <= failures
  BY ConstantsTyped DEF MarketInv, ClockInv, FeaturesExplained, Origins
<1>4. CASE failures' >= failures /\ \A r \in raw' : Accounted(r)' \/ r \in Uncomputed
  <2>1. Uncomputed' \subseteq Uncomputed
    BY <1>1, <1>4
  <2>2. Origins' \subseteq Origins
    BY <2>1 DEF Origins, Origin
  <2>3. Cardinality(Origins') <= Cardinality(Origins)
    BY <1>2, <2>2, FS_Subset
  <2> QED BY <1>1, <1>2, <1>3, <1>4, <2>3 DEF FeaturesExplained, Origins
<1>5. CASE /\ failures' = failures + 1
           /\ \A r \in raw' : Accounted(r)' \/ r \in Uncomputed \/ Origin(r) = o0
  <2>1. \A r \in Uncomputed' : r \in Uncomputed \/ Origin(r) = o0
    BY <1>1, <1>5
  <2>2. Origins' \subseteq Origins \cup {o0}
    BY <2>1 DEF Origins, Origin
  <2> DEFINE O == Origins
  <2> HIDE DEF O
  <2>3. IsFiniteSet(O) /\ Cardinality(O) \in Nat
    BY <1>2 DEF O
  <2>4. /\ IsFiniteSet(O \cup {o0})
        /\ Cardinality(O \cup {o0}) = IF o0 \in O THEN Cardinality(O) ELSE Cardinality(O) + 1
    BY <2>3, FS_AddElement
  <2>5. Cardinality(O \cup {o0}) <= Cardinality(O) + 1 /\ Cardinality(O \cup {o0}) \in Nat
    BY <2>3, <2>4
  <2>6. Cardinality(Origins') <= Cardinality(O \cup {o0})
    BY <2>2, <2>4, FS_Subset DEF O
  <2>7. Cardinality(O) <= failures
    BY <1>3 DEF O
  <2>8. Cardinality(Origins') <= failures'
    BY <1>1, <1>3, <1>5, <2>3, <2>5, <2>6, <2>7
  <2> QED BY <2>8 DEF FeaturesExplained, Origins
<1> QED BY <1>4, <1>5

\* Every row added is accounted for, and whatever was is.
LEMMA StillExplained ==
  ASSUME MarketInv, RawInv', failures' \in Nat, failures' >= failures,
         Covered \subseteq Covered', \A r \in ToSend : r \in ToSend' \/ Close(r) \in Covered',
         \A r \in raw' : r \in raw \/ r.from = "history" \/ Close(r) \in Covered' \/ r \in ToSend'
  PROVE  FeaturesExplained'
<1>1. ASSUME NEW r \in raw' PROVE Accounted(r)' \/ r \in Uncomputed
  <2>1. CASE r \in raw
    <3>1. r \in Uncomputed \/ Accounted(r)
      BY <2>1, UncomputedFacts DEF MarketInv
    <3> QED BY <3>1 DEF Accounted, Close
  <2>2. CASE r \notin raw
    BY <2>2 DEF Accounted, Close
  <2> QED BY <2>1, <2>2
<1> QED BY <1>1, Explained

\* A failure may leave rows of one origin more.
LEMMA OneMore ==
  ASSUME MarketInv, RawInv', failures' \in Nat, failures' = failures + 1, NEW o0,
         \A r \in raw' : r \in raw \/ Accounted(r)' \/ Origin(r) = o0,
         \A r \in raw : Accounted(r) => Accounted(r)' \/ Origin(r) = o0
  PROVE  FeaturesExplained'
<1>1. ASSUME NEW r \in raw' PROVE Accounted(r)' \/ r \in Uncomputed \/ Origin(r) = o0
  <2>1. CASE r \in raw
    BY <2>1, UncomputedFacts DEF MarketInv
  <2> QED BY <2>1
<1> QED BY <1>1, Explained

\* The rows stored under one key have one origin.
LEMMA KeyOrigin ==
  ASSUME RawInv, NEW k
  PROVE  \E o0 : \A r \in raw : Close(r) = k => Origin(r) = o0
<1>1. CASE \E r \in raw : Close(r) = k
  <2>1. PICK x \in raw : Close(x) = k
    BY <1>1
  <2>2. ASSUME NEW r \in raw, Close(r) = k PROVE r = x
    <3>1. r \in Row /\ x \in Row
      BY DEF RawInv, RowsOK
    <3>2. r.open = x.open
      BY <2>1, <2>2, <3>1, CloseFacts
    <3> QED BY <3>2 DEF RawInv, RowsOK
  <2> QED BY <2>2
<1>2. CASE ~\E r \in raw : Close(r) = k
  BY <1>2
<1> QED BY <1>1, <1>2

LEMMA FetchOrigin ==
  ASSUME NEW rows, OneFetch(rows)
  PROVE  \E o0 : \A r \in rows : Origin(r) = o0
<1>1. PICK t : \A r \in rows : r.from = "rest" /\ r.taken = t
  BY DEF OneFetch
<1>2. \A r \in rows : Origin(r) = <<"rest", t>>
  BY <1>1 DEF Origin
<1> QED BY <1>2

(***************************************************************************)
(* The invariant, action by action.                                        *)
(***************************************************************************)
LEMMA InitInv == Init => MarketInv
<1> SUFFICES ASSUME Init PROVE MarketInv
  OBVIOUS
<1> USE ConstantsTyped
<1>1. ClockInv
  BY DEF Init, ClockInv, Minutes
<1>2. StreamInv /\ RawInv /\ KeysInv /\ GapsInv /\ FeaturesInv /\ ScannedInv /\ SignalsInv
  BY DEF Init, StreamInv, RawInv, RowsOK, KeysInv, GapsInv, FeaturesInv, ScannedInv, SignalsInv
<1>3. TasksInv
  BY FinishedTask DEF Init, TasksInv
<1>4. OutcomeSound
  BY DEF Init, OutcomeSound, OutcomeFresh, OutcomeComplete
<1>5. FeaturesExplained
  <2>1. Uncomputed = {} /\ failures = 0
    BY DEF Init, Uncomputed
  <2>2. Cardinality({Origin(r) : r \in Uncomputed}) = 0
    BY <2>1, FS_EmptySet
  <2> QED BY <2>1, <2>2 DEF FeaturesExplained
<1> QED BY <1>1, <1>2, <1>3, <1>4, <1>5 DEF MarketInv

LEMMA ClockTyped ==
  ASSUME ClockInv
  PROVE  /\ now \in Minutes /\ now \in Nat /\ now <= now /\ now <= MaxNow
         /\ failures \in Nat /\ failures <= failures
         /\ Failed => failures' \in 0 .. MaxFailures /\ failures' \in Nat
                      /\ failures' >= failures /\ failures' = failures + 1
  BY ConstantsTyped DEF ClockInv, Minutes, Failed

\* The step of one task, its message, and what is covered.
LEMMA InHandMoves ==
  ASSUME NEW w \in Workers, NEW place, NEW m,
         pc' = [v \in Workers |-> IF v = w THEN place ELSE pc[v]],
         mem' = [v \in Workers |-> IF v = w THEN m ELSE mem[v]]
  PROVE  /\ \A k \in InHand : k \in InHand' \/ (At(w, "upsert") /\ k \in mem[w].task)
         /\ place = "upsert" => m.task \subseteq InHand'
         /\ \A r \in ToSend : r \in ToSend' \/ (At(w, "send") /\ r \in mem[w].rows)
         /\ place = "send" => m.rows \subseteq ToSend'
<1>1. \A v \in Workers \ {w} : pc'[v] = pc[v] /\ mem'[v] = mem[v]
  OBVIOUS
<1>2. pc'[w] = place /\ mem'[w] = m
  OBVIOUS
<1>3. ASSUME NEW k \in InHand PROVE k \in InHand' \/ (At(w, "upsert") /\ k \in mem[w].task)
  <2>1. PICK v \in Workers : pc[v] = "upsert" /\ k \in mem[v].task
    BY <1>3 DEF InHand, At
  <2>2. CASE v = w
    BY <2>1, <2>2 DEF At
  <2>3. CASE v # w
    <3>1. pc'[v] = "upsert" /\ k \in mem'[v].task
      BY <1>1, <2>1, <2>3
    <3> QED BY <3>1 DEF InHand, At
  <2> QED BY <2>2, <2>3
<1>4. place = "upsert" => m.task \subseteq InHand'
  BY <1>2 DEF InHand, At
<1>5. ASSUME NEW r \in ToSend PROVE r \in ToSend' \/ (At(w, "send") /\ r \in mem[w].rows)
  <2>1. PICK v \in Workers : pc[v] = "send" /\ r \in mem[v].rows
    BY <1>5 DEF ToSend, At
  <2>2. CASE v = w
    BY <2>1, <2>2 DEF At
  <2>3. CASE v # w
    <3>1. pc'[v] = "send" /\ r \in mem'[v].rows
      BY <1>1, <2>1, <2>3
    <3> QED BY <3>1 DEF ToSend, At
  <2> QED BY <2>2, <2>3
<1>6. place = "send" => m.rows \subseteq ToSend'
  BY <1>2 DEF ToSend, At
<1> QED BY <1>3, <1>4, <1>5, <1>6

LEMMA InHandSame == UNCHANGED <<pc, mem>> => InHand' = InHand /\ ToSend' = ToSend
  BY DEF InHand, ToSend, At

LEMMA WatchStep ==
  ASSUME MarketInv, Watch
  PROVE  MarketInv'
<1>1. UNCHANGED <<now, raw, months, features, detects, pc, mem, computes, gaps, fill,
                  signals, due, outcomes, short, scanned, budget, failures>>
  BY DEF Watch, Tasks, Results, History
<1>2. ClockInv /\ ClockInv' /\ RawInv /\ RawInv'
  BY <1>1 DEF MarketInv, ClockInv, RawInv
<1>3. StreamInv'
  <2>1. Forming \in Candles /\ Forming <= now /\ now \in Minutes
    BY <1>2, FormingCandle, ClockTyped
  <2> DEFINE r == [open |-> Forming, from |-> "stream", taken |-> now]
  <2>2. r \in Row /\ r.open <= r.taken /\ r.from = "stream"
    BY <2>1 DEF Row
  <2>3. watched' = Forming /\ stream' = stream \cup {r}
    BY DEF Watch
  <2> HIDE DEF r
  <2> QED BY <2>1, <2>2, <2>3 DEF MarketInv, StreamInv
<1>4. /\ KeysInv' /\ GapsInv' /\ TasksInv' /\ FeaturesInv' /\ ScannedInv'
      /\ SignalsInv' /\ OutcomeSound'
  BY <1>1, <1>2, ClockTyped, PartsKept
<1>5. FeaturesExplained'
  <2>1. Covered' = Covered /\ ToSend' = ToSend
    BY <1>1, InHandSame DEF Covered
  <2> QED BY <1>1, <1>2, <2>1, ClockTyped, StillExplained
<1> QED BY <1>2, <1>3, <1>4, <1>5 DEF MarketInv

LEMMA ConsumeStep ==
  ASSUME MarketInv, NEW r \in stream, Consume(r)
  PROVE  MarketInv'
<1>1. /\ UNCHANGED <<now, watched, months, features, detects, pc, mem, gaps, fill,
                     signals, due, outcomes, short, scanned, budget>>
      /\ stream' = stream \ {r}
  BY DEF Consume, Results, History
<1>2. ClockInv /\ RawInv /\ r \in Row /\ r.open <= r.taken
  BY DEF MarketInv, StreamInv
<1>3. RowsOK({r})
  BY <1>2 DEF RowsOK
<1> DEFINE R == raw \cup Inserted({r})
<1>4. RowsOK(R) /\ raw \subseteq R /\ Inserted({r}) \subseteq {r}
  BY <1>2, <1>3, InsertKeeps DEF Inserted
<1>5. /\ raw' \in {raw, R}
      /\ \/ raw' = R /\ computes' = computes \cup {Close(x) : x \in Inserted({r})} /\ Fine
         \/ raw' = raw /\ UNCHANGED computes /\ Fine
         \/ UNCHANGED computes /\ Failed
  BY DEF Consume, Store
<1>6. RawInv' /\ raw \subseteq raw' /\ raw' \subseteq raw \cup {r}
  BY <1>2, <1>4, <1>5 DEF RawInv
<1> HIDE DEF R
<1>7. ClockInv'
  BY <1>1, <1>2, <1>5, ClockTyped DEF ClockInv, Fine
<1>8. /\ GapsInv' /\ TasksInv' /\ FeaturesInv' /\ ScannedInv' /\ SignalsInv' /\ OutcomeSound'
  BY <1>1, <1>2, <1>6, ClockTyped, PartsKept
<1>9. StreamInv'
  BY <1>1 DEF MarketInv, StreamInv
<1>10. KeysInv'
  <2>1. \A k \in computes : KeyOK(k, raw')
    BY <1>2, <1>6, ClockTyped, Grows DEF MarketInv, KeysInv
  <2>2. \A k \in computes' : k \in computes \/ (k = Close(r) /\ r \in raw')
    BY <1>4, <1>5 DEF R
  <2>3. r \in raw' => KeyOK(Close(r), raw')
    BY <1>2, CloseFacts DEF KeyOK
  <2>4. \A k \in computes' : KeyOK(k, raw')
    BY <2>1, <2>2, <2>3
  <2> QED BY <1>1, <2>4 DEF MarketInv, KeysInv
<1>11. computes \subseteq computes'
  BY <1>5
<1>12. Covered \subseteq Covered' /\ ToSend' = ToSend
  BY <1>1, <1>11, InHandSame DEF Covered
<1>13. FeaturesExplained'
  <2>1. CASE raw' = R /\ computes' = computes \cup {Close(x) : x \in Inserted({r})} /\ Fine
    <3>1. \A x \in raw' : x \in raw \/ Close(x) \in computes'
      BY <2>1 DEF R
    <3>2. \A x \in raw' : x \in raw \/ Close(x) \in Covered'
      BY <3>1 DEF Covered
    <3> QED BY <1>2, <1>6, <1>12, <2>1, <3>2, ClockTyped, StillExplained DEF Fine
  <2>2. CASE raw' = raw /\ UNCHANGED computes /\ Fine
    BY <1>2, <1>6, <1>12, <2>2, ClockTyped, StillExplained DEF Fine
  <2>3. CASE UNCHANGED computes /\ Failed
    <3>1. failures' = failures + 1 /\ failures' \in Nat
      BY <1>2, <2>3, ClockTyped
    <3>2. \A x \in raw' : x \in raw \/ Origin(x) = Origin(r)
      BY <1>6
    <3>3. \A x \in raw : Accounted(x) => Accounted(x)'
      BY <1>12 DEF Accounted, Close
    <3> QED BY <1>6, <3>1, <3>2, <3>3, OneMore
  <2> QED BY <1>5, <2>1, <2>2, <2>3
<1> QED BY <1>6, <1>7, <1>8, <1>9, <1>10, <1>13 DEF MarketInv

LEMMA RestartStep ==
  ASSUME MarketInv, Restart
  PROVE  MarketInv'
<1>1. UNCHANGED <<now, raw, months, features, detects, pc, mem, computes, gaps, fill,
                  signals, due, outcomes, short, scanned, budget>>
  BY DEF Restart, Tasks, Results, History
<1>2. ClockInv /\ RawInv /\ RawInv'
  BY <1>1 DEF MarketInv, RawInv
<1>3. ClockInv' /\ failures' \in Nat /\ failures' >= failures
  BY <1>1, <1>2, ClockTyped DEF ClockInv, Restart
<1>4. StreamInv'
  BY DEF Restart, StreamInv
<1>5. /\ KeysInv' /\ GapsInv' /\ TasksInv' /\ FeaturesInv' /\ ScannedInv'
      /\ SignalsInv' /\ OutcomeSound'
  BY <1>1, <1>2, ClockTyped, PartsKept
<1>6. FeaturesExplained'
  <2>1. Covered' = Covered /\ ToSend' = ToSend
    BY <1>1, InHandSame DEF Covered
  <2> QED BY <1>1, <1>2, <1>3, <2>1, StillExplained
<1> QED BY <1>2, <1>3, <1>4, <1>5, <1>6 DEF MarketInv

LEMMA ScanStep ==
  ASSUME MarketInv, scan_gaps
  PROVE  MarketInv'
<1>1. UNCHANGED <<now, watched, stream, raw, months, features, computes, detects, pc, mem,
                  fill, signals, due, outcomes, short, failures>>
  BY DEF scan_gaps, Results
<1>2. ClockInv /\ RawInv /\ RawInv' /\ ClockInv'
  BY <1>1 DEF MarketInv, RawInv, ClockInv
<1>3. /\ StreamInv' /\ KeysInv' /\ TasksInv' /\ FeaturesInv' /\ SignalsInv' /\ OutcomeSound'
  BY <1>1, <1>2, ClockTyped, PartsKept
<1>4. GapsInv' /\ ScannedInv'
  <2>1. CASE Missing = {}
    <3>1. scanned' = scanned \cup {now} /\ UNCHANGED gaps
      BY <2>1 DEF scan_gaps
    <3>2. LookedBack(now) \subseteq Opens(raw)
      BY <1>2, <2>1, ScanCovers
    <3>3. ScannedInv'
      BY <1>1, <1>2, <3>1, <3>2, ClockTyped DEF MarketInv, ScannedInv
    <3> QED BY <1>1, <1>2, <3>1, <3>3, ClockTyped, PartsKept
  <2>2. CASE Missing # {}
    <3> DEFINE g == [at |-> now, opens |-> Missing]
    <3>1. gaps' = gaps \cup {g} /\ UNCHANGED scanned
      BY <2>2 DEF scan_gaps
    <3>2. GapOK(g, raw, now) /\ g \in [at: Minutes, opens: SUBSET Int]
      BY <1>2, <2>2, ScanCovers, ClockTyped
    <3> HIDE DEF g
    <3>3. GapsInv'
      BY <1>1, <3>1, <3>2 DEF MarketInv, GapsInv
    <3> QED BY <1>1, <1>2, <3>1, <3>3, ClockTyped, PartsKept
  <2> QED BY <2>1, <2>2
<1>5. FeaturesExplained'
  <2>1. Covered' = Covered /\ ToSend' = ToSend
    BY <1>1, InHandSame DEF Covered
  <2> QED BY <1>1, <1>2, <2>1, ClockTyped, StillExplained
<1> QED BY <1>2, <1>3, <1>4, <1>5 DEF MarketInv


LEMMA FetchStep ==
  ASSUME MarketInv, NEW w \in Workers, Fetch(w)
  PROVE  MarketInv'
<1>1. UNCHANGED <<now, watched, stream, raw, months, features, computes, detects, fill,
                  signals, due, outcomes, short, budget>>
  BY DEF Fetch, Rest, Results
<1>2. ClockInv /\ RawInv /\ RawInv' /\ now' = now /\ raw \subseteq raw' /\ raw' = raw
  BY <1>1 DEF MarketInv, RawInv
<1>3. PICK g \in gaps :
        LET rows == Fetched(Min(g.opens), Max(g.opens) + 1)
        IN  /\ gaps' = gaps \ {g}
            /\ \/ /\ rows # {} /\ Fine
                  /\ Goto(w, "backfill") /\ Keep(w, [task |-> {g}, rows |-> rows])
                  /\ UNCHANGED scanned
               \/ /\ rows = {} /\ Fine
                  /\ scanned' = scanned \cup {g.at} /\ UNCHANGED <<pc, mem>>
               \/ Failed /\ UNCHANGED <<pc, mem, scanned>>
  BY DEF Fetch
<1> DEFINE rows == Fetched(Min(g.opens), Max(g.opens) + 1)
           m == [task |-> {g}, rows |-> rows]
<1>4. GapOK(g, raw, now) /\ g \in [at: Minutes, opens: SUBSET Int]
  BY DEF MarketInv, GapsInv
<1>5. /\ RowsOK(rows) /\ OneFetch(rows)
      /\ \A o \in LookedBack(g.at) : o \in Opens(raw) \/ o \in Opens(rows)
  <2>1. ASSUME NEW o \in LookedBack(g.at) PROVE o \in Candles /\ o <= now
    <3>1. o \in Candles /\ o + TF <= g.at
      BY DEF LookedBack
    <3>2. o \in Nat /\ g.at \in Nat /\ now \in Nat /\ TF \in Nat /\ g.at <= now
      BY <1>2, <1>4, <3>1, CandleFacts, ClockTyped, ConstantsTyped DEF GapOK, Minutes
    <3> QED BY <3>1, <3>2
  <2>2. \A o \in LookedBack(g.at) :
          o \in Opens(raw) \/ (Min(g.opens) <= o /\ o <= Max(g.opens) + 1)
    BY <1>4 DEF GapOK
  <2> QED BY <1>2, <2>1, <2>2, ClockTyped, FetchedFacts
<1>6. AnswerOK(g, rows, raw, now)
  BY <1>4, <1>5 DEF AnswerOK
<1>7. gaps' = gaps \ {g}
      /\ \/ Fine /\ Goto(w, "backfill") /\ Keep(w, m) /\ UNCHANGED scanned
         \/ rows = {} /\ Fine /\ scanned' = scanned \cup {g.at} /\ UNCHANGED <<pc, mem>>
         \/ Failed /\ UNCHANGED <<pc, mem, scanned>>
  BY <1>3
<1>8. m.task = {g} /\ m.rows = rows
  OBVIOUS
<1> HIDE DEF rows, m
<1>9. TaskOK("backfill", m, raw, now)
  BY <1>6, <1>8 DEF TaskOK
<1>10. ClockInv' /\ failures' \in Nat /\ failures' >= failures
  BY <1>1, <1>2, <1>7, ClockTyped DEF ClockInv, Fine
<1>11. StreamInv' /\ KeysInv' /\ FeaturesInv' /\ SignalsInv' /\ OutcomeSound'
  BY <1>1, <1>2, ClockTyped, PartsKept
<1>12. GapsInv'
  BY <1>1, <1>7 DEF MarketInv, GapsInv
<1>13. TasksInv' /\ Covered \subseteq Covered' /\ ToSend \subseteq ToSend'
  <2>1. CASE Goto(w, "backfill") /\ Keep(w, m)
    <3>1. /\ TasksInv'
          /\ pc' = [v \in Workers |-> IF v = w THEN "backfill" ELSE pc[v]]
          /\ mem' = [v \in Workers |-> IF v = w THEN m ELSE mem[v]]
      BY <1>2, <1>9, <2>1, TaskMoves
    <3>2. ~At(w, "upsert") /\ ~At(w, "send")
      BY DEF Fetch, At
    <3>3. InHand \subseteq InHand' /\ ToSend \subseteq ToSend'
      BY <3>1, <3>2, InHandMoves
    <3> QED BY <1>1, <3>1, <3>3 DEF Covered
  <2>2. CASE UNCHANGED <<pc, mem>>
    <3>1. Covered' = Covered /\ ToSend' = ToSend
      BY <1>1, <2>2, InHandSame DEF Covered
    <3> QED BY <1>2, <2>2, <3>1, ClockTyped, PartsKept
  <2> QED BY <1>7, <2>1, <2>2
<1>14. ScannedInv'
  <2>1. CASE UNCHANGED scanned
    BY <1>2, <2>1, ClockTyped, PartsKept
  <2>2. CASE rows = {} /\ scanned' = scanned \cup {g.at}
    <3>1. Opens(rows) = {}
      BY <2>2 DEF Opens
    <3>2. LookedBack(g.at) \subseteq Opens(raw) /\ g.at \in Minutes
      BY <1>4, <1>5, <3>1
    <3> QED BY <1>2, <2>2, <3>2 DEF MarketInv, ScannedInv
  <2> QED BY <1>7, <2>1, <2>2
<1>15. FeaturesExplained'
  BY <1>2, <1>10, <1>13, StillExplained
<1> QED BY <1>2, <1>10, <1>11, <1>12, <1>13, <1>14, <1>15 DEF MarketInv

LEMMA InsertStep ==
  ASSUME MarketInv, NEW w \in Workers, Insert(w)
  PROVE  MarketInv'
<1>1. /\ UNCHANGED <<now, watched, stream, months, fill, signals, due, outcomes, budget,
                     features, computes, gaps, detects, short>>
      /\ pc[w] = "backfill"
  BY DEF Insert, Rest, Results, At
<1>2. ClockInv /\ RawInv /\ now' = now /\ mem = [v \in Workers |-> mem[v]]
  BY <1>1 DEF MarketInv, TasksInv
<1>3. PICK g \in mem[w].task : mem[w].task = {g} /\ AnswerOK(g, mem[w].rows, raw, now)
  BY <1>1 DEF MarketInv, TasksInv, TaskOK
<1> DEFINE rows == mem[w].rows
           R == raw \cup Inserted(rows)
           Stored == /\ raw' = R /\ scanned' = scanned \cup {g.at} /\ Fine
                     /\ Goto(w, "send") /\ Keep(w, mem[w])
           Over == UNCHANGED <<raw, scanned>> /\ Fine /\ Finish(w)
           Broken == raw' \in {raw, R} /\ UNCHANGED scanned /\ Failed /\ Finish(w)
<1>4. /\ RowsOK(rows) /\ g.at \in Minutes /\ OneFetch(rows)
      /\ \A o \in LookedBack(g.at) : o \in Opens(raw) \/ o \in Opens(rows)
  BY <1>3 DEF AnswerOK
<1>5. RowsOK(R) /\ Opens(R) = Opens(raw) \cup Opens(rows) /\ raw \subseteq R
  BY <1>2, <1>4, InsertKeeps
<1>6. Stored \/ Over \/ Broken
  <2>1. {x.at : x \in mem[w].task} = {g.at}
    BY <1>3
  <2>2. UNCHANGED mem => Keep(w, mem[w])
    BY <1>2 DEF Keep
  <2> QED BY <2>1, <2>2 DEF Insert
<1>7. \A r \in R : r \in raw \/ r \in rows
  BY DEF Inserted
<1> HIDE DEF rows, R
<1>8. raw \subseteq raw' /\ RawInv' /\ raw' \in {raw, R}
  BY <1>2, <1>5, <1>6 DEF RawInv
<1>9. ClockInv' /\ failures' \in Nat
  BY <1>1, <1>2, <1>6, ClockTyped DEF ClockInv, Fine
<1>10. StreamInv' /\ KeysInv' /\ GapsInv' /\ FeaturesInv' /\ SignalsInv' /\ OutcomeSound'
  BY <1>1, <1>2, <1>8, ClockTyped, PartsKept
<1>11. ASSUME Finish(w)
       PROVE  TasksInv' /\ InHand \subseteq InHand' /\ ToSend \subseteq ToSend'
  <2>1. /\ TasksInv'
        /\ pc' = [v \in Workers |-> IF v = w THEN "idle" ELSE pc[v]]
        /\ mem' = [v \in Workers |-> IF v = w THEN NoTask ELSE mem[v]]
    BY <1>2, <1>8, <1>11, FinishedTask, TaskMoves DEF Finish
  <2>2. ~At(w, "upsert") /\ ~At(w, "send")
    BY <1>1 DEF At
  <2> QED BY <2>1, <2>2, InHandMoves
<1>12. CASE Stored
  <2>1. TaskOK("send", mem[w], raw', now)
    <3>1. AnswerOK(g, rows, raw', now)
      <4>1. GapOK(g, raw', now)
        BY <1>2, <1>3, <1>8, Grows, ClockTyped DEF AnswerOK
      <4>2. \A o \in LookedBack(g.at) : o \in Opens(raw') \/ o \in Opens(rows)
        BY <1>4, <1>5, <1>12
      <4> QED BY <1>3, <1>4, <4>1, <4>2 DEF AnswerOK, rows
    <3>2. Opens(rows) \subseteq Opens(raw')
      BY <1>5, <1>12
    <3> QED BY <1>3, <3>1, <3>2 DEF TaskOK, rows
  <2>2. /\ TasksInv'
        /\ pc' = [v \in Workers |-> IF v = w THEN "send" ELSE pc[v]]
        /\ mem' = [v \in Workers |-> IF v = w THEN mem[w] ELSE mem[v]]
    BY <1>2, <1>8, <1>12, <2>1, TaskMoves
  <2>3. ~At(w, "upsert") /\ ~At(w, "send")
    BY <1>1 DEF At
  <2>4. InHand \subseteq InHand' /\ ToSend \subseteq ToSend' /\ rows \subseteq ToSend'
    BY <2>2, <2>3, InHandMoves DEF rows
  <2>5. ScannedInv'
    <3>1. \A t \in scanned' : LookedBack(t) \subseteq Opens(raw')
      BY <1>4, <1>5, <1>12 DEF MarketInv, ScannedInv
    <3>2. scanned' \subseteq Minutes
      BY <1>4, <1>12 DEF MarketInv, ScannedInv
    <3> QED BY <3>1, <3>2 DEF ScannedInv
  <2>6. FeaturesExplained'
    <3>1. Covered \subseteq Covered'
      BY <1>1, <2>4 DEF Covered
    <3>2. \A r \in raw' : r \in raw \/ r \in ToSend'
      BY <1>7, <1>12, <2>4
    <3>3. failures' >= failures
      BY <1>2, <1>12, ClockTyped DEF Fine
    <3> QED BY <1>8, <1>9, <2>4, <3>1, <3>2, <3>3, StillExplained
  <2> QED BY <1>8, <1>9, <1>10, <2>2, <2>5, <2>6 DEF MarketInv
<1>13. CASE Over
  <2>1. ScannedInv'
    BY <1>2, <1>8, <1>13, ClockTyped, PartsKept
  <2>2. Covered \subseteq Covered'
    BY <1>1, <1>11, <1>13 DEF Covered
  <2>3. failures' >= failures
    BY <1>2, <1>13, ClockTyped DEF Fine
  <2>4. FeaturesExplained'
    BY <1>8, <1>9, <1>11, <1>13, <2>2, <2>3, StillExplained
  <2> QED BY <1>8, <1>9, <1>10, <1>11, <1>13, <2>1, <2>4 DEF MarketInv
<1>14. CASE Broken
  <2>1. ScannedInv'
    BY <1>2, <1>8, <1>14, ClockTyped, PartsKept
  <2>2. Covered \subseteq Covered'
    BY <1>1, <1>11, <1>14 DEF Covered
  <2>3. failures' = failures + 1
    BY <1>2, <1>14, ClockTyped
  <2>4. PICK o0 : \A r \in rows : Origin(r) = o0
    BY <1>4, FetchOrigin
  <2>5. \A r \in raw' : r \in raw \/ Origin(r) = o0
    BY <1>7, <1>8, <2>4
  <2>6. \A r \in raw : Accounted(r) => Accounted(r)'
    BY <1>11, <1>14, <2>2 DEF Accounted, Close
  <2>7. FeaturesExplained'
    BY <1>8, <1>9, <2>3, <2>5, <2>6, OneMore
  <2> QED BY <1>8, <1>9, <1>10, <1>11, <1>14, <2>1, <2>7 DEF MarketInv
<1> QED BY <1>6, <1>12, <1>13, <1>14

LEMMA SendStep ==
  ASSUME MarketInv, NEW w \in Workers, Send(w)
  PROVE  MarketInv'
<1>1. /\ UNCHANGED <<now, watched, stream, months, fill, signals, due, outcomes, budget,
                     raw, features, gaps, detects, short, scanned>>
      /\ pc[w] = "send"
  BY DEF Send, Rest, Results, History, At
<1>2. /\ ClockInv /\ RawInv /\ RawInv' /\ raw \subseteq raw' /\ raw' = raw /\ now' = now
      /\ pc \in [Workers -> {"idle", "backfill", "send", "upsert"}]
  BY <1>1 DEF MarketInv, RawInv, TasksInv
<1>3. PICK g \in mem[w].task : mem[w].task = {g} /\ AnswerOK(g, mem[w].rows, raw, now)
  BY <1>1 DEF MarketInv, TasksInv, TaskOK
<1> DEFINE rows == mem[w].rows
           m == [task |-> mem[w].task, rows |-> Unsent(w)]
           On == computes' = computes \cup Sent(w) /\ Goto(w, "send") /\ Keep(w, m) /\ Fine
           Last1 == computes' = computes \cup Sent(w) /\ Unsent(w) = {} /\ Finish(w) /\ Fine
           Broken == UNCHANGED computes /\ Finish(w) /\ Failed
<1>4. On \/ Last1 \/ Broken
  <2>1. UNCHANGED pc => Goto(w, "send")
    BY <1>1, <1>2 DEF Goto
  <2> QED BY <2>1 DEF Send
<1>5. /\ RowsOK(rows) /\ OneFetch(rows) /\ Opens(rows) \subseteq Opens(raw)
      /\ \A o \in LookedBack(g.at) : o \in Opens(raw)
  BY <1>1, <1>3 DEF MarketInv, TasksInv, TaskOK, AnswerOK
<1>6. /\ Unsent(w) \subseteq rows /\ Sent(w) \subseteq {Close(r) : r \in rows}
      /\ \A r \in rows : r \in Unsent(w) \/ Close(r) \in Sent(w)
  BY DEF Unsent, Sent
<1>7. \A r \in rows : KeyOK(Close(r), raw)
  <2> SUFFICES ASSUME NEW r \in rows PROVE KeyOK(Close(r), raw)
    OBVIOUS
  <2>1. r \in Row /\ r.from = "rest"
    BY <1>5 DEF RowsOK, OneFetch
  <2>2. Close(r) \in Keys /\ KeyCandle(Close(r)) = r.open /\ Close(r) % 2 # 0
    BY <2>1, CloseFacts
  <2>3. r.open \in Opens(raw)
    BY <1>5 DEF Opens
  <2>4. PICK x \in raw : x.open = r.open
    BY <2>3 DEF Opens
  <2> QED BY <2>2, <2>4 DEF KeyOK
<1>8. KeysInv'
  <2>1. \A k \in computes' : KeyOK(k, raw)
    BY <1>4, <1>6, <1>7 DEF MarketInv, KeysInv
  <2> QED BY <1>1, <2>1 DEF MarketInv, KeysInv
<1>9. ClockInv' /\ failures' \in Nat
  BY <1>1, <1>2, <1>4, ClockTyped DEF ClockInv, Fine
<1>10. StreamInv' /\ GapsInv' /\ FeaturesInv' /\ ScannedInv' /\ SignalsInv' /\ OutcomeSound'
  BY <1>1, <1>2, ClockTyped, PartsKept
<1>11. m.task = mem[w].task /\ m.rows = Unsent(w)
  OBVIOUS
<1> HIDE DEF rows, m
<1>12. TaskOK("send", m, raw, now)
  <2>1. RowsOK(Unsent(w)) /\ OneFetch(Unsent(w)) /\ Opens(Unsent(w)) \subseteq Opens(raw)
    BY <1>5, <1>6 DEF RowsOK, OneFetch, Opens
  <2>2. AnswerOK(g, Unsent(w), raw, now)
    BY <1>3, <1>5, <2>1 DEF AnswerOK
  <2> QED BY <1>3, <1>11, <2>1, <2>2 DEF TaskOK
<1>13. ~At(w, "upsert")
  BY <1>1 DEF At
<1>14. ASSUME On PROVE MarketInv'
  <2>1. /\ TasksInv'
        /\ pc' = [v \in Workers |-> IF v = w THEN "send" ELSE pc[v]]
        /\ mem' = [v \in Workers |-> IF v = w THEN m ELSE mem[v]]
    BY <1>2, <1>12, <1>14, TaskMoves
  <2>2. /\ InHand \subseteq InHand' /\ Unsent(w) \subseteq ToSend'
        /\ \A r \in ToSend : r \in ToSend' \/ r \in rows
    BY <1>11, <1>13, <2>1, InHandMoves DEF rows
  <2>3. Covered \subseteq Covered' /\ Sent(w) \subseteq Covered'
    BY <1>1, <1>14, <2>2 DEF Covered
  <2>4. \A r \in ToSend : r \in ToSend' \/ Close(r) \in Covered'
    BY <1>6, <2>2, <2>3
  <2>5. failures' >= failures
    BY <1>2, <1>14, ClockTyped DEF Fine
  <2>6. FeaturesExplained'
    BY <1>2, <1>9, <2>3, <2>4, <2>5, StillExplained
  <2> QED BY <1>2, <1>8, <1>9, <1>10, <2>1, <2>6 DEF MarketInv
<1>15. ASSUME Finish(w)
       PROVE  /\ TasksInv' /\ InHand \subseteq InHand'
              /\ \A r \in ToSend : r \in ToSend' \/ r \in rows
  <2>1. /\ TasksInv'
        /\ pc' = [v \in Workers |-> IF v = w THEN "idle" ELSE pc[v]]
        /\ mem' = [v \in Workers |-> IF v = w THEN NoTask ELSE mem[v]]
    BY <1>2, <1>15, FinishedTask, TaskMoves DEF Finish
  <2> QED BY <1>13, <2>1, InHandMoves DEF rows
<1>16. ASSUME Last1 PROVE MarketInv'
  <2>1. Covered \subseteq Covered' /\ Sent(w) \subseteq Covered'
    BY <1>1, <1>15, <1>16 DEF Covered
  <2>2. \A r \in ToSend : r \in ToSend' \/ Close(r) \in Covered'
    BY <1>6, <1>15, <1>16, <2>1
  <2>3. failures' >= failures
    BY <1>2, <1>16, ClockTyped DEF Fine
  <2>4. FeaturesExplained'
    BY <1>2, <1>9, <2>1, <2>2, <2>3, StillExplained
  <2> QED BY <1>2, <1>8, <1>9, <1>10, <1>15, <1>16, <2>4 DEF MarketInv
<1>17. ASSUME Broken PROVE MarketInv'
  <2>1. Covered \subseteq Covered'
    BY <1>1, <1>15, <1>17 DEF Covered
  <2>2. failures' = failures + 1
    BY <1>2, <1>17, ClockTyped
  <2>3. PICK o0 : \A r \in rows : Origin(r) = o0
    BY <1>5, FetchOrigin
  <2>4. \A r \in raw : Accounted(r) => Accounted(r)' \/ Origin(r) = o0
    BY <1>15, <1>17, <2>1, <2>3 DEF Accounted, Close
  <2>5. FeaturesExplained'
    BY <1>2, <1>9, <2>2, <2>4, OneMore
  <2> QED BY <1>2, <1>8, <1>9, <1>10, <1>15, <1>17, <2>5 DEF MarketInv
<1> QED BY <1>4, <1>14, <1>16, <1>17

LEMMA ComputeStep ==
  ASSUME MarketInv, NEW w \in Workers, Compute(w)
  PROVE  MarketInv'
<1>1. /\ UNCHANGED <<now, watched, stream, months, fill, signals, due, outcomes, budget,
                     raw, features, gaps, detects, scanned>>
      /\ pc[w] = "idle"
  BY DEF Compute, Rest, Results, At
<1>2. /\ ClockInv /\ RawInv /\ RawInv' /\ raw \subseteq raw' /\ raw' = raw
      /\ now' = now
  BY <1>1 DEF MarketInv, RawInv
<1>3. PICK k \in computes :
        /\ computes' = computes \ {k}
        /\ \/ Fine /\ short' = short \cup {k} /\ UNCHANGED <<pc, mem>>
           \/ /\ Cardinality(Loaded(k)) >= MinHistory /\ Fine
              /\ Goto(w, "upsert") /\ Keep(w, [task |-> {k}, rows |-> Last(Loaded(k))])
              /\ UNCHANGED short
           \/ Failed /\ UNCHANGED <<pc, mem, short>>
  BY DEF Compute
<1>4. KeyOK(k, raw) /\ k \in Keys
  BY DEF MarketInv, KeysInv, KeyOK
<1>5. /\ StreamInv' /\ GapsInv' /\ FeaturesInv' /\ ScannedInv' /\ SignalsInv' /\ OutcomeSound'
  BY <1>1, <1>2, ClockTyped, PartsKept
<1>6. KeysInv' /\ short \subseteq short'
  BY <1>1, <1>3, <1>4 DEF MarketInv, KeysInv
<1>7. ClockInv' /\ failures' \in Nat /\ failures' >= failures
  BY <1>1, <1>2, <1>3, ClockTyped DEF ClockInv, Fine
<1>8. CASE Fine /\ short' = short \cup {k} /\ UNCHANGED <<pc, mem>>
  <2>1. TasksInv' /\ InHand' = InHand /\ ToSend' = ToSend
    BY <1>2, <1>8, ClockTyped, PartsKept, InHandSame
  <2>2. Covered \subseteq Covered'
    BY <1>1, <1>3, <1>8, <2>1 DEF Covered
  <2>3. FeaturesExplained'
    BY <1>2, <1>7, <2>1, <2>2, StillExplained
  <2> QED BY <1>2, <1>5, <1>6, <1>7, <2>1, <2>3 DEF MarketInv
<1>9. CASE /\ Cardinality(Loaded(k)) >= MinHistory /\ Fine
           /\ Goto(w, "upsert") /\ Keep(w, [task |-> {k}, rows |-> Last(Loaded(k))])
           /\ UNCHANGED short
  <2> DEFINE m == [task |-> {k}, rows |-> Last(Loaded(k))]
  <2>1. FeatureOK(k, Last(Loaded(k)), raw)
    BY <1>2, <1>4, <1>9, LoadedFacts
  <2>2. m.task = {k} /\ m.rows = Last(Loaded(k))
    OBVIOUS
  <2>3. Keep(w, m)
    BY <1>9
  <2> HIDE DEF m
  <2>4. TaskOK("upsert", m, raw, now)
    BY <1>4, <2>1, <2>2 DEF TaskOK
  <2>5. /\ TasksInv'
        /\ pc' = [v \in Workers |-> IF v = w THEN "upsert" ELSE pc[v]]
        /\ mem' = [v \in Workers |-> IF v = w THEN m ELSE mem[v]]
    BY <1>2, <1>9, <2>3, <2>4, TaskMoves
  <2>6. ~At(w, "upsert") /\ ~At(w, "send")
    BY <1>1 DEF At
  <2>7. InHand \subseteq InHand' /\ k \in InHand' /\ ToSend \subseteq ToSend'
    BY <2>2, <2>5, <2>6, InHandMoves
  <2>8. Covered \subseteq Covered'
    BY <1>1, <1>3, <1>9, <2>7 DEF Covered
  <2>9. FeaturesExplained'
    BY <1>2, <1>7, <2>7, <2>8, StillExplained
  <2> QED BY <1>2, <1>5, <1>6, <1>7, <2>5, <2>9 DEF MarketInv
<1>10. CASE Failed /\ UNCHANGED <<pc, mem, short>>
  <2>1. TasksInv' /\ InHand' = InHand /\ ToSend' = ToSend
    BY <1>2, <1>10, ClockTyped, PartsKept, InHandSame
  <2>2. \A x \in Covered : x \in Covered' \/ x = k
    BY <1>1, <1>3, <1>10, <2>1 DEF Covered
  <2>3. PICK o0 : \A r \in raw : Close(r) = k => Origin(r) = o0
    BY <1>2, KeyOrigin
  <2>4. \A r \in raw : Accounted(r) => Accounted(r)' \/ Origin(r) = o0
    BY <2>1, <2>2, <2>3 DEF Accounted, Close
  <2>5. failures' = failures + 1
    BY <1>2, <1>10, ClockTyped
  <2>6. FeaturesExplained'
    BY <1>2, <1>7, <2>4, <2>5, OneMore
  <2> QED BY <1>2, <1>5, <1>6, <1>7, <2>1, <2>6 DEF MarketInv
<1> QED BY <1>3, <1>8, <1>9, <1>10


\* An upsert by key: the new rows stand for the old ones of their keys.
LEMMA UpsertKeeps ==
  ASSUME NEW rows, NEW R, rows \subseteq Feature, features \subseteq Feature,
         \A f, g \in features : f.key = g.key => f = g,
         \A f, g \in rows : f.key = g.key => f = g,
         \A f \in features : FeatureOK(f.key, f.used, R),
         \A f \in rows : FeatureOK(f.key, f.used, R)
  PROVE  /\ Upserted(rows) \subseteq Feature
         /\ \A f, g \in Upserted(rows) : f.key = g.key => f = g
         /\ \A f \in Upserted(rows) : FeatureOK(f.key, f.used, R)
         /\ {f.key : f \in features} \cup {f.key : f \in rows} \subseteq {f.key : f \in Upserted(rows)}
<1> DEFINE U == Upserted(rows)
<1>1. \A f \in U : f \in rows \/ (f \in features /\ \A g \in rows : g.key # f.key)
  BY DEF Upserted
<1>2. \A f \in features : f \in U \/ \E g \in rows : g.key = f.key
  BY DEF Upserted
<1>3. rows \subseteq U
  BY DEF Upserted
<1> HIDE DEF U
<1>4. U \subseteq Feature /\ \A f \in U : FeatureOK(f.key, f.used, R)
  BY <1>1
<1>5. ASSUME NEW f \in U, NEW g \in U, f.key = g.key PROVE f = g
  BY <1>1, <1>5
<1>6. {f.key : f \in features} \cup {f.key : f \in rows} \subseteq {f.key : f \in U}
  BY <1>2, <1>3
<1> QED BY <1>4, <1>5, <1>6 DEF U

LEMMA UpsertStep ==
  ASSUME MarketInv, NEW w \in Workers, Upsert(w)
  PROVE  MarketInv'
<1>1. /\ UNCHANGED <<now, watched, stream, months, fill, signals, due, outcomes, budget,
                     raw, computes, gaps, short, scanned>>
      /\ pc[w] = "upsert" /\ Goto(w, "idle") /\ Keep(w, NoTask)
      /\ features' \in {features, Upserted({FeatureOf(w)})}
      /\ \/ /\ features' = Upserted({FeatureOf(w)})
            /\ detects' = TRUE /\ UNCHANGED failures
         \/ UNCHANGED detects /\ Failed
  BY DEF Upsert, Rest, Results, History, Finish, Fine, At
<1>2. ClockInv /\ RawInv /\ RawInv' /\ raw \subseteq raw' /\ raw' = raw /\ now' = now
  BY <1>1 DEF MarketInv, RawInv
<1>3. ClockInv' /\ failures' \in Nat /\ failures' >= failures
  BY <1>1, <1>2, ClockTyped DEF ClockInv
<1>4. PICK k \in Keys :
        mem[w].task = {k} /\ KeyOK(k, raw) /\ FeatureOK(k, mem[w].rows, raw)
  BY <1>1 DEF MarketInv, TasksInv, TaskOK
<1>5. StreamInv' /\ GapsInv' /\ ScannedInv' /\ SignalsInv' /\ OutcomeSound'
  BY <1>1, <1>2, ClockTyped, PartsKept
<1>6. KeysInv'
  BY <1>1, <1>4 DEF MarketInv, KeysInv
<1>7. /\ TasksInv'
      /\ pc' = [v \in Workers |-> IF v = w THEN "idle" ELSE pc[v]]
      /\ mem' = [v \in Workers |-> IF v = w THEN NoTask ELSE mem[v]]
  BY <1>1, <1>2, FinishedTask, TaskMoves
<1> DEFINE f0 == FeatureOf(w)
<1>8. f0.key = k /\ f0.used = mem[w].rows /\ f0 \in Feature
  <2>1. (CHOOSE x \in {k} : TRUE) = k
    OBVIOUS
  <2>2. f0 = [key |-> k, used |-> mem[w].rows]
    BY <1>4, <2>1 DEF FeatureOf
  <2>3. mem[w].rows \in SUBSET Row
    BY <1>4 DEF FeatureOK
  <2> QED BY <2>2, <2>3 DEF Feature
<1> HIDE DEF f0
<1>9. /\ FeaturesInv'
      /\ {f.key : f \in features} \subseteq {f.key : f \in features'}
      /\ k \in {f.key : f \in features'} \/ UNCHANGED features
  <2>1. /\ features \subseteq Feature /\ fill \subseteq Feature
        /\ \A f, g \in features : f.key = g.key => f = g
        /\ \A f \in features \cup fill : FeatureOK(f.key, f.used, raw)
        /\ \A f, g \in fill : f.key = g.key => f = g
    BY DEF MarketInv, FeaturesInv
  <2> DEFINE N == {f0}
  <2>2. /\ N \subseteq Feature
        /\ \A f, g \in N : f.key = g.key => f = g
        /\ \A f \in N : FeatureOK(f.key, f.used, raw)
    BY <1>4, <1>8
  <2>3. features' = Upserted(N) \/ UNCHANGED features
    BY <1>1 DEF f0
  <2>5. {f.key : f \in N} = {k}
    BY <1>8
  <2> HIDE DEF N
  <2>4. CASE features' = Upserted(N)
    <3>1. /\ features' \subseteq Feature
          /\ \A f, g \in features' : f.key = g.key => f = g
          /\ \A f \in features' : FeatureOK(f.key, f.used, raw)
          /\ {f.key : f \in features} \cup {f.key : f \in N} \subseteq {f.key : f \in features'}
      BY <2>1, <2>2, <2>4, UpsertKeeps
    <3> QED BY <1>1, <2>1, <3>1, <2>5 DEF FeaturesInv
  <2>6. CASE UNCHANGED features
    BY <1>1, <2>1, <2>6 DEF FeaturesInv
  <2> QED BY <2>3, <2>4, <2>6
<1>10. FeaturesExplained'
  <2>1. (\A x \in InHand : x \in InHand' \/ x = k) /\ ToSend \subseteq ToSend'
    BY <1>1, <1>4, <1>7, InHandMoves DEF At
  <2>2. CASE k \in {f.key : f \in features'}
    <3>1. Covered \subseteq Covered'
      BY <1>1, <1>9, <2>1, <2>2 DEF Covered
    <3> QED BY <1>2, <1>3, <2>1, <3>1, StillExplained
  <2>3. CASE UNCHANGED features /\ Failed
    <3>1. \A x \in Covered : x \in Covered' \/ x = k
      BY <1>1, <2>1, <2>3 DEF Covered
    <3>2. PICK o0 : \A r \in raw : Close(r) = k => Origin(r) = o0
      BY <1>2, KeyOrigin
    <3>3. \A r \in raw : Accounted(r) => Accounted(r)' \/ Origin(r) = o0
      BY <2>1, <3>1, <3>2 DEF Accounted, Close
    <3>4. failures' = failures + 1
      BY <1>2, <2>3, ClockTyped
    <3> QED BY <1>2, <1>3, <3>3, <3>4, OneMore
  <2>4. features' = Upserted({f0}) => k \in {f.key : f \in features'}
    <3>1. f0 \in Upserted({f0})
      BY DEF Upserted
    <3> QED BY <1>8, <3>1
  <2> QED BY <1>1, <1>9, <2>2, <2>3, <2>4 DEF f0
<1> QED BY <1>2, <1>3, <1>5, <1>6, <1>7, <1>9, <1>10 DEF MarketInv

LEMMA LoseStep ==
  ASSUME MarketInv, NEW w \in Workers, Lose(w)
  PROVE  MarketInv'
<1>1. /\ UNCHANGED <<now, watched, stream, months, fill, signals, due, outcomes, budget,
                     raw, features, detects, short, scanned>>
      /\ pc[w] # "idle" /\ Goto(w, "idle") /\ Keep(w, NoTask) /\ Failed
      /\ IF pc[w] = "upsert" THEN computes' = computes \cup mem[w].task /\ UNCHANGED gaps
                             ELSE gaps' = gaps \cup mem[w].task /\ UNCHANGED computes
  BY DEF Lose, Rest, Results, History, Finish, At
<1>2. ClockInv /\ RawInv /\ RawInv' /\ raw \subseteq raw' /\ raw' = raw /\ now' = now
  BY <1>1 DEF MarketInv, RawInv
<1>3. ClockInv' /\ failures' \in Nat /\ failures' >= failures
  BY <1>1, <1>2, ClockTyped DEF ClockInv
<1>4. StreamInv' /\ FeaturesInv' /\ ScannedInv' /\ SignalsInv' /\ OutcomeSound'
  BY <1>1, <1>2, ClockTyped, PartsKept
<1>5. /\ TasksInv'
      /\ pc' = [v \in Workers |-> IF v = w THEN "idle" ELSE pc[v]]
      /\ mem' = [v \in Workers |-> IF v = w THEN NoTask ELSE mem[v]]
  BY <1>1, <1>2, FinishedTask, TaskMoves
<1>6. CASE pc[w] = "upsert"
  <2>1. computes' = computes \cup mem[w].task /\ UNCHANGED gaps
    BY <1>1, <1>6
  <2>2. \A k \in mem[w].task : KeyOK(k, raw)
    BY <1>6 DEF MarketInv, TasksInv, TaskOK
  <2>3. KeysInv'
    BY <1>1, <2>1, <2>2 DEF MarketInv, KeysInv
  <2>4. (\A x \in InHand : x \in InHand' \/ x \in mem[w].task) /\ ToSend \subseteq ToSend'
    BY <1>5, <1>6, InHandMoves DEF At
  <2>5. Covered \subseteq Covered'
    BY <1>1, <2>1, <2>4 DEF Covered
  <2>6. FeaturesExplained' /\ GapsInv'
    BY <1>2, <1>3, <2>1, <2>4, <2>5, ClockTyped, PartsKept, StillExplained
  <2> QED BY <1>2, <1>3, <1>4, <1>5, <2>3, <2>6 DEF MarketInv
<1>7. CASE pc[w] \in {"backfill", "send"}
  <2>1. gaps' = gaps \cup mem[w].task /\ UNCHANGED computes
    BY <1>1, <1>7
  <2>2. PICK g \in mem[w].task : mem[w].task = {g} /\ AnswerOK(g, mem[w].rows, raw, now)
    BY <1>7 DEF MarketInv, TasksInv, TaskOK
  <2>3. GapsInv'
    BY <1>1, <2>1, <2>2 DEF MarketInv, GapsInv, AnswerOK
  <2>4. InHand \subseteq InHand' /\ \A r \in ToSend : r \in ToSend' \/ r \in mem[w].rows
    BY <1>5, <1>7, InHandMoves DEF At
  <2>5. Covered \subseteq Covered'
    BY <1>1, <2>1, <2>4 DEF Covered
  <2>6. PICK o0 : \A r \in mem[w].rows : Origin(r) = o0
    BY <2>2, FetchOrigin DEF AnswerOK
  <2>7. \A r \in raw : Accounted(r) => Accounted(r)' \/ Origin(r) = o0
    BY <2>4, <2>5, <2>6 DEF Accounted, Close
  <2>8. failures' = failures + 1
    BY <1>1, <1>2, ClockTyped
  <2>9. FeaturesExplained' /\ KeysInv'
    BY <1>1, <1>2, <1>3, <2>1, <2>7, <2>8, OneMore, ClockTyped, PartsKept
  <2> QED BY <1>2, <1>3, <1>4, <1>5, <2>3, <2>9 DEF MarketInv
<1> QED BY <1>1, <1>6, <1>7 DEF MarketInv, TasksInv

LEMMA RunBackfillStep ==
  ASSUME MarketInv, run_backfill
  PROVE  MarketInv'
<1> DEFINE rows == {[r EXCEPT !.from = "history"] : r \in Fetched(0, now)}
           R == raw \cup Inserted(rows)
<1>1. /\ UNCHANGED <<now, watched, stream, detects, pc, mem, computes, gaps, signals, due,
                     outcomes, short, scanned, failures, features, fill>>
      /\ months' = months \cup {o \div Month : o \in 0 .. now}
      /\ raw' = R
  BY DEF run_backfill, Idle, Tasks, Results, History
<1>2. ClockInv /\ RawInv
  BY DEF MarketInv
<1>3. ClockInv'
  <2>1. \A o \in 0 .. now : o \div Month \in Nat
    BY ConstantsTyped
  <2>2. months' \subseteq Nat
    BY <1>1, <1>2, <2>1 DEF ClockInv
  <2> QED BY <1>1, <1>2, <2>2 DEF ClockInv
<1>4. RowsOK(rows) /\ \A r \in rows : r.from = "history"
  <2> DEFINE F == Fetched(0, now)
  <2>1. RowsOK(F)
    BY <1>2, ClockTyped, FetchedFacts
  <2>2. ASSUME NEW r \in F
        PROVE  LET h == [r EXCEPT !.from = "history"]
               IN  h \in Row /\ h.open = r.open /\ h.taken = r.taken /\ h.from = "history"
    <3>1. r \in Row
      BY <2>1 DEF RowsOK
    <3> QED BY <3>1 DEF Row
  <2>3. \A h \in rows : \E r \in F : h = [r EXCEPT !.from = "history"]
    OBVIOUS
  <2> HIDE DEF rows, F
  <2>4. ASSUME NEW h \in rows PROVE h \in Row /\ h.open <= h.taken /\ h.from = "history"
    <3>1. PICK r \in F : h = [r EXCEPT !.from = "history"]
      BY <2>3
    <3>2. h \in Row /\ h.open = r.open /\ h.taken = r.taken /\ h.from = "history"
      BY <2>2, <3>1
    <3>3. r.open <= r.taken
      BY <2>1 DEF RowsOK
    <3> QED BY <3>2, <3>3
  <2>5. ASSUME NEW h \in rows, NEW x \in rows, h.open = x.open PROVE h = x
    <3>1. PICK r \in F : h = [r EXCEPT !.from = "history"]
      BY <2>3
    <3>2. PICK s \in F : x = [s EXCEPT !.from = "history"]
      BY <2>3
    <3>3. h.open = r.open /\ x.open = s.open
      BY <2>2, <3>1, <3>2
    <3>4. r = s
      BY <2>1, <2>5, <3>3 DEF RowsOK
    <3> QED BY <3>1, <3>2, <3>4
  <2> QED BY <2>4, <2>5 DEF RowsOK
<1> HIDE DEF rows
<1>5. RowsOK(R) /\ raw \subseteq R
  BY <1>2, <1>4, InsertKeeps
<1>6. RawInv' /\ raw \subseteq raw'
  BY <1>1, <1>5 DEF RawInv
<1>7. /\ StreamInv' /\ KeysInv' /\ GapsInv' /\ TasksInv' /\ FeaturesInv' /\ ScannedInv'
      /\ SignalsInv' /\ OutcomeSound'
  BY <1>1, <1>2, <1>6, ClockTyped, PartsKept
<1>8. FeaturesExplained'
  <2>1. Covered' = Covered /\ ToSend' = ToSend
    BY <1>1, InHandSame DEF Covered
  <2>2. \A r \in raw' : r \in raw \/ r.from = "history"
    BY <1>1, <1>4 DEF Inserted
  <2> QED BY <1>1, <1>2, <1>6, <2>1, <2>2, ClockTyped, StillExplained
<1> QED BY <1>3, <1>6, <1>7, <1>8 DEF MarketInv

LEMMA FillReadStep ==
  ASSUME MarketInv, FillRead
  PROVE  MarketInv'
<1>1. /\ UNCHANGED <<now, watched, stream, detects, pc, mem, computes, gaps, signals, due,
                     outcomes, short, scanned, failures, raw, months, features>>
      /\ fill' = Filled
  BY DEF FillRead, Idle, Tasks, Results, History
<1>2. ClockInv /\ ClockInv' /\ RawInv /\ RawInv' /\ raw \subseteq raw' /\ raw' = raw
  BY <1>1 DEF MarketInv, ClockInv, RawInv
<1>3. /\ StreamInv' /\ KeysInv' /\ GapsInv' /\ TasksInv' /\ ScannedInv' /\ SignalsInv'
      /\ OutcomeSound'
  BY <1>1, <1>2, ClockTyped, PartsKept
<1>4. \A f \in Filled :
        \E r \in raw : /\ Cardinality(Loaded(Close(r))) >= MinHistory
                       /\ f = [key |-> Close(r), used |-> Last(Loaded(Close(r)))]
  BY DEF Filled
<1>5. ASSUME NEW f \in Filled PROVE f \in Feature /\ FeatureOK(f.key, f.used, raw)
  <2>1. PICK r \in raw : /\ Cardinality(Loaded(Close(r))) >= MinHistory
                         /\ f = [key |-> Close(r), used |-> Last(Loaded(Close(r)))]
    BY <1>4
  <2>2. r \in Row
    BY <1>2 DEF RawInv, RowsOK
  <2>3. KeyOK(Close(r), raw) /\ Close(r) \in Keys
    BY <2>2, CloseFacts DEF KeyOK
  <2>4. FeatureOK(Close(r), Last(Loaded(Close(r))), raw)
    BY <1>2, <2>1, <2>3, LoadedFacts
  <2>5. Last(Loaded(Close(r))) \in SUBSET Row
    BY <2>4 DEF FeatureOK
  <2> QED BY <2>1, <2>3, <2>4, <2>5 DEF Feature
<1>6. \A f \in Filled : f.used = Last(Loaded(f.key)) /\ f = [key |-> f.key, used |-> f.used]
  BY <1>4
<1>7. \A f, g \in Filled : f.key = g.key => f = g
  BY <1>6
<1>8. FeaturesInv'
  BY <1>1, <1>5, <1>7 DEF MarketInv, FeaturesInv
<1>9. FeaturesExplained'
  <2>1. Covered' = Covered /\ ToSend' = ToSend
    BY <1>1, InHandSame DEF Covered
  <2> QED BY <1>1, <1>2, <2>1, ClockTyped, StillExplained
<1> QED BY <1>2, <1>3, <1>8, <1>9 DEF MarketInv

LEMMA FillFlushStep ==
  ASSUME MarketInv, FillFlush
  PROVE  MarketInv'
<1>1. /\ UNCHANGED <<now, watched, stream, detects, pc, mem, computes, gaps, signals, due,
                     outcomes, short, scanned, failures, raw, months, budget>>
      /\ features' = Upserted(fill) /\ fill' = {}
  BY DEF FillFlush, Idle, Tasks, Results, History
<1>2. ClockInv /\ ClockInv' /\ RawInv /\ RawInv' /\ raw \subseteq raw' /\ raw' = raw
  BY <1>1 DEF MarketInv, ClockInv, RawInv
<1>3. /\ StreamInv' /\ KeysInv' /\ GapsInv' /\ TasksInv' /\ ScannedInv' /\ SignalsInv'
      /\ OutcomeSound'
  BY <1>1, <1>2, ClockTyped, PartsKept
<1>4. /\ features \subseteq Feature /\ fill \subseteq Feature
      /\ \A f, g \in features : f.key = g.key => f = g
      /\ \A f, g \in fill : f.key = g.key => f = g
      /\ \A f \in features \cup fill : FeatureOK(f.key, f.used, raw)
  BY DEF MarketInv, FeaturesInv
<1>5. /\ features' \subseteq Feature
      /\ \A f, g \in features' : f.key = g.key => f = g
      /\ \A f \in features' : FeatureOK(f.key, f.used, raw)
      /\ {f.key : f \in features} \cup {f.key : f \in fill} \subseteq {f.key : f \in features'}
  BY <1>1, <1>4, UpsertKeeps
<1>6. FeaturesInv'
  BY <1>1, <1>5 DEF FeaturesInv
<1>7. FeaturesExplained'
  <2>1. Covered \subseteq Covered' /\ ToSend' = ToSend
    BY <1>1, <1>5, InHandSame DEF Covered
  <2> QED BY <1>1, <1>2, <2>1, ClockTyped, StillExplained
<1> QED BY <1>2, <1>3, <1>6, <1>7 DEF MarketInv


LEMMA FireStep ==
  ASSUME MarketInv, Fire
  PROVE  MarketInv'
<1>1. /\ UNCHANGED <<now, outcomes, watched, stream, raw, months, features, detects, pc, mem,
                     computes, gaps, fill, short, scanned, budget, failures>>
      /\ signals' = signals \cup {now} /\ due' = due \cup {now}
  BY DEF Fire, Others, Tasks, History
<1>2. ClockInv /\ ClockInv' /\ RawInv /\ RawInv' /\ raw \subseteq raw'
  BY <1>1 DEF MarketInv, ClockInv, RawInv
<1>3. /\ StreamInv' /\ KeysInv' /\ GapsInv' /\ TasksInv' /\ FeaturesInv' /\ ScannedInv'
  BY <1>1, <1>2, ClockTyped, PartsKept
<1>4. SignalsInv' /\ OutcomeSound'
  <2>1. \A x \in outcomes :
          x \in [fired: signals \cup {now}, used: SUBSET Row, scans: SUBSET Minutes]
    BY DEF MarketInv, SignalsInv
  <2>2. SignalsInv'
    BY <1>1, <1>2, <2>1, ClockTyped DEF MarketInv, SignalsInv
  <2>3. OutcomeSound'
    BY <1>1 DEF MarketInv, OutcomeSound, OutcomeFresh, OutcomeComplete
  <2> QED BY <2>2, <2>3
<1>5. FeaturesExplained'
  <2>1. Covered' = Covered /\ ToSend' = ToSend
    BY <1>1, InHandSame DEF Covered
  <2> QED BY <1>1, <1>2, <2>1, ClockTyped, StillExplained
<1> QED BY <1>2, <1>3, <1>4, <1>5 DEF MarketInv

\* What a measurement keeps: one price from before the signal at most, and every
\* candle of the window that a completed scan found.
LEMMA MeasuredSound ==
  ASSUME MarketInv, NEW s \in Minutes
  PROVE  LET x == measure_forward(s)
         IN  /\ x \in [fired: {s}, used: SUBSET Row, scans: SUBSET Minutes]
             /\ Cardinality({r \in x.used : r.taken <= x.fired}) <= 1
             /\ \A t \in x.scans : \A o \in Candles :
                  /\ t - Lookback <= o /\ o + TF <= t
                  /\ x.fired < o + TF /\ o + TF <= x.fired + Horizon
                  => o \in Opens(x.used)
<1> DEFINE M == Measured(s)
<1>1. M = {r \in raw : 2 * s < Close(r) /\ Close(r) <= 2 * (s + Horizon)}
  BY DEF Measured
<1>2. s \in Nat /\ TF \in Nat /\ TF >= 2 /\ Horizon \in Nat
  BY ConstantsTyped DEF Minutes
<1>3. RawInv /\ ScannedInv /\ RowsOK(raw)
  BY DEF MarketInv, RawInv
<1> HIDE DEF M
<1>4. M \subseteq Row /\ M \subseteq raw
  BY <1>1, <1>3 DEF RowsOK
<1>5. Cardinality({r \in M : r.taken <= s}) <= 1
  <2> DEFINE E == {r \in M : r.taken <= s}
  <2>1. ASSUME NEW r \in E
        PROVE  r \in raw /\ r.open \in Nat /\ r.open % TF = 0 /\ r.open <= s /\ s < r.open + TF
    <3>1. r \in M /\ r \in Row /\ r \in raw /\ r.taken <= s
      BY <1>4
    <3>2. r.open \in Nat /\ r.taken \in Nat /\ r.open <= r.taken /\ r.open % TF = 0
      BY <1>3, <3>1, RowFacts, CandleFacts DEF RowsOK
    <3>3. Close(r) \in Nat /\ Close(r) <= 2 * (r.open + TF) /\ 2 * s < Close(r)
      BY <1>1, <1>2, <3>1, <3>2, CloseFacts
    <3> QED BY <1>2, <3>1, <3>2, <3>3
  <2>2. ASSUME NEW r \in E, NEW x \in E PROVE r = x
    <3>1. /\ r.open \in Int /\ x.open \in Int /\ r.open % TF = 0 /\ x.open % TF = 0
          /\ r.open < x.open + TF /\ x.open < r.open + TF
      BY <1>2, <2>1
    <3>2. r.open = x.open
      <4>1. CASE r.open <= x.open
        BY <1>2, <3>1, <4>1, NotAligned
      <4>2. CASE x.open <= r.open
        BY <1>2, <3>1, <4>2, NotAligned
      <4> QED BY <3>1, <4>1, <4>2
    <3> QED BY <1>3, <2>1, <3>2 DEF RowsOK
  <2> HIDE DEF E
  <2>3. CASE E = {}
    BY <2>3, FS_EmptySet DEF E
  <2>4. CASE E # {}
    <3>1. PICK r \in E : TRUE
      BY <2>4
    <3>2. E = {r}
      BY <2>2, <3>1
    <3> QED BY <3>2, FS_Singleton DEF E
  <2> QED BY <2>3, <2>4
<1>6. ASSUME NEW t \in scanned, NEW o \in Candles, t - Lookback <= o, o + TF <= t,
             s < o + TF, o + TF <= s + Horizon
      PROVE  o \in Opens(M)
  <2>1. o \in Opens(raw)
    BY <1>3, <1>6 DEF ScannedInv, LookedBack
  <2>2. PICK r \in raw : r.open = o
    BY <2>1 DEF Opens
  <2>3. r \in Row /\ o \in Nat
    BY <1>3, CandleFacts DEF RowsOK
  <2>4. /\ Close(r) \in Nat /\ 2 * (o + TF) - 1 <= Close(r) /\ Close(r) <= 2 * (o + TF)
    BY <1>2, <2>2, <2>3, CloseFacts
  <2>5. 2 * s < Close(r) /\ Close(r) <= 2 * (s + Horizon)
    BY <1>2, <1>6, <2>3, <2>4
  <2>6. r \in M
    BY <1>1, <2>5
  <2> QED BY <2>2, <2>6 DEF Opens
<1>7. scanned \in SUBSET Minutes
  BY <1>3 DEF ScannedInv
<1>8. measure_forward(s) = [fired |-> s, used |-> M, scans |-> scanned]
  BY DEF measure_forward, M
<1> QED BY <1>4, <1>5, <1>6, <1>7, <1>8

LEMMA MeasureStep ==
  ASSUME MarketInv, NEW s \in due, measure_outcome(s)
  PROVE  MarketInv'
<1> DEFINE x == measure_forward(s)
<1>1. /\ UNCHANGED <<now, signals, watched, stream, raw, months, features, detects, pc, mem,
                     computes, gaps, fill, short, scanned, budget, failures>>
      /\ due' \subseteq due
      /\ \A y \in outcomes' : y \in outcomes \/ y = x
  BY DEF measure_outcome, Others, Tasks, History
<1>2. ClockInv /\ ClockInv' /\ RawInv /\ RawInv' /\ raw \subseteq raw'
  BY <1>1 DEF MarketInv, ClockInv, RawInv
<1>3. /\ StreamInv' /\ KeysInv' /\ GapsInv' /\ TasksInv' /\ FeaturesInv' /\ ScannedInv'
  BY <1>1, <1>2, ClockTyped, PartsKept
<1>4. s \in Minutes /\ s \in signals
  BY DEF MarketInv, SignalsInv
<1>5. /\ x \in [fired: {s}, used: SUBSET Row, scans: SUBSET Minutes]
      /\ Cardinality({r \in x.used : r.taken <= x.fired}) <= 1
      /\ \A t \in x.scans : \A o \in Candles :
           /\ t - Lookback <= o /\ o + TF <= t
           /\ x.fired < o + TF /\ o + TF <= x.fired + Horizon
           => o \in Opens(x.used)
  BY <1>4, MeasuredSound
<1> HIDE DEF x
<1>6. x \in [fired: signals, used: SUBSET Row, scans: SUBSET Minutes]
  BY <1>4, <1>5
<1>7. SignalsInv'
  BY <1>1, <1>6 DEF MarketInv, SignalsInv
<1>8. OutcomeSound'
  <2>1. \A y \in outcomes' : y \in outcomes \/ y = x
    BY <1>1
  <2> QED BY <1>5, <2>1 DEF MarketInv, OutcomeSound, OutcomeFresh, OutcomeComplete
<1>9. FeaturesExplained'
  <2>1. Covered' = Covered /\ ToSend' = ToSend
    BY <1>1, InHandSame DEF Covered
  <2> QED BY <1>1, <1>2, <2>1, ClockTyped, StillExplained
<1> QED BY <1>2, <1>3, <1>7, <1>8, <1>9 DEF MarketInv

LEMMA TickStep ==
  ASSUME MarketInv, Tick
  PROVE  MarketInv'
<1>1. /\ UNCHANGED <<signals, due, outcomes, watched, stream, raw, months, features, detects,
                     pc, mem, computes, gaps, fill, short, scanned, budget, failures>>
      /\ now < MaxNow /\ now' = now + 1
  BY DEF Tick, Others, Tasks, History, Results
<1>2. ClockInv /\ RawInv /\ RawInv' /\ raw \subseteq raw' /\ raw' = raw
  BY <1>1 DEF MarketInv, RawInv
<1>3. ClockInv' /\ now' \in Minutes /\ now <= now'
  BY <1>1, <1>2, ConstantsTyped, ClockTyped DEF ClockInv, Minutes
<1>4. /\ StreamInv' /\ KeysInv' /\ GapsInv' /\ TasksInv' /\ FeaturesInv' /\ ScannedInv'
      /\ SignalsInv' /\ OutcomeSound'
  BY <1>1, <1>2, <1>3, PartsKept
<1>5. FeaturesExplained'
  <2>1. Covered' = Covered /\ ToSend' = ToSend
    BY <1>1, InHandSame DEF Covered
  <2> QED BY <1>1, <1>2, <2>1, ClockTyped, StillExplained
<1> QED BY <1>2, <1>3, <1>4, <1>5 DEF MarketInv

LEMMA NextInv ==
  ASSUME MarketInv, [Next]_vars
  PROVE  MarketInv'
<1>1. CASE UNCHANGED vars
  <2>1. UNCHANGED <<now, watched, stream, raw, months, features, computes, gaps, detects, pc,
                    mem, fill, signals, due, outcomes, short, scanned, budget, failures>>
    BY <1>1 DEF vars
  <2>2. ClockInv /\ ClockInv' /\ RawInv' /\ raw \subseteq raw'
    BY <2>1 DEF MarketInv, ClockInv, RawInv
  <2>3. /\ StreamInv' /\ KeysInv' /\ GapsInv' /\ TasksInv' /\ FeaturesInv' /\ ScannedInv'
        /\ SignalsInv' /\ OutcomeSound'
    BY <2>1, <2>2, ClockTyped, PartsKept
  <2>4. FeaturesExplained'
    <3>1. Covered' = Covered /\ ToSend' = ToSend
      BY <2>1, InHandSame DEF Covered
    <3> QED BY <2>1, <2>2, <3>1, ClockTyped, StillExplained
  <2> QED BY <2>2, <2>3, <2>4 DEF MarketInv
<1>2. CASE \E w \in Workers : Fetch(w) \/ Insert(w) \/ Send(w) \/ Compute(w) \/ Upsert(w) \/ Lose(w)
  BY <1>2, FetchStep, InsertStep, SendStep, ComputeStep, UpsertStep, LoseStep
<1>3. CASE \/ Watch \/ Restart \/ \E r \in stream : Consume(r)
           \/ scan_gaps
  BY <1>3, WatchStep, RestartStep, ConsumeStep, ScanStep
<1>4. CASE run_backfill \/ FillRead \/ FillFlush
  BY <1>4, RunBackfillStep, FillReadStep, FillFlushStep
<1>5. CASE Fire \/ (\E s \in due : measure_outcome(s)) \/ Tick
  BY <1>5, FireStep, MeasureStep, TickStep
<1> QED BY <1>1, <1>2, <1>3, <1>4, <1>5 DEF Next

LEMMA InvHolds == Spec => []MarketInv
  BY InitInv, NextInv, PTL DEF Spec

-----------------------------------------------------------------------------
(***************************************************************************)
(* The theorems.                                                           *)
(***************************************************************************)
\* Tables, messages and local variables have their types: one row to a candle
\* and one to a features key, however ingestor, backfills and workers interleave.
THEOREM TypeCorrect == Spec => []TypeOK
<1>1. MarketInv => TypeOK
  BY DEF MarketInv, TypeOK, ClockInv, StreamInv, RawInv, RowsOK, KeysInv, KeyOK, GapsInv,
         TasksInv, FeaturesInv, ScannedInv, SignalsInv
<1> QED BY <1>1, InvHolds, PTL

\* A scan whose backfill was stored leaves no closed candle of its lookback out,
\* for any lookback and timeframe: the grid of expected times may meet no candle.
THEOREM ScansHold == Spec => []ScanComplete
<1>1. MarketInv => ScanComplete
  BY DEF MarketInv, ScannedInv, ScanComplete, LookedBack
<1> QED BY <1>1, InvHolds, PTL

\* compute_features never looks ahead, and rests on the candle of its key unless
\* the backfill sent the key for a candle the stream had stored.
THEOREM FeaturesHold == Spec => []FeatureOfItsCandle
<1>1. ASSUME MarketInv PROVE FeatureOfItsCandle
  <2> SUFFICES ASSUME NEW f \in features
               PROVE  LET last == Max(Opens(f.used))
                          own == {r \in raw : r.open = KeyCandle(f.key)}
                      IN  /\ last <= KeyCandle(f.key)
                          /\ last # KeyCandle(f.key) =>
                               f.key % 2 = 1 /\ \A r \in own : r.from = "stream"
    BY DEF FeatureOfItsCandle
  <2> DEFINE k == f.key
             c == KeyCandle(k)
             O == Opens(f.used)
  <2>1. FeatureOK(k, f.used, raw) /\ RowsOK(raw)
    BY <1>1 DEF MarketInv, FeaturesInv, RawInv
  <2>2. k \in Keys /\ c \in Nat
    BY <2>1, KeyFacts, CandleFacts DEF FeatureOK
  <2>3. O \subseteq Int /\ O # {} /\ \A o \in O : o <= c
    BY <2>1, RowFacts DEF FeatureOK, Opens
  <2>4. Max(O) \in O /\ \A o \in O : o <= Max(O)
    BY <2>2, <2>3, GreatestExists
  <2>5. PICK r \in raw :
          r.open = c /\ ((\E x \in f.used : x.open = c) \/ (k % 2 = 1 /\ r.from = "stream"))
    BY <2>1 DEF FeatureOK
  <2>6. \A x \in raw : x.open = c => x = r
    BY <2>1, <2>5 DEF RowsOK
  <2>7. (\E x \in f.used : x.open = c) => c \in O
    BY DEF Opens
  <2> HIDE DEF O, c, k
  <2>8. Max(O) # c => k % 2 = 1 /\ \A x \in raw : x.open = c => x.from = "stream"
    <3> SUFFICES ASSUME Max(O) # c
                 PROVE  k % 2 = 1 /\ \A x \in raw : x.open = c => x.from = "stream"
      OBVIOUS
    <3>1. c \notin O
      <4> SUFFICES ASSUME c \in O PROVE FALSE
        OBVIOUS
      <4>1. c <= Max(O) /\ Max(O) <= c /\ Max(O) \in Int
        BY <2>3, <2>4
      <4> QED BY <4>1, <2>2
    <3> QED BY <3>1, <2>5, <2>6, <2>7
  <2> QED BY <2>3, <2>4, <2>8 DEF O, c, k
<1> QED BY <1>1, InvHolds, PTL

\* Rows without features that neither wait for a worker, nor were computed with
\* too little history, nor came by the operator's backfill, have at most as many
\* origins as there were restarts, lost processes and errors: a candle of the
\* stream is an origin of its own, the candles of one REST request share one.
THEOREM ComputedHold == Spec => []FeaturesExplained
<1>1. MarketInv => FeaturesExplained
  BY DEF MarketInv
<1> QED BY <1>1, InvHolds, PTL

\* An outcome rests on every closed candle up to its horizon that a scan completed
\* before it was measured had to find.
THEOREM OutcomesHold == Spec => []OutcomeComplete
<1>1. MarketInv => OutcomeComplete
  BY DEF MarketInv, OutcomeSound
<1> QED BY <1>1, InvHolds, PTL

\* It rests on at most one price from before its signal.
THEOREM PricesFresh == Spec => []OutcomeFresh
<1>1. MarketInv => OutcomeFresh
  BY DEF MarketInv, OutcomeSound
<1> QED BY <1>1, InvHolds, PTL
=============================================================================
