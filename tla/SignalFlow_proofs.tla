-------------------------- MODULE SignalFlow_proofs --------------------------
(***************************************************************************)
(* What SignalFlow guarantees for every set of processes, streams and      *)
(* histories of candles, every cooldown, cap and window, and any number of *)
(* lost processes and errors.                                              *)
(***************************************************************************)
EXTENDS SignalFlow, FiniteSetTheorems, WellFoundedInduction, TLAPS

(***************************************************************************)
(* The inductive invariant.  What a task holds is stated of its place and  *)
(* its local variables m, given how many rows n there are and the time t.  *)
(***************************************************************************)
Gates == {"cooldown", "dedup", "rate", "cap"}
Signal == [stream: Streams, archetype: Archetypes, dir: Directions, fired: 0 .. MaxNow, seen: Nat]

\* A features row whose channel, where there is one, holds its close.
RowOK(r) ==
  /\ r.close \in Nat /\ r.half \in Nat /\ r.high \in Nat /\ r.low \in Nat
  /\ r.dayHigh \in Nat /\ r.dayLow \in Nat /\ r.upper \in Nat /\ r.lower \in Nat
  /\ r.upper # 0 => r.close <= r.upper
  /\ r.lower # 0 => r.lower <= r.close

RowsOK(rows) ==
  /\ rows \in Seq(Range(rows))
  /\ \A i \in 1 .. Len(rows) : RowOK(rows[i])

BracketOK(x) ==
  IF x.dir = "long" THEN x.stop < x.entry /\ x.entry <= x.target
                    ELSE x.stop > x.entry /\ x.entry >= x.target

MessageOK(t, F) == t \in Messages /\ t.row \in DOMAIN F[t.stream]

Local == [task: SUBSET Messages, found: SUBSET Found, fired: 0 .. MaxNow,
          seen: Nat, verdict: Outcomes \cup {""}, id: Nat]

Earliest(found) ==
  CHOOSE x \in found : \A y \in found : Place(x.archetype) <= Place(y.archetype)
CandidateOf(m) ==
  [stream |-> (CHOOSE t \in m.task : TRUE).stream, archetype |-> Earliest(m.found).archetype,
   dir |-> Earliest(m.found).dir, fired |-> m.fired, seen |-> m.seen]

\* high keeps low from being triaged, if it is there in time.
Dedups(high, low) ==
  /\ Symbol[high.stream] = Symbol[low.stream] /\ high.dir = low.dir
  /\ Rank[high.stream] > Rank[low.stream]
  /\ high.fired <= low.fired /\ low.fired <= high.fired + DedupWindow

\* The signal in hand has passed the second gate.
Deduped(place, m) == place \in {"rate", "cap"} \/ m.verdict = "claude_triaged"

TaskOK(place, m, F, rows, t) ==
  /\ m \in Local /\ place \in Places
  /\ \A x \in m.found : BracketOK(x)
  /\ place = "idle" => m = Idle
  /\ place # "idle" => \E x \in m.task : m.task = {x} /\ MessageOK(x, F)
  /\ place \in Gates \cup {"persist"} => m.found # {}
  /\ m.verdict # "" <=> place = "persist"
  /\ m.id # 0 <=> place = "schedule"
  /\ m.id <= Len(rows) /\ m.seen <= Len(rows) /\ m.fired <= t
  /\ Deduped(place, m) => \A i \in 1 .. m.seen : ~Dedups(rows[i], CandidateOf(m))

TypeInv ==
  /\ now \in 0 .. MaxNow
  /\ \A s \in Streams : RowsOK(features[s])
  /\ \A t \in detects : MessageOK(t, features)
  /\ pc \in [Workers -> Places] /\ mem \in [Workers -> Local]
  /\ \A w \in Workers : TaskOK(pc[w], mem[w], features, signals, now)
  /\ signals \in Seq(Signal)
  /\ \A i \in Ids : signals[i].seen <= Len(signals) /\ signals[i].fired <= now
  /\ suppressed \subseteq Outcomes \ {"claude_triaged"}
  /\ slots \in [Days -> Nat]
  /\ scheduled \subseteq Ids
  /\ failures \in 0 .. MaxFailures

\* A burst: a stretch of time after a moment in which one gate should let one
\* signal through, of one archetype and symbol or of all.
Bursts == [gate: {"cooldown", "rate"}, from: 0 .. MaxNow, archetype: Archetypes, of: Streams]
Guarded(b) == b.gate = "rate" => MinGap > 0
Span(b) == IF b.gate = "cooldown" THEN Cooldown[b.archetype] ELSE MinGap
Hits(b, x) ==
  /\ b.from <= x.fired /\ x.fired <= b.from + Span(b)
  /\ b.gate = "cooldown" =>
       x.archetype = b.archetype /\ Symbol[x.stream] = Symbol[b.of]
Before(b) == IF b.gate = "cooldown" THEN {"cooldown"} ELSE {"cooldown", "dedup", "rate"}
Rows(b) == {i \in Ids : Hits(b, signals[i])}

\* Who may still add a row to the burst: its signal has passed the gate, or was
\* fired before every row there is.
MayAdd(b, place, m, rows) ==
  /\ place \in Gates \/ m.verdict = "claude_triaged"
  /\ Hits(b, CandidateOf(m))
  /\ place \in Before(b) =>
       \A i \in 1 .. Len(rows) : Hits(b, rows[i]) => m.fired < rows[i].fired
Pending(b) == {w \in Workers : MayAdd(b, pc[w], mem[w], signals)}

BurstInv ==
  \A b \in Bursts :
    Guarded(b) /\ Rows(b) # {} =>
      Cardinality(Rows(b)) + Cardinality(Pending(b)) <= Processes

FlowInv == TypeInv /\ BurstInv /\ DedupExplained /\ SlotsExplained /\ OutcomesExplained


-----------------------------------------------------------------------------
(***************************************************************************)
(* Least and greatest elements.                                            *)
(***************************************************************************)
LEMMA LeastNatural ==
  ASSUME NEW S, S \subseteq Nat, S # {}
  PROVE  \E x \in S : \A y \in S : x <= y
<1> DEFINE Below == {ss \in Nat \X Nat : ss[1] < ss[2]}
<1>1. OpToRel(<, Nat) = Below
  BY Zenon DEF OpToRel
<1>2. IsWellFoundedOn(Below, Nat)
  BY <1>1, NatLessThanWellFounded, Zenon
<1>3. \A a, b \in Nat : a < b => <<a, b>> \in Below
  OBVIOUS
<1> HIDE DEF Below
<1>4. PICK x \in S : \A y \in S : ~(<<y, x>> \in Below)
  BY <1>2, WFMin, Zenon
<1>5. ASSUME NEW y \in S PROVE x <= y
  <2>1. x \in Nat /\ y \in Nat
    BY <1>4, <1>5
  <2>2. ~(y < x)
    BY <1>3, <1>4, <1>5, <2>1
  <2> QED
    BY <2>1, <2>2
<1> QED
  BY <1>5

LEMMA GreatestExists ==
  ASSUME NEW b \in Int, NEW S, S \subseteq Int, \A x \in S : x <= b, S # {}
  PROVE  Max(S) \in S /\ \A y \in S : y <= Max(S)
<1> DEFINE T == {b - x : x \in S}
<1>1. T \subseteq Nat /\ T # {}
  <2>1. \A x \in S : b - x \in Nat
    OBVIOUS
  <2> QED BY <2>1, Zenon
<1>2. PICK t \in T : \A u \in T : t <= u
  BY <1>1, LeastNatural
<1>3. PICK x \in S : t = b - x
  OBVIOUS
<1>4. \A y \in S : x >= y
  <2> SUFFICES ASSUME NEW y \in S PROVE x >= y
    OBVIOUS
  <2>1. b - y \in T
    OBVIOUS
  <2>2. b - x <= b - y
    BY <1>2, <1>3, <2>1
  <2>3. x \in Int /\ y \in Int
    OBVIOUS
  <2> QED BY <2>2, <2>3
<1>5. Max(S) \in S /\ \A y \in S : Max(S) >= y
  BY <1>4 DEF Max
<1>6. Max(S) \in Int
  BY <1>5
<1> QED BY <1>5, <1>6

\* The numbers of a sequence are bounded: of the lengths for which some sequence
\* is not, the least would be one too long.
LEMMA Bounded ==
  ASSUME NEW n \in Nat, NEW x \in [1 .. n -> Int]
  PROVE  \E b \in Int : \A i \in 1 .. n : x[i] <= b
<1> DEFINE Free(f, k) == \A b \in Int : \E i \in 1 .. k : ~(f[i] <= b)
           Bad == {k \in Nat : \E f \in [1 .. k -> Int] : Free(f, k)}
<1> SUFFICES ASSUME Free(x, n) PROVE FALSE
  OBVIOUS
<1>1. Bad # {} /\ Bad \subseteq Nat
  OBVIOUS
<1>2. PICK k \in Bad : \A j \in Bad : k <= j
  BY <1>1, LeastNatural
<1>3. PICK f \in [1 .. k -> Int] : Free(f, k)
  OBVIOUS
<1>4. k \in Nat /\ k # 0
  <2>1. 0 \in Int
    OBVIOUS
  <2>2. \E i \in 1 .. k : TRUE
    BY <1>3, <2>1
  <2> QED BY <2>2
<1> DEFINE g == [i \in 1 .. k - 1 |-> f[i]]
<1>5. k - 1 \in Nat /\ g \in [1 .. k - 1 -> Int] /\ k - 1 \notin Bad
  <2>1. k - 1 \in Nat /\ ~(k <= k - 1)
    BY <1>4
  <2>2. \A i \in 1 .. k - 1 : i \in 1 .. k
    BY <1>4
  <2> QED BY <1>2, <2>1, <2>2
<1>6. PICK b \in Int : \A i \in 1 .. k - 1 : g[i] <= b
  BY <1>5
<1>7. k \in 1 .. k /\ f[k] \in Int
  BY <1>4
<1>8. PICK c \in Int : b <= c /\ f[k] <= c
  <2>1. CASE b <= f[k]
    <3>1. f[k] \in Int /\ b <= f[k] /\ f[k] <= f[k]
      BY <1>7, <2>1
    <3> QED BY <3>1
  <2>2. CASE f[k] <= b
    <3>1. b \in Int /\ b <= b /\ f[k] <= b
      BY <2>2
    <3> QED BY <3>1
  <2>3. b <= f[k] \/ f[k] <= b
    BY <1>7
  <2> QED BY <2>1, <2>2, <2>3
<1>9. ASSUME NEW i \in 1 .. k PROVE f[i] <= c
  <2>1. CASE i = k
    BY <1>8, <2>1
  <2>2. CASE i # k
    <3>1. i \in 1 .. k - 1 /\ f[i] \in Int
      BY <1>4, <2>2
    <3>2. f[i] <= b
      BY <1>6, <3>1
    <3> QED BY <1>8, <3>1, <3>2
  <2> QED BY <2>1, <2>2
<1> QED BY <1>3, <1>9

LEMMA MaxOfSome ==
  ASSUME NEW n \in Nat, NEW x \in [1 .. n -> Int], NEW I, I \subseteq 1 .. n, I # {}
  PROVE  /\ Max({x[i] : i \in I}) \in {x[i] : i \in I}
         /\ Max({x[i] : i \in I}) \in Int
         /\ \A j \in I : x[j] <= Max({x[i] : i \in I})
<1> DEFINE S == {x[i] : i \in I}
<1>1. PICK b \in Int : \A i \in 1 .. n : x[i] <= b
  BY Bounded
<1>2. S \subseteq Int /\ S # {} /\ \A y \in S : y <= b
  BY <1>1
<1>3. \A i \in I : x[i] \in S
  OBVIOUS
<1> HIDE DEF S
<1>4. Max(S) \in S /\ \A y \in S : y <= Max(S)
  BY <1>2, GreatestExists
<1> QED BY <1>2, <1>3, <1>4 DEF S

LEMMA UtmostFacts ==
  ASSUME NEW n \in Nat, NEW x \in [1 .. n -> Nat], NEW I, I \subseteq 1 .. n, I # {},
         NEW side \in {1, -1}
  PROVE  LET u == Utmost({x[i] : i \in I}, side)
         IN  u \in Nat /\ \A i \in I : side * x[i] <= side * u
<1> DEFINE S == {x[i] : i \in I}
           T == {side * v : v \in S}
           y == [i \in 1 .. n |-> side * x[i]]
           U == {y[i] : i \in I}
<1>1. y \in [1 .. n -> Int]
  OBVIOUS
<1>2. T = U
  <2>1. \A i \in I : y[i] = side * x[i]
    OBVIOUS
  <2> HIDE DEF y
  <2> QED BY <2>1
<1>3. Max(U) \in U /\ \A i \in I : y[i] <= Max(U)
  <2> HIDE DEF y
  <2> QED BY <1>1, MaxOfSome
<1>4. PICK j \in I : Max(U) = y[j]
  <2> HIDE DEF y
  <2> QED BY <1>3
<1>5. j \in 1 .. n /\ x[j] \in Nat /\ y[j] = side * x[j]
  OBVIOUS
<1>6. Utmost(S, side) = side * Max(U)
  BY <1>2 DEF Utmost
<1>7. Utmost(S, side) = x[j]
  <2> HIDE DEF S, U, y
  <2>1. side = 1 => side * (side * x[j]) = x[j]
    BY <1>5
  <2>2. side = -1 => side * (side * x[j]) = x[j]
    BY <1>5
  <2> QED BY <1>4, <1>5, <1>6, <2>1, <2>2
<1>8. \A i \in I : side * x[i] <= side * x[j]
  BY <1>3, <1>4, <1>5
<1> QED BY <1>5, <1>7, <1>8


-----------------------------------------------------------------------------
(***************************************************************************)
(* Indicators.                                                             *)
(***************************************************************************)
LEMMA RecentFacts ==
  ASSUME NEW rows, Len(rows) \in Nat, DOMAIN rows = 1 .. Len(rows), NEW k \in Nat, NEW skip \in Nat
  PROVE  /\ Recent(rows, k, skip) \subseteq 1 .. Len(rows)
         /\ k > 0 /\ skip = 0 /\ Len(rows) > 0 => Len(rows) \in Recent(rows, k, skip)
  BY DEF Recent

LEMMA CandleFacts ==
  ASSUME NEW candles \in Seq(Candles)
  PROVE  /\ Len(candles) \in Nat /\ DOMAIN candles = 1 .. Len(candles)
         /\ Len(Highs(candles)) = Len(candles) /\ Len(Lows(candles)) = Len(candles)
         /\ Highs(candles) \in [1 .. Len(candles) -> Nat]
         /\ Lows(candles) \in [1 .. Len(candles) -> Nat]
         /\ \A i \in 1 .. Len(candles) :
              /\ candles[i].close \in Nat /\ candles[i].mood.half \in Nat
              /\ Lows(candles)[i] <= candles[i].close
              /\ candles[i].close <= Highs(candles)[i]
<1>1. Len(candles) \in Nat /\ DOMAIN candles = 1 .. Len(candles)
  OBVIOUS
<1>2. ASSUME NEW i \in 1 .. Len(candles)
      PROVE  /\ candles[i].high \in Nat /\ candles[i].low \in Nat /\ candles[i].close \in Nat
             /\ candles[i].mood.half \in Nat
             /\ candles[i].low <= candles[i].close /\ candles[i].close <= candles[i].high
  <2>1. candles[i] \in Candles
    BY <1>1
  <2> QED BY <2>1 DEF Candles, Moods
<1>3. /\ Highs(candles) = [i \in 1 .. Len(candles) |-> candles[i].high]
      /\ Lows(candles) = [i \in 1 .. Len(candles) |-> candles[i].low]
  BY <1>1 DEF Highs, Lows
<1>4. /\ Highs(candles) \in [1 .. Len(candles) -> Nat]
      /\ Lows(candles) \in [1 .. Len(candles) -> Nat]
  BY <1>2, <1>3
<1>5. Highs(candles) \in Seq(Nat) /\ Lows(candles) \in Seq(Nat)
  BY <1>1, <1>4
<1>6. Len(Highs(candles)) = Len(candles) /\ Len(Lows(candles)) = Len(candles)
  BY <1>1, <1>4, <1>5
<1> QED BY <1>1, <1>2, <1>3, <1>4, <1>6

LEMMA SwingTyped ==
  ASSUME NEW x, Len(x) \in Nat, x \in [1 .. Len(x) -> Nat], NEW side
  PROVE  compute_swing(x, side) \in Nat
<1> DEFINE peaks == {i \in 1 + Half .. Len(x) - Half :
                       \A j \in i - Half .. i + Half : j # i => side * x[i] > side * x[j]}
<1>1. Half \in Nat
  BY DetectorsAssumption
<1>2. peaks \subseteq Int /\ \A i \in peaks : i <= Len(x) /\ i >= 1
  BY <1>1
<1>3. ASSUME peaks # {} PROVE x[Max(peaks)] \in Nat
  <2> HIDE DEF peaks
  <2> DEFINE n == Len(x)
  <2>1. n \in Int /\ peaks \subseteq Int /\ \A i \in peaks : i <= n
    BY <1>2
  <2> HIDE DEF n
  <2>2. Max(peaks) \in peaks
    BY <1>3, <2>1, GreatestExists
  <2>3. Max(peaks) \in 1 .. Len(x)
    <3> DEFINE p == Max(peaks)
    <3>1. p \in Int /\ p <= Len(x) /\ p >= 1
      BY <1>2, <2>2
    <3> HIDE DEF p
    <3>2. p \in 1 .. Len(x)
      BY <3>1
    <3> QED BY <3>2 DEF p
  <2> QED BY <2>3
<1> QED BY <1>3 DEF compute_swing

\* A channel is there once there are candles enough, and holds the last one.
LEMMA DonchianFacts ==
  ASSUME NEW x, Len(x) \in Nat \ {0}, x \in [1 .. Len(x) -> Nat], NEW side \in {1, -1}
  PROVE  LET u == compute_donchian(x, side)
         IN  u \in Nat /\ (u # 0 => side * x[Len(x)] <= side * u)
<1> DEFINE I == Recent(x, Donchian, 0)
<1>1. Donchian \in Nat /\ Donchian > 0
  BY DetectorsAssumption
<1>2. I \subseteq 1 .. Len(x) /\ Len(x) \in I
  <2>1. DOMAIN x = 1 .. Len(x)
    OBVIOUS
  <2> QED BY <1>1, <2>1, RecentFacts
<1> HIDE DEF I
<1>3. CASE Len(x) < Donchian
  BY <1>3 DEF compute_donchian
<1>4. CASE ~(Len(x) < Donchian)
  <2> DEFINE u == Utmost({x[i] : i \in I}, side)
  <2>1. u \in Nat /\ \A i \in I : side * x[i] <= side * u
    BY <1>2, UtmostFacts
  <2>2. compute_donchian(x, side) = u
    BY <1>4 DEF compute_donchian, I
  <2> HIDE DEF u
  <2> QED BY <1>2, <2>1, <2>2
<1> QED BY <1>3, <1>4

LEMMA PriorDayTyped ==
  ASSUME NEW x, Len(x) \in Nat \ {0}, x \in [1 .. Len(x) -> Nat], NEW side \in {1, -1}
  PROVE  compute_prior_day(x, side) \in Nat
<1> DEFINE earlier == {i \in DOMAIN x : Day(i) < Day(Len(x))}
           I == {j \in earlier : Day(j) = Day(Max(earlier))}
<1>1. earlier \subseteq 1 .. Len(x)
  OBVIOUS
<1>2. ASSUME earlier # {} PROVE Utmost({x[i] : i \in I}, side) \in Nat
  <2> HIDE DEF earlier
  <2> DEFINE n == Len(x)
  <2>1. n \in Int /\ earlier \subseteq Int /\ \A i \in earlier : i <= n
    BY <1>1
  <2> HIDE DEF n
  <2>2. Max(earlier) \in earlier
    BY <1>2, <2>1, GreatestExists
  <2>3. I \subseteq 1 .. Len(x) /\ I # {}
    BY <1>1, <2>2
  <2> HIDE DEF I
  <2> QED BY <2>3, UtmostFacts
<1> QED BY <1>2 DEF compute_prior_day

\* What the detectors rely on in every features row.
LEMMA FeaturesRowOK ==
  ASSUME NEW candles \in Seq(Candles), Len(candles) # 0
  PROVE  RowOK(build_features_row(candles))
<1> DEFINE n == Len(candles)
           H == Highs(candles)
           L == Lows(candles)
           c == candles[n]
<1>1. /\ n \in Nat \ {0} /\ n \in 1 .. n /\ Len(H) = n /\ Len(L) = n
      /\ H \in [1 .. n -> Nat] /\ L \in [1 .. n -> Nat]
      /\ c.close \in Nat /\ c.mood.half \in Nat
      /\ L[n] <= c.close /\ c.close <= H[n]
  BY CandleFacts
<1> DEFINE r == build_features_row(candles)
<1>2. Last(candles) = c
  BY DEF Last
<1>3. /\ r.close = c.close /\ r.half = c.mood.half
      /\ r.high = compute_swing(H, 1) /\ r.low = compute_swing(L, -1)
      /\ r.upper = compute_donchian(H, 1) /\ r.lower = compute_donchian(L, -1)
      /\ r.dayHigh = compute_prior_day(H, 1) /\ r.dayLow = compute_prior_day(L, -1)
  BY <1>2, Zenon DEF build_features_row
<1> HIDE DEF n, H, L, c, r
<1>4. r.high \in Nat /\ r.low \in Nat
  BY <1>1, <1>3, SwingTyped
<1>5. r.dayHigh \in Nat /\ r.dayLow \in Nat
  BY <1>1, <1>3, PriorDayTyped
<1>6. r.upper \in Nat /\ (r.upper # 0 => r.close <= r.upper)
  <2>1. r.upper \in Nat /\ (r.upper # 0 => 1 * H[n] <= 1 * r.upper)
    BY <1>1, <1>3, DonchianFacts
  <2>2. H[n] \in Nat
    BY <1>1
  <2> QED BY <1>1, <1>3, <2>1, <2>2
<1>7. r.lower \in Nat /\ (r.lower # 0 => r.lower <= r.close)
  <2>1. r.lower \in Nat /\ (r.lower # 0 => (-1) * L[n] <= (-1) * r.lower)
    BY <1>1, <1>3, DonchianFacts
  <2>2. L[n] \in Nat
    BY <1>1
  <2> QED BY <1>1, <1>3, <2>1, <2>2
<1> QED BY <1>1, <1>3, <1>4, <1>5, <1>6, <1>7 DEF RowOK, r


-----------------------------------------------------------------------------
(***************************************************************************)
(* Signals.                                                                *)
(***************************************************************************)
LEMMA ArchetypesAre ==
  Archetypes = {"trend_pullback", "squeeze_breakout", "divergence_rsi", "divergence_macd",
                "range_rejection", "liquidity_sweep_daily", "liquidity_sweep_swing",
                "funding_extreme"}
  BY DEF Archetypes, ToSet, REGISTRY

LEMMA PlaceTyped == \A a \in Archetypes : Place(a) \in 1 .. 8 /\ Place(a) \in Nat
<1>1. \A a \in Archetypes : \E k \in 1 .. 8 : REGISTRY[k] = a
  BY DEF Archetypes, ToSet, REGISTRY
<1>2. DOMAIN REGISTRY = 1 .. 8
  BY DEF REGISTRY
<1> SUFFICES ASSUME NEW a \in Archetypes PROVE Place(a) \in 1 .. 8
  OBVIOUS
<1>3. \E k \in DOMAIN REGISTRY : REGISTRY[k] = a
  BY <1>1, <1>2, Zenon
<1>4. Place(a) \in DOMAIN REGISTRY
  BY <1>3, Zenon DEF Place
<1> QED BY <1>2, <1>4

\* Of the detectors that fired one comes first.
LEMMA EarliestExists ==
  ASSUME NEW found \in SUBSET Found, found # {}
  PROVE  Earliest(found) \in found
<1> DEFINE S == {Place(x.archetype) : x \in found}
<1>1. \A x \in found : Place(x.archetype) \in Nat
  BY PlaceTyped DEF Found
<1>2. S \subseteq Nat /\ S # {}
  BY <1>1
<1>3. PICK p \in S : \A q \in S : p <= q
  BY <1>2, LeastNatural
<1>4. PICK x \in found : p = Place(x.archetype)
  OBVIOUS
<1>5. \A y \in found : Place(y.archetype) \in S
  OBVIOUS
<1> HIDE DEF S
<1>6. \A y \in found : Place(x.archetype) <= Place(y.archetype)
  BY <1>3, <1>4, <1>5
<1> QED BY <1>6, Zenon DEF Earliest

\* The levels of the swings the sweep detectors compare with.
LEMMA SwingsTyped ==
  ASSUME NEW rows, RowsOK(rows), NEW field \in {"high", "low"}, Swings(rows, field) # {}
  PROVE  Max(Swings(rows, field)) \in Int /\ Min(Swings(rows, field)) \in Int
<1> DEFINE n == Len(rows)
           S == Swings(rows, field)
           v == [i \in 1 .. n |-> rows[i][field]]
           I == {i \in Recent(rows, SwingLookback, 1) : rows[i][field] # 0}
<1>1. n \in Nat /\ DOMAIN rows = 1 .. n
  BY DEF RowsOK
<1>2. \A i \in 1 .. n : rows[i][field] \in Nat
  BY DEF RowsOK, RowOK
<1>3. I \subseteq 1 .. n
  BY <1>1, RecentFacts, DetectorsAssumption
<1>4. S = {rows[i][field] : i \in I}
  BY DEF Swings
<1>5. I # {}
  BY <1>4
<1>10. \A i \in 1 .. n : rows[i][field] \in Int
  BY <1>2
<1>11. v \in [1 .. n -> Int]
  <2> HIDE DEF n
  <2> QED BY <1>10
<1>6. {v[i] : i \in I} = S
  <2>1. \A i \in I : v[i] = rows[i][field]
    BY <1>3
  <2> HIDE DEF S, I
  <2> QED BY <1>4, <2>1
<1>7. S \subseteq Nat
  BY <1>2, <1>3, <1>4
<1> HIDE DEF S, I, v, n
<1>8. Max(S) \in Int
  <2>1. Max({v[i] : i \in I}) \in Int
    BY <1>1, <1>3, <1>5, <1>11, MaxOfSome
  <2> QED BY <1>6, <2>1
<1>9. Min(S) \in S
  <2>1. PICK x \in S : \A y \in S : x <= y
    BY <1>7, LeastNatural DEF S
  <2> QED BY <2>1 DEF Min
<1> QED BY <1>7, <1>8, <1>9 DEF S

\* A sweep: the swing of the row itself lies beyond the close.
LEMMA SweptFacts ==
  ASSUME NEW c, RowOK(c), NEW high \in Int, NEW low \in Int, NEW d \in Swept(c, high, low)
  PROVE  /\ d \in Directions
         /\ d = "long" => c.low < c.close
         /\ d # "long" => c.high > c.close
<1>1. c.close \in Nat /\ c.high \in Nat /\ c.low \in Nat
  BY DEF RowOK
<1>2. CASE c.high > high /\ c.close < high
  <2>1. d = "short"
    BY <1>2 DEF Swept, Either
  <2> QED BY <1>1, <1>2, <2>1 DEF Directions
<1>3. CASE ~(c.high > high /\ c.close < high)
  <2>1. d \in Directions \ {"short"} /\ c.low < low /\ c.close > low
    BY <1>3 DEF Swept, Either
  <2> QED BY <1>1, <2>1 DEF Directions
<1> QED BY <1>2, <1>3

LEMMA RangeFacts ==
  ASSUME NEW rows, RowOK(Last(rows)), NEW d \in range_rejection(rows)
  PROVE  LET c == Last(rows)
         IN  /\ d \in Directions
             /\ d = "long" => c.low < c.close /\ c.close <= c.upper
             /\ d # "long" => c.high > c.close /\ c.lower <= c.close
<1> DEFINE c == Last(rows)
<1>1. /\ c.close \in Nat /\ c.high \in Nat /\ c.low \in Nat /\ c.upper \in Nat /\ c.lower \in Nat
      /\ c.upper # 0 => c.close <= c.upper
      /\ c.lower # 0 => c.lower <= c.close
  BY DEF RowOK
<1>2. /\ 0 \notin {c.high, c.low, c.upper, c.lower}
      /\ d \in Either(c.low <= c.lower /\ c.close > c.lower, "long",
                      c.high >= c.upper /\ c.close < c.upper)
  BY DEF range_rejection
<1> HIDE DEF c
<1>3. CASE c.low <= c.lower /\ c.close > c.lower
  <2>1. d = "long"
    BY <1>2, <1>3 DEF Either
  <2>2. c.low < c.close /\ c.close <= c.upper
    BY <1>1, <1>2, <1>3
  <2> QED BY <2>1, <2>2 DEF Directions, c
<1>4. CASE ~(c.low <= c.lower /\ c.close > c.lower)
  <2>1. d \in Directions \ {"long"} /\ c.high >= c.upper /\ c.close < c.upper
    BY <1>2, <1>4 DEF Either
  <2>2. c.high > c.close /\ c.lower <= c.close
    BY <1>1, <1>2, <2>1
  <2> QED BY <2>1, <2>2 DEF Directions, c
<1> QED BY <1>3, <1>4

LEMMA DirectionTyped ==
  ASSUME NEW a \in Archetypes, NEW rows, RowsOK(rows), Len(rows) # 0, NEW d \in Direction(a, rows)
  PROVE  /\ d \in Directions /\ RowOK(Last(rows))
         /\ a = "range_rejection" => d \in range_rejection(rows)
         /\ a \in {"liquidity_sweep_daily", "liquidity_sweep_swing"} =>
              IF d = "long" THEN Last(rows).low < Last(rows).close
                            ELSE Last(rows).high > Last(rows).close
<1> DEFINE c == Last(rows)
<1>1. RowOK(c)
  <2>1. Len(rows) \in Nat /\ Len(rows) \in 1 .. Len(rows)
    BY DEF RowsOK
  <2> QED BY <2>1 DEF RowsOK, Last
<1>2. a = "trend_pullback" => d \in Directions
  BY DEF Direction, trend_pullback, Directions
<1>3. a = "squeeze_breakout" => d \in Directions
  BY DEF Direction, squeeze_breakout
<1>4. a \in {"divergence_rsi", "divergence_macd"} => d \in Directions
  BY DEF Direction, divergence, Either, Directions
<1>5. a = "funding_extreme" => d \in Directions
  BY DEF Direction, funding_extreme
<1>6. a = "range_rejection" => d \in range_rejection(rows)
  BY DEF Direction
<1>7. a = "range_rejection" => d \in Directions
  BY <1>1, <1>6, RangeFacts
<1>8. ASSUME a = "liquidity_sweep_daily"
      PROVE  d \in Directions /\ IF d = "long" THEN c.low < c.close ELSE c.high > c.close
  <2>1. d \in Swept(c, c.dayHigh, c.dayLow)
    BY <1>8 DEF Direction, liquidity_sweep_daily
  <2>2. c.dayHigh \in Int /\ c.dayLow \in Int
    BY <1>1 DEF RowOK
  <2> HIDE DEF c
  <2> QED BY <1>1, <2>1, <2>2, SweptFacts
<1>9. ASSUME a = "liquidity_sweep_swing"
      PROVE  d \in Directions /\ IF d = "long" THEN c.low < c.close ELSE c.high > c.close
  <2>1. /\ Swings(rows, "high") # {} /\ Swings(rows, "low") # {}
        /\ d \in Swept(c, Max(Swings(rows, "high")), Min(Swings(rows, "low")))
    BY <1>9 DEF Direction, liquidity_sweep_swing
  <2>2. Max(Swings(rows, "high")) \in Int /\ Min(Swings(rows, "low")) \in Int
    BY <2>1, SwingsTyped
  <2> HIDE DEF c
  <2> QED BY <1>1, <2>1, <2>2, SweptFacts
<1>10. d \in Directions
  BY <1>2, <1>3, <1>4, <1>5, <1>7, <1>8, <1>9, ArchetypesAre
<1> QED BY <1>1, <1>6, <1>8, <1>9, <1>10

\* Entry, stop and target of a signal, by the three kinds of levels.
LEMMA SignalFacts ==
  ASSUME NEW a \in Archetypes, NEW rows, RowsOK(rows), Len(rows) # 0, NEW x \in Signals(a, rows)
  PROVE  x \in Found /\ BracketOK(x)
<1> DEFINE c == Last(rows)
<1>1. PICK d \in Direction(a, rows) :
        /\ Levels(a, d, c).stop # c.close
        /\ x = [archetype |-> a, dir |-> d, entry |-> c.close,
                stop |-> Levels(a, d, c).stop, target |-> Levels(a, d, c).target]
  BY DEF Signals
<1>2. /\ d \in Directions /\ RowOK(c)
      /\ a = "range_rejection" => d \in range_rejection(rows)
      /\ a \in {"liquidity_sweep_daily", "liquidity_sweep_swing"} =>
           IF d = "long" THEN c.low < c.close ELSE c.high > c.close
  BY DirectionTyped
<1>3. a = "range_rejection" =>
        /\ d = "long" => c.low < c.close /\ c.close <= c.upper
        /\ d # "long" => c.high > c.close /\ c.lower <= c.close
  BY <1>2, RangeFacts
<1> HIDE DEF c
<1>4. /\ c.close \in Nat /\ c.half \in Nat /\ c.high \in Nat /\ c.low \in Nat
      /\ c.upper \in Nat /\ c.lower \in Nat
  BY <1>2 DEF RowOK
<1> DEFINE stop == Levels(a, d, c).stop
           target == Levels(a, d, c).target
<1>5. /\ stop \in Int /\ target \in Int
      /\ IF d = "long" THEN stop < c.close /\ c.close <= target
                       ELSE stop > c.close /\ c.close >= target
  <2>1. CASE a = "range_rejection"
    <3>1. /\ d = "long" => stop = c.low - c.half /\ target = c.upper
          /\ d # "long" => stop = c.high + c.half /\ target = c.lower
      BY <2>1 DEF Levels, SwingStop
    <3> HIDE DEF stop, target
    <3> QED BY <1>3, <1>4, <2>1, <3>1
  <2>2. CASE a \in {"liquidity_sweep_daily", "liquidity_sweep_swing"}
    <3>1. /\ d = "long" => stop = c.low - c.half /\ target = c.close + 5 * 1 * c.half
          /\ d # "long" => stop = c.high + c.half /\ target = c.close + 5 * (-1) * c.half
      BY <2>2 DEF Levels, SwingStop, Sign
    <3>2. d = "long" => c.low < c.close
      BY <1>2, <2>2
    <3>3. d # "long" => c.high > c.close
      BY <1>2, <2>2
    <3> HIDE DEF stop, target
    <3> QED BY <1>4, <3>1, <3>2, <3>3
  <2>3. CASE a \notin {"range_rejection", "liquidity_sweep_daily", "liquidity_sweep_swing"}
    <3>1. /\ d = "long" => stop = c.close - 3 * 1 * c.half /\ target = c.close + 6 * 1 * c.half
          /\ d # "long" => /\ stop = c.close - 3 * (-1) * c.half
                           /\ target = c.close + 6 * (-1) * c.half
      BY <2>3 DEF Levels, Bracket, Sign
    <3>2. stop # c.close
      BY <1>1
    <3> HIDE DEF stop, target
    <3>3. c.half # 0
      <4> SUFFICES ASSUME c.half = 0 PROVE stop = c.close
        BY <3>2
      <4>1. 3 * 1 * c.half = 0 /\ 3 * (-1) * c.half = 0
        OBVIOUS
      <4> QED BY <1>4, <3>1, <4>1
    <3> QED BY <1>4, <3>1, <3>3
  <2> QED BY <2>1, <2>2, <2>3
<1>6. x = [archetype |-> a, dir |-> d, entry |-> c.close, stop |-> stop, target |-> target]
  BY <1>1
<1> HIDE DEF stop, target
<1>7. c.close \in Int
  BY <1>4
<1> QED BY <1>2, <1>5, <1>6, <1>7 DEF Found, BracketOK

\* What a task finds in the rows up to the one its message names.
LEMMA FindsFacts ==
  ASSUME NEW rows, RowsOK(rows), NEW n \in DOMAIN rows
  PROVE  /\ Finds(SubSeq(rows, 1, n)) \subseteq Found
         /\ \A x \in Finds(SubSeq(rows, 1, n)) : BracketOK(x)
<1> DEFINE s == SubSeq(rows, 1, n)
<1>1. Len(rows) \in Nat /\ n \in 1 .. Len(rows) /\ rows \in Seq(Range(rows))
  BY DEF RowsOK
<1>2. Len(s) = n /\ s \in Seq(Range(rows)) /\ \A i \in 1 .. n : s[i] = rows[i]
  BY <1>1
<1>3. s \in Seq(Range(s))
  <2>1. DOMAIN s = 1 .. n /\ s = [i \in 1 .. n |-> s[i]]
    BY <1>1, <1>2
  <2>2. \A i \in 1 .. n : s[i] \in Range(s)
    BY <2>1 DEF Range
  <2>3. n \in Nat
    BY <1>1
  <2> DEFINE R == Range(s)
  <2>4. s \in [1 .. n -> R]
    <3> HIDE DEF R, s
    <3> QED BY <2>1, <2>2 DEF R
  <2> HIDE DEF s, R
  <2>5. s \in Seq(R)
    BY <2>3, <2>4
  <2> QED BY <2>5 DEF R
<1>4. RowsOK(s)
  BY <1>1, <1>2, <1>3 DEF RowsOK
<1>5. Len(s) # 0
  BY <1>1, <1>2
<1> HIDE DEF s
<1>6. \A x \in Finds(s) : \E a \in Archetypes : x \in Signals(a, s)
  BY DEF Finds
<1> QED BY <1>4, <1>5, <1>6, SignalFacts DEF s

LEMMA FeaturesOK ==
  ASSUME NEW candles \in Seq(Candles)
  PROVE  RowsOK(Features(candles)) /\ DOMAIN Features(candles) = DOMAIN candles
<1> DEFINE n == Len(candles)
           F == Features(candles)
<1>1. n \in Nat /\ DOMAIN candles = 1 .. n
  OBVIOUS
<1>2. F = [i \in 1 .. n |-> build_features_row(SubSeq(candles, 1, i))]
  BY <1>1 DEF Features
<1>3. ASSUME NEW i \in 1 .. n PROVE RowOK(F[i])
  <2>1. SubSeq(candles, 1, i) \in Seq(Candles) /\ Len(SubSeq(candles, 1, i)) = i /\ i # 0
    BY <1>1
  <2>2. F[i] = build_features_row(SubSeq(candles, 1, i))
    BY <1>2
  <2> QED BY <2>1, <2>2, FeaturesRowOK
<1> HIDE DEF F
<1>4. F \in [1 .. n -> Range(F)] /\ DOMAIN F = 1 .. n
  BY <1>2 DEF Range
<1>5. F \in Seq(Range(F)) /\ Len(F) = n
  BY <1>1, <1>4
<1> QED BY <1>1, <1>3, <1>4, <1>5 DEF RowsOK, F


-----------------------------------------------------------------------------
(***************************************************************************)
(* Types.                                                                  *)
(***************************************************************************)
LEMMA ConstantsTyped ==
  /\ IsFiniteSet(Workers) /\ Processes \in Nat
  /\ Symbol \in [Streams -> STRING] /\ Rank \in [Streams -> Nat]
  /\ Weak \subseteq Archetypes /\ Cooldown \in [Archetypes -> Nat]
  /\ DedupWindow \in Nat /\ MinGap \in Nat /\ DailyCap \in Nat /\ Day24 \in Nat \ {0}
  /\ MaxNow \in Nat /\ MaxFailures \in Nat
  BY SignalFlowAssumption, FS_CardinalityType DEF Processes

LEMMA Division ==
  ASSUME NEW a \in Nat, NEW d \in Nat \ {0}
  PROVE  /\ a \div d \in Nat
         /\ d * (a \div d) <= a /\ a < d * (a \div d) + d
  OBVIOUS

LEMMA DivisionOrder ==
  ASSUME NEW a \in Nat, NEW b \in Nat, a <= b, NEW d \in Nat \ {0}
  PROVE  a \div d <= b \div d
<1> DEFINE q == a \div d
           r == b \div d
<1>1. q \in Nat /\ r \in Nat /\ d * q <= a /\ b < d * r + d
  BY Division
<1> HIDE DEF q, r
<1>2. q <= r
  <2> SUFFICES ASSUME r + 1 <= q PROVE FALSE
    BY <1>1
  <2>1. d * (r + 1) <= d * q
    BY <1>1
  <2>2. d * (r + 1) = d * r + d
    BY <1>1
  <2> QED BY <1>1, <2>1, <2>2
<1> QED BY <1>2 DEF q, r

LEMMA DayTyped == \A t \in 0 .. MaxNow : DayOf(t) \in Days
<1> SUFFICES ASSUME NEW t \in 0 .. MaxNow PROVE DayOf(t) \in Days
  OBVIOUS
<1>1. t \in Nat /\ MaxNow \in Nat /\ t <= MaxNow /\ Day24 \in Nat \ {0}
  BY ConstantsTyped
<1>2. t \div Day24 \in Nat /\ MaxNow \div Day24 \in Nat /\ t \div Day24 <= MaxNow \div Day24
  BY <1>1, Division, DivisionOrder
<1> QED BY <1>2 DEF DayOf, Days

LEMMA IdleOK == \A F, rows, t : Len(rows) \in Nat /\ t \in Nat => TaskOK("idle", Idle, F, rows, t)
<1> SUFFICES ASSUME NEW F, NEW rows, NEW t, Len(rows) \in Nat, t \in Nat
             PROVE  TaskOK("idle", Idle, F, rows, t)
  OBVIOUS
<1>1. 0 \in 0 .. MaxNow /\ "" \in Outcomes \cup {""} /\ "idle" \in Places
  BY ConstantsTyped DEF Places
<1>2. Idle \in Local
  BY <1>1 DEF Idle, Local
<1>3. /\ Idle.found = {} /\ Idle.verdict = "" /\ Idle.id = 0 /\ Idle.seen = 0 /\ Idle.fired = 0
  BY DEF Idle
<1>4. ~Deduped("idle", Idle)
  BY <1>3 DEF Deduped
<1>5. "idle" \notin Gates \cup {"persist", "schedule"}
  BY DEF Gates
<1>6. 0 <= Len(rows) /\ 0 <= t
  OBVIOUS
<1>7. \A x \in Idle.found : BracketOK(x)
  BY <1>3
<1> QED BY <1>1, <1>2, <1>3, <1>4, <1>5, <1>6, <1>7, Zenon DEF TaskOK

\* The rows go on in a longer table.
Extends(rows, more) ==
  /\ Len(rows) \in Nat /\ Len(more) \in Nat /\ Len(rows) <= Len(more)
  /\ \A i \in 1 .. Len(rows) : more[i] = rows[i]

LEMMA TaskKept ==
  ASSUME NEW place, NEW m, NEW F, NEW rows, NEW more, NEW t \in Nat, NEW u \in Nat,
         Extends(rows, more), t <= u, TaskOK(place, m, F, rows, t)
  PROVE  TaskOK(place, m, F, more, u)
<1>1. m \in Local /\ m.id <= Len(rows) /\ m.seen <= Len(rows) /\ m.fired <= t
  BY DEF TaskOK
<1>2. m.id \in Nat /\ m.seen \in Nat /\ m.fired \in Nat
  <2>1. m.id \in Nat /\ m.seen \in Nat /\ m.fired \in 0 .. MaxNow
    BY <1>1 DEF Local
  <2> QED BY <2>1, ConstantsTyped
<1>3. m.id <= Len(more) /\ m.seen <= Len(more) /\ m.fired <= u
  BY <1>1, <1>2 DEF Extends
<1>4. Deduped(place, m) => \A i \in 1 .. m.seen : ~Dedups(more[i], CandidateOf(m))
  <2> SUFFICES ASSUME Deduped(place, m), NEW i \in 1 .. m.seen
               PROVE  ~Dedups(more[i], CandidateOf(m))
    OBVIOUS
  <2>1. i \in 1 .. Len(rows)
    BY <1>1, <1>2 DEF Extends
  <2>2. more[i] = rows[i]
    BY <2>1 DEF Extends
  <2> QED BY <2>2 DEF TaskOK
<1> QED BY <1>3, <1>4 DEF TaskOK

LEMMA Typed ==
  ASSUME TypeInv
  PROVE  /\ now \in Nat /\ now \in 0 .. MaxNow /\ now <= now
         /\ Len(signals) \in Nat /\ Ids = 1 .. Len(signals) /\ Extends(signals, signals)
         /\ \A i \in Ids : /\ signals[i] \in Signal /\ signals[i].fired \in Nat
                           /\ signals[i].fired <= now
         /\ failures \in Nat
         /\ \A w \in Workers : TaskOK(pc[w], mem[w], features, signals, now) /\ mem[w] \in Local
<1>1. signals \in Seq(Signal)
  BY DEF TypeInv
<1>2. Len(signals) \in Nat /\ Ids = 1 .. Len(signals) /\ \A i \in Ids : signals[i] \in Signal
  BY <1>1 DEF Ids
<1>3. \A i \in Ids : signals[i].fired \in Nat
  BY <1>2, ConstantsTyped DEF Signal
<1>4. now \in Nat /\ failures \in Nat /\ now <= now
  BY ConstantsTyped DEF TypeInv
<1> QED BY <1>2, <1>3, <1>4 DEF TypeInv, Extends

\* A step of w, and what it may have done to the tables.
LEMMA TypeMoves ==
  ASSUME TypeInv, NEW w \in Workers, NEW place, NEW m, Goto(w, place), Keep(w, m),
         UNCHANGED <<now, features>>, TaskOK(place, m, features, signals', now),
         signals' \in Seq(Signal), Extends(signals, signals'),
         \A i \in Ids' : signals'[i].seen <= Len(signals') /\ signals'[i].fired <= now,
         \A t \in detects' : MessageOK(t, features),
         suppressed' \subseteq Outcomes \ {"claude_triaged"}, slots' \in [Days -> Nat],
         scheduled' \subseteq Ids', failures' \in 0 .. MaxFailures
  PROVE  /\ TypeInv'
         /\ pc' = [v \in Workers |-> IF v = w THEN place ELSE pc[v]]
         /\ mem' = [v \in Workers |-> IF v = w THEN m ELSE mem[v]]
<1>1. place \in Places /\ m \in Local
  BY DEF TaskOK
<1>2. /\ pc' = [v \in Workers |-> IF v = w THEN place ELSE pc[v]]
      /\ mem' = [v \in Workers |-> IF v = w THEN m ELSE mem[v]]
  BY DEF TypeInv, Goto, Keep
<1>3. pc' \in [Workers -> Places] /\ mem' \in [Workers -> Local]
  BY <1>1, <1>2 DEF TypeInv
<1>4. \A v \in Workers : TaskOK(pc'[v], mem'[v], features', signals', now')
  <2> SUFFICES ASSUME NEW v \in Workers PROVE TaskOK(pc'[v], mem'[v], features, signals', now)
    OBVIOUS
  <2>1. CASE v = w
    BY <1>2, <2>1
  <2>2. CASE v # w
    <3>1. TaskOK(pc[v], mem[v], features, signals', now)
      BY Typed, TaskKept
    <3> QED BY <1>2, <2>2, <3>1
  <2> QED BY <2>1, <2>2
<1>5. TypeInv'
  BY <1>3, <1>4 DEF TypeInv
<1> QED BY <1>2, <1>5

(***************************************************************************)
(* Bursts.                                                                 *)
(***************************************************************************)
LEMMA BurstTyped ==
  ASSUME TypeInv, NEW b \in Bursts
  PROVE  /\ b.from \in Nat /\ Span(b) \in Nat
         /\ Rows(b) = {i \in 1 .. Len(signals) : Hits(b, signals[i])}
         /\ IsFiniteSet(Rows(b)) /\ Cardinality(Rows(b)) \in Nat
         /\ IsFiniteSet(Pending(b)) /\ Cardinality(Pending(b)) \in Nat
<1>1. b.from \in Nat /\ Span(b) \in Nat
  BY ConstantsTyped DEF Bursts, Span
<1>2. Ids = 1 .. Len(signals) /\ Len(signals) \in Nat
  BY Typed
<1>3. IsFiniteSet(Ids) /\ Rows(b) \subseteq Ids /\ Pending(b) \subseteq Workers
  BY <1>2, FS_Interval DEF Rows, Pending
<1> QED BY <1>1, <1>2, <1>3, FS_Subset, FS_CardinalityType, ConstantsTyped DEF Rows

\* A step that adds no row, and after which w may add one only if it might before.
LEMMA BurstQuiet ==
  ASSUME TypeInv, BurstInv, NEW w \in Workers, NEW place, NEW m, signals' = signals,
         pc' = [v \in Workers |-> IF v = w THEN place ELSE pc[v]],
         mem' = [v \in Workers |-> IF v = w THEN m ELSE mem[v]],
         \A b \in Bursts : Guarded(b) /\ Rows(b) # {} /\ MayAdd(b, place, m, signals) =>
                             MayAdd(b, pc[w], mem[w], signals)
  PROVE  BurstInv'
<1> SUFFICES ASSUME NEW b \in Bursts, Guarded(b), Rows(b)' # {}
             PROVE  Cardinality(Rows(b)') + Cardinality(Pending(b)') <= Processes
  BY DEF BurstInv, Guarded, Processes
<1>1. Rows(b)' = Rows(b)
  BY DEF Rows, Ids
<1>2. Pending(b)' = {v \in Workers : MayAdd(b, pc'[v], mem'[v], signals)}
  BY DEF Pending
<1>3. Pending(b)' \subseteq Pending(b)
  <2> SUFFICES ASSUME NEW v \in Workers, MayAdd(b, pc'[v], mem'[v], signals)
               PROVE  MayAdd(b, pc[v], mem[v], signals)
    BY <1>2 DEF Pending
  <2>1. CASE v = w
    <3>1. MayAdd(b, place, m, signals)
      BY <2>1
    <3> QED BY <1>1, <2>1, <3>1
  <2>2. CASE v # w
    BY <2>2
  <2> QED BY <2>1, <2>2
<1> DEFINE P == Pending(b)
           Q == Pending(b)'
<1>4. IsFiniteSet(P) /\ Cardinality(P) \in Nat /\ Cardinality(Rows(b)) \in Nat
  BY BurstTyped
<1>5. Q \subseteq P
  BY <1>3
<1>6. Cardinality(Rows(b)) + Cardinality(P) <= Processes
  BY <1>1 DEF BurstInv
<1> HIDE DEF P, Q
<1>7. Cardinality(Q) \in Nat /\ Cardinality(Q) <= Cardinality(P)
  BY <1>4, <1>5, FS_Subset, FS_CardinalityType
<1>8. Cardinality(Rows(b)) + Cardinality(Q) <= Processes
  BY <1>4, <1>6, <1>7, ConstantsTyped
<1> QED BY <1>1, <1>8 DEF Q

\* The row of w: w might add it, and may add no other.
LEMMA BurstAppend ==
  ASSUME TypeInv, BurstInv, NEW w \in Workers, NEW place, NEW m,
         signals' = Append(signals, CandidateOf(mem[w])),
         mem[w].verdict = "claude_triaged", pc[w] = "persist",
         pc' = [v \in Workers |-> IF v = w THEN place ELSE pc[v]],
         mem' = [v \in Workers |-> IF v = w THEN m ELSE mem[v]],
         place \notin Gates, m.verdict # "claude_triaged"
  PROVE  BurstInv'
<1> SUFFICES ASSUME NEW b \in Bursts, Guarded(b), Rows(b)' # {}
             PROVE  Cardinality(Rows(b)') + Cardinality(Pending(b)') <= Processes
  BY DEF BurstInv, Guarded, Processes
<1> DEFINE x == CandidateOf(mem[w])
           n == Len(signals)
           R == Rows(b)
           P == Pending(b)
           S == Rows(b)'
           Q == Pending(b)'
<1>1. /\ n \in Nat /\ IsFiniteSet(R) /\ Cardinality(R) \in Nat
      /\ IsFiniteSet(P) /\ Cardinality(P) \in Nat
      /\ R = {i \in 1 .. n : Hits(b, signals[i])}
  BY Typed, BurstTyped
<1>2. /\ Len(signals') = n + 1 /\ signals'[n + 1] = x
      /\ \A i \in 1 .. n : signals'[i] = signals[i]
      /\ Ids' = 1 .. n + 1
  BY <1>1, Typed DEF Ids, TypeInv
<1>3. S = {i \in 1 .. n + 1 : Hits(b, signals'[i])}
  BY <1>2 DEF Rows
<1>4. Q = {v \in Workers : MayAdd(b, pc'[v], mem'[v], signals')}
  BY DEF Pending
<1>5. w \notin Q
  BY <1>4 DEF MayAdd
<1>6. Q \subseteq P
  <2> SUFFICES ASSUME NEW v \in Workers, v # w, MayAdd(b, pc[v], mem[v], signals')
               PROVE  MayAdd(b, pc[v], mem[v], signals)
    BY <1>4, <1>5 DEF Pending
  <2>1. \A i \in 1 .. n : i \in 1 .. n + 1 /\ signals'[i] = signals[i]
    BY <1>1, <1>2
  <2> QED BY <1>2, <2>1 DEF MayAdd
<1>7. Q \subseteq Workers \ {w} /\ IsFiniteSet(Workers) /\ Processes = Cardinality(Workers)
  BY <1>4, <1>5, ConstantsTyped DEF Processes
<1>8. Cardinality(Q) \in Nat /\ Cardinality(Q) <= Cardinality(P)
  <2> HIDE DEF Q, P
  <2> QED BY <1>1, <1>6, FS_Subset, FS_CardinalityType
<1>9. Cardinality(Q) + 1 <= Processes
  <2> HIDE DEF Q
  <2>1. IsFiniteSet(Workers \ {w}) /\ Cardinality(Workers \ {w}) = Processes - 1
    BY <1>7, FS_RemoveElement
  <2> QED BY <1>7, <2>1, FS_Subset, FS_CardinalityType, ConstantsTyped
<1> HIDE DEF n
<1>10. CASE ~Hits(b, x)
  <2>1. S = R
    <3> HIDE DEF x, S, R
    <3> QED BY <1>1, <1>2, <1>3, <1>10
  <2>2. Cardinality(R) + Cardinality(P) <= Processes
    BY <2>1 DEF BurstInv
  <2> HIDE DEF S, R, P, Q
  <2>3. Cardinality(S) + Cardinality(Q) <= Processes
    BY <1>1, <1>8, <2>1, <2>2, ConstantsTyped
  <2> QED BY <2>3 DEF S, Q
<1>11. CASE Hits(b, x)
  <2>1. S = R \cup {n + 1} /\ n + 1 \notin R
    <3> HIDE DEF x, S, R
    <3> QED BY <1>1, <1>2, <1>3, <1>11
  <2>2. Cardinality(S) = Cardinality(R) + 1
    <3> HIDE DEF S, R
    <3> QED BY <1>1, <2>1, FS_AddElement
  <2>3. CASE R = {}
    <3>1. Cardinality(R) = 0
      BY <2>3, FS_EmptySet
    <3> HIDE DEF S, R, P, Q
    <3>2. Cardinality(S) + Cardinality(Q) <= Processes
      BY <1>8, <1>9, <2>2, <3>1, ConstantsTyped
    <3> QED BY <3>2 DEF S, Q
  <2>4. CASE R # {}
    <3>1. Cardinality(R) + Cardinality(P) <= Processes
      BY <2>4 DEF BurstInv
    <3>2. w \in P
      BY <1>11 DEF Pending, MayAdd, Before
    <3>3. Cardinality(Q) + 1 <= Cardinality(P)
      <4>1. Q \subseteq P \ {w}
        BY <1>5, <1>6
      <4> HIDE DEF Q, P
      <4>2. IsFiniteSet(P \ {w}) /\ Cardinality(P \ {w}) = Cardinality(P) - 1
        BY <1>1, <3>2, FS_RemoveElement
      <4>3. Cardinality(Q) <= Cardinality(P \ {w})
        BY <4>1, <4>2, FS_Subset
      <4> QED BY <1>1, <1>8, <4>2, <4>3
    <3> HIDE DEF S, R, P, Q
    <3>4. Cardinality(S) + Cardinality(Q) <= Processes
      BY <1>1, <1>8, <2>2, <3>1, <3>3, ConstantsTyped
    <3> QED BY <3>4 DEF S, Q
  <2> QED BY <2>3, <2>4
<1> QED BY <1>10, <1>11


-----------------------------------------------------------------------------
(***************************************************************************)
(* The signal in hand.                                                     *)
(***************************************************************************)
LEMMA CandidateIs ==
  ASSUME NEW w
  PROVE  Sig(w) = Earliest(mem[w].found) /\ Candidate(w) = CandidateOf(mem[w])
<1>1. Sig(w) = Earliest(mem[w].found)
  BY Zenon DEF Sig, Earliest
<1> QED BY <1>1, Zenon DEF Candidate, CandidateOf, Stream

LEMMA CandidateTyped ==
  ASSUME TypeInv, NEW w \in Workers, pc[w] # "idle", mem[w].found # {}
  PROVE  CandidateOf(mem[w]) \in Signal
<1> DEFINE m == mem[w]
           x == Earliest(m.found)
<1>1. m \in Local /\ \E t \in m.task : m.task = {t} /\ MessageOK(t, features)
  BY Typed DEF TaskOK
<1>2. m.found \in SUBSET Found /\ m.fired \in 0 .. MaxNow /\ m.seen \in Nat
  BY <1>1 DEF Local
<1>3. x \in Found
  BY <1>2, EarliestExists
<1>4. (CHOOSE t \in m.task : TRUE).stream \in Streams
  <2>1. (CHOOSE t \in m.task : TRUE) \in Messages
    BY <1>1 DEF MessageOK
  <2> QED BY <2>1 DEF Messages
<1>5. x.archetype \in Archetypes /\ x.dir \in Directions
  BY <1>3 DEF Found
<1> QED BY <1>2, <1>4, <1>5 DEF CandidateOf, Signal

\* The same signal, whatever else its task knows.
LEMMA SameHits ==
  ASSUME NEW m, NEW o, m.task = o.task, m.found = o.found, m.fired = o.fired
  PROVE  /\ CandidateOf(m).fired = CandidateOf(o).fired
         /\ CandidateOf(m).stream = CandidateOf(o).stream
         /\ CandidateOf(m).archetype = CandidateOf(o).archetype
         /\ CandidateOf(m).dir = CandidateOf(o).dir
         /\ \A b : Hits(b, CandidateOf(m)) <=> Hits(b, CandidateOf(o))
<1>1. /\ CandidateOf(m).fired = CandidateOf(o).fired
      /\ CandidateOf(m).stream = CandidateOf(o).stream
      /\ CandidateOf(m).archetype = CandidateOf(o).archetype
      /\ CandidateOf(m).dir = CandidateOf(o).dir
  BY DEF CandidateOf
<1> QED BY <1>1, Zenon DEF Hits

\* A task goes on with the same message and no more signals.
LEMMA TaskMoved ==
  ASSUME NEW here, NEW o, NEW place, NEW m, NEW F, NEW rows, NEW t,
         TaskOK(here, o, F, rows, t), here # "idle", m \in Local,
         m.task = o.task, m.found \subseteq o.found,
         place \in Places, place # "idle",
         place \in Gates \cup {"persist"} => m.found # {},
         m.verdict # "" <=> place = "persist", m.id # 0 <=> place = "schedule",
         m.id <= Len(rows) /\ m.seen <= Len(rows) /\ m.fired <= t,
         Deduped(place, m) => \A i \in 1 .. m.seen : ~Dedups(rows[i], CandidateOf(m))
  PROVE  TaskOK(place, m, F, rows, t)
<1>1. \A x \in m.found : BracketOK(x)
  BY DEF TaskOK
<1>2. \E x \in m.task : m.task = {x} /\ MessageOK(x, F)
  BY DEF TaskOK
<1> QED BY <1>1, <1>2, Zenon DEF TaskOK

-----------------------------------------------------------------------------
(***************************************************************************)
(* Slots and outcomes.                                                     *)
(***************************************************************************)
RowsOf(d) == {i \in Ids : DayOf(signals[i].fired) = d}
Capped(n) == Min({n, DailyCap})

LEMMA CappedIs ==
  ASSUME NEW n \in Nat
  PROVE  Capped(n) \in Nat /\ Capped(n) = IF n <= DailyCap THEN n ELSE DailyCap
<1>1. DailyCap \in Nat
  BY ConstantsTyped
<1> DEFINE c == IF n <= DailyCap THEN n ELSE DailyCap
<1>2. c \in {n, DailyCap} /\ \A y \in {n, DailyCap} : c <= y
  BY <1>1
<1>3. \A x \in {n, DailyCap} : (\A y \in {n, DailyCap} : x <= y) => x = c
  BY <1>1
<1>4. Capped(n) = c
  BY <1>2, <1>3 DEF Capped, Min
<1> QED BY <1>1, <1>4

LEMMA SlotsTyped ==
  ASSUME TypeInv, NEW d \in Days
  PROVE  /\ IsFiniteSet(RowsOf(d)) /\ Cardinality(RowsOf(d)) \in Nat
         /\ IsFiniteSet(Holding(d)) /\ Cardinality(Holding(d)) \in Nat
         /\ slots[d] \in Nat /\ Capped(slots[d]) \in Nat
<1>1. Ids = 1 .. Len(signals) /\ Len(signals) \in Nat
  BY Typed
<1>2. IsFiniteSet(Ids) /\ RowsOf(d) \subseteq Ids /\ Holding(d) \subseteq Workers
  BY <1>1, FS_Interval DEF RowsOf, Holding
<1>3. slots[d] \in Nat
  BY DEF TypeInv
<1> QED BY <1>2, <1>3, FS_Subset, FS_CardinalityType, ConstantsTyped, CappedIs

LEMMA SlotsAre ==
  SlotsExplained <=>
    \A d \in Days :
      /\ Cardinality(RowsOf(d)) + Cardinality(Holding(d)) <= Capped(slots[d])
      /\ Capped(slots[d]) <= Cardinality(RowsOf(d)) + Cardinality(Holding(d)) + failures
  BY DEF SlotsExplained, RowsOf, Capped

LEMMA UnscheduledTyped ==
  ASSUME TypeInv
  PROVE  IsFiniteSet(Unscheduled) /\ Cardinality(Unscheduled) \in Nat
<1>1. Ids = 1 .. Len(signals) /\ Len(signals) \in Nat
  BY Typed
<1>2. Unscheduled \subseteq Ids
  BY Zenon DEF Unscheduled
<1>3. IsFiniteSet(Ids)
  BY <1>1, FS_Interval
<1> QED BY <1>2, <1>3, FS_Subset, FS_CardinalityType

-----------------------------------------------------------------------------
(***************************************************************************)
(* The first state.                                                        *)
(***************************************************************************)
LEMMA InitInv == Init => FlowInv
<1> SUFFICES ASSUME Init PROVE FlowInv
  OBVIOUS
<1>1. Ids = {} /\ Len(signals) = 0 /\ signals \in Seq(Signal)
  BY DEF Init, Ids
<1>2. PICK s \in Scenarios : /\ features = [x \in Streams |-> Features(s.candles[x])]
                              /\ detects = s.tasks
  BY DEF Init
<1>3. /\ s.candles \in [Streams -> Seq(Candles)] /\ s.tasks \subseteq Messages
      /\ \A m \in s.tasks : m.row \in DOMAIN s.candles[m.stream]
  BY <1>2, SignalFlowAssumption
<1>4. \A x \in Streams : /\ RowsOK(features[x])
                          /\ DOMAIN features[x] = DOMAIN s.candles[x]
  BY <1>2, <1>3, FeaturesOK
<1>5. \A m \in detects : MessageOK(m, features)
  <2> SUFFICES ASSUME NEW m \in s.tasks PROVE MessageOK(m, features)
    BY <1>2
  <2>1. m \in Messages /\ m.stream \in Streams
    BY <1>3 DEF Messages
  <2> QED BY <1>3, <1>4, <2>1 DEF MessageOK
<1>6. \A w \in Workers : pc[w] = "idle" /\ mem[w] = Idle
  BY DEF Init
<1>7. now = 0 /\ failures = 0 /\ 0 \in 0 .. MaxNow /\ 0 \in 0 .. MaxFailures /\ 0 \in Nat
  BY ConstantsTyped DEF Init
<1>8. TaskOK("idle", Idle, features, signals, now)
  BY <1>1, <1>7, IdleOK
<1>9. "idle" \in Places /\ Idle \in Local
  BY <1>8 DEF TaskOK
<1>10. TypeInv
  <2>1. pc \in [Workers -> Places] /\ mem \in [Workers -> Local]
    BY <1>9 DEF Init
  <2>2. slots \in [Days -> Nat] /\ scheduled \subseteq Ids
        /\ suppressed \subseteq Outcomes \ {"claude_triaged"}
    BY DEF Init
  <2> QED BY <1>1, <1>4, <1>5, <1>6, <1>7, <1>8, <2>1, <2>2 DEF TypeInv
<1>11. BurstInv
  BY <1>1 DEF BurstInv, Rows
<1>12. DedupExplained
  BY <1>1 DEF DedupExplained
<1>13. SlotsExplained
  <2> SUFFICES ASSUME NEW d \in Days
               PROVE  /\ Cardinality(RowsOf(d)) + Cardinality(Holding(d)) <= Capped(slots[d])
                      /\ Capped(slots[d]) <= Cardinality(RowsOf(d)) + Cardinality(Holding(d)) + failures
    BY SlotsAre
  <2>1. RowsOf(d) = {}
    BY <1>1 DEF RowsOf
  <2>2. Holding(d) = {}
    <3>1. Idle.verdict # "claude_triaged"
      BY DEF Idle
    <3> QED BY <1>6, <3>1 DEF Holding
  <2>3. Cardinality(RowsOf(d)) = 0 /\ Cardinality(Holding(d)) = 0
    BY <2>1, <2>2, FS_EmptySet
  <2>4. slots[d] = 0
    BY DEF Init
  <2>5. Capped(slots[d]) = 0
    BY <2>4, CappedIs, ConstantsTyped
  <2> QED BY <1>7, <2>3, <2>5
<1>14. OutcomesExplained
  <2>1. Unscheduled = {}
    BY <1>1 DEF Unscheduled
  <2> QED BY <1>7, <2>1, FS_EmptySet DEF OutcomesExplained
<1> QED BY <1>10, <1>11, <1>12, <1>13, <1>14 DEF FlowInv


-----------------------------------------------------------------------------
(***************************************************************************)
(* Steps.                                                                  *)
(***************************************************************************)

\* A step that touches no table but suppressed, of a task with no slot.
LEMMA QuietStep ==
  ASSUME FlowInv, NEW w \in Workers, NEW place, NEW m, Goto(w, place), Keep(w, m),
         UNCHANGED <<now, features, signals, slots, scheduled, failures>>,
         TaskOK(place, m, features, signals, now),
         \A t \in detects' : MessageOK(t, features),
         suppressed' \subseteq Outcomes \ {"claude_triaged"},
         m.id = mem[w].id, mem[w].verdict # "claude_triaged", m.verdict # "claude_triaged",
         \A b \in Bursts : Guarded(b) /\ Rows(b) # {} /\ MayAdd(b, place, m, signals) =>
                             MayAdd(b, pc[w], mem[w], signals)
  PROVE  FlowInv'
<1>1. TypeInv /\ BurstInv /\ DedupExplained /\ SlotsExplained /\ OutcomesExplained
  BY DEF FlowInv
<1>2. /\ TypeInv'
      /\ pc' = [v \in Workers |-> IF v = w THEN place ELSE pc[v]]
      /\ mem' = [v \in Workers |-> IF v = w THEN m ELSE mem[v]]
  <2>1. /\ signals' \in Seq(Signal) /\ slots' \in [Days -> Nat] /\ scheduled' \subseteq Ids'
        /\ failures' \in 0 .. MaxFailures /\ Extends(signals, signals')
        /\ \A i \in Ids' : signals'[i].seen <= Len(signals') /\ signals'[i].fired <= now
    BY <1>1, Typed DEF TypeInv, Ids
  <2> QED BY <1>1, <2>1, TypeMoves
<1>3. BurstInv'
  BY <1>1, <1>2, BurstQuiet
<1>4. DedupExplained'
  BY <1>1 DEF DedupExplained, Ids
<1>5. SlotsExplained'
  <2>1. \A d \in Days : Holding(d)' = Holding(d)
    BY <1>2 DEF Holding
  <2>2. \A d \in Days : RowsOf(d)' = RowsOf(d)
    BY DEF RowsOf, Ids
  <2> QED BY <1>1, <2>1, <2>2 DEF SlotsExplained, RowsOf
<1>6. OutcomesExplained'
  <2>1. \A v \in Workers : mem'[v].id = mem[v].id
    BY <1>2
  <2>2. Unscheduled' = Unscheduled
    BY <2>1 DEF Unscheduled, Ids
  <2> QED BY <1>1, <2>2 DEF OutcomesExplained
<1> QED BY <1>2, <1>3, <1>4, <1>5, <1>6 DEF FlowInv

\* What is known of a task before its step.
LEMMA InHand ==
  ASSUME FlowInv, NEW w \in Workers
  PROVE  /\ TypeInv /\ mem[w] \in Local
         /\ TaskOK(pc[w], mem[w], features, signals, now)
         /\ mem[w].task \in SUBSET Messages /\ mem[w].found \in SUBSET Found
         /\ mem[w].fired \in 0 .. MaxNow /\ mem[w].seen \in Nat /\ mem[w].id \in Nat
         /\ mem[w].seen <= Len(signals) /\ mem[w].fired <= now
         /\ pc[w] # "persist" => mem[w].verdict = ""
         /\ pc[w] # "schedule" => mem[w].id = 0
         /\ \A t \in detects : MessageOK(t, features)
         /\ suppressed \subseteq Outcomes \ {"claude_triaged"}
         /\ now \in 0 .. MaxNow /\ now <= now /\ now \in Nat /\ Len(signals) \in Nat
         /\ 0 <= Len(signals)
<1>1. /\ TypeInv /\ mem[w] \in Local /\ TaskOK(pc[w], mem[w], features, signals, now)
      /\ now \in 0 .. MaxNow /\ now <= now /\ now \in Nat /\ Len(signals) \in Nat
  BY Typed DEF FlowInv
<1>2. /\ mem[w].task \in SUBSET Messages /\ mem[w].found \in SUBSET Found
      /\ mem[w].fired \in 0 .. MaxNow /\ mem[w].seen \in Nat /\ mem[w].id \in Nat
  BY <1>1 DEF Local
<1>3. /\ mem[w].seen <= Len(signals) /\ mem[w].fired <= now
      /\ mem[w].verdict # "" <=> pc[w] = "persist"
      /\ mem[w].id # 0 <=> pc[w] = "schedule"
  BY <1>1 DEF TaskOK
<1>4. /\ \A t \in detects : MessageOK(t, features)
      /\ suppressed \subseteq Outcomes \ {"claude_triaged"}
  BY <1>1 DEF TypeInv
<1>5. 0 <= Len(signals)
  BY <1>1
<1> QED BY <1>1, <1>2, <1>3, <1>4, <1>5, Zenon

LEMMA PlacesAre ==
  /\ {"idle", "detect", "cooldown", "dedup", "rate", "cap", "persist", "schedule"} \subseteq Places
  /\ Gates = {"cooldown", "dedup", "rate", "cap"}
  /\ {"below_threshold", "cooldown_suppressed", "dedup_suppressed",
      "rate_limited", "daily_cap_hit"} \subseteq Outcomes \ {"claude_triaged"}
  /\ "claude_triaged" \in Outcomes /\ "" \notin Outcomes
  BY DEF Places, Gates, Outcomes

LEMMA TakeStep == ASSUME FlowInv, NEW w \in Workers, Take(w) PROVE FlowInv'
<1>1. PICK t \in detects :
        /\ detects' = detects \ {t}
        /\ Keep(w, [Idle EXCEPT !.task = {t},
                      !.found = Finds(SubSeq(features[t.stream], 1, t.row))])
  BY Zenon DEF Take
<1> DEFINE found == Finds(SubSeq(features[t.stream], 1, t.row))
           m == [Idle EXCEPT !.task = {t}, !.found = found]
<1>2. Goto(w, "detect") /\ Keep(w, m) /\ pc[w] = "idle"
  BY <1>1 DEF Take, At
<1>3. /\ m.task = {t} /\ m.found = found /\ m.verdict = "" /\ m.id = 0
      /\ m.seen = 0 /\ m.fired = 0
  <2> HIDE DEF found
  <2> QED BY DEF Idle
<1>4. MessageOK(t, features) /\ t \in Messages
  BY InHand DEF MessageOK
<1>5. found \subseteq Found /\ \A x \in found : BracketOK(x)
  <2>1. t.stream \in Streams /\ t.row \in DOMAIN features[t.stream]
    BY <1>4 DEF Messages, MessageOK
  <2>2. RowsOK(features[t.stream])
    BY <2>1, InHand DEF TypeInv
  <2> QED BY <2>1, <2>2, FindsFacts
<1>6. mem[w] = Idle
  BY <1>2, InHand DEF TaskOK
<1> HIDE DEF found
<1>7. m \in Local
  <2>1. Idle \in Local
    BY <1>6, InHand
  <2>2. {t} \in SUBSET Messages /\ found \in SUBSET Found
    BY <1>4, <1>5
  <2> QED BY <2>1, <2>2 DEF Local
<1> HIDE DEF m
<1>8. TaskOK("detect", m, features, signals, now)
  <2>2. 0 <= Len(signals) /\ 0 <= now
    <3>1. Len(signals) \in Nat /\ now \in Nat
      BY InHand
    <3> QED BY <3>1
  <2>3. ~Deduped("detect", m) /\ "detect" \notin Gates \cup {"persist"}
    BY <1>3, PlacesAre DEF Deduped
  <2>4. \E x \in m.task : m.task = {x} /\ MessageOK(x, features)
    BY <1>3, <1>4
  <2>5. \A x \in m.found : BracketOK(x)
    BY <1>3, <1>5
  <2>6. "detect" \in Places
    BY PlacesAre
  <2> QED BY <1>3, <1>7, <2>2, <2>3, <2>4, <2>5, <2>6, Zenon DEF TaskOK
<1>9. m.id = mem[w].id /\ mem[w].verdict # "claude_triaged" /\ m.verdict # "claude_triaged"
  <2>1. m.id = 0 /\ m.verdict = ""
    BY <1>3
  <2>2. mem[w].id = 0 /\ mem[w].verdict = ""
    <3>1. Idle.id = 0 /\ Idle.verdict = ""
      BY DEF Idle
    <3> QED BY <1>6, <3>1, Zenon
  <2> QED BY <2>1, <2>2
<1>10. \A b \in Bursts : ~MayAdd(b, "detect", m, signals)
  BY <1>9, PlacesAre DEF MayAdd
<1>11. \A u \in detects' : MessageOK(u, features)
  BY <1>1, InHand
<1>12. /\ UNCHANGED <<now, features, signals, slots, scheduled, failures>>
       /\ suppressed' \subseteq Outcomes \ {"claude_triaged"}
  BY InHand DEF Take
<1> QED BY <1>2, <1>8, <1>9, <1>10, <1>11, <1>12, QuietStep

LEMMA FinishStep == ASSUME FlowInv, NEW w \in Workers, Finish(w) PROVE FlowInv'
<1>1. pc[w] = "detect" /\ Goto(w, "idle") /\ Keep(w, Idle)
  BY DEF Finish, At
<1>2. /\ UNCHANGED <<now, features, signals, slots, scheduled, failures>>
      /\ \A u \in detects' : MessageOK(u, features)
      /\ suppressed' \subseteq Outcomes \ {"claude_triaged"}
  BY InHand DEF Finish
<1>3. TaskOK("idle", Idle, features, signals, now)
  BY InHand, IdleOK
<1>4. Idle.id = mem[w].id /\ mem[w].verdict # "claude_triaged" /\ Idle.verdict # "claude_triaged"
  BY <1>1, InHand DEF Idle
<1>5. \A b \in Bursts : ~MayAdd(b, "idle", Idle, signals)
  BY <1>4, PlacesAre DEF MayAdd
<1> QED BY <1>1, <1>2, <1>3, <1>4, <1>5, QuietStep

\* The signal in hand is stopped with an outcome.
LEMMA StopStep ==
  ASSUME FlowInv, NEW w \in Workers, pc[w] \in {"detect", "cooldown", "dedup", "rate"},
         mem[w].found # {}, NEW m, m \in Local, m.task = mem[w].task, m.found = mem[w].found,
         m.id = mem[w].id, m.seen = mem[w].seen, m.fired <= now,
         m.verdict \in Outcomes \ {"claude_triaged"},
         Goto(w, "persist"), Keep(w, m),
         UNCHANGED <<now, features, detects, signals, suppressed, slots, scheduled, failures>>
  PROVE  FlowInv'
<1>1. m.verdict # "" /\ m.verdict # "claude_triaged" /\ m.id = 0 /\ mem[w].verdict = ""
  BY InHand, PlacesAre
<1>2. TaskOK("persist", m, features, signals, now)
  <2>1. ~Deduped("persist", m)
    BY <1>1 DEF Deduped
  <2>2. m.id <= Len(signals) /\ m.seen <= Len(signals) /\ m.fired <= now
    <3>1. Len(signals) \in Nat /\ mem[w].seen <= Len(signals)
      BY InHand
    <3>2. m.id <= Len(signals)
      <4>1. 0 <= Len(signals)
        BY <3>1
      <4> QED BY <1>1, <4>1, Zenon
    <3>3. m.seen <= Len(signals)
      BY <3>1
    <3> QED BY <3>2, <3>3
  <2>3. "persist" \in Places /\ m.found \subseteq mem[w].found /\ pc[w] # "idle"
    BY PlacesAre
  <2>4. m.id # 0 <=> "persist" = "schedule"
    BY <1>1
  <2>5. TaskOK(pc[w], mem[w], features, signals, now)
    BY InHand
  <2> QED BY <1>1, <2>1, <2>2, <2>3, <2>4, <2>5, TaskMoved
<1>3. \A b \in Bursts : ~MayAdd(b, "persist", m, signals)
  BY <1>1, PlacesAre DEF MayAdd
<1>4. /\ UNCHANGED <<now, features, signals, slots, scheduled, failures>>
      /\ \A u \in detects' : MessageOK(u, features)
      /\ suppressed' \subseteq Outcomes \ {"claude_triaged"}
  BY InHand
<1> QED BY <1>1, <1>2, <1>3, <1>4, QuietStep

\* The signal in hand goes on to the next gate.
LEMMA PassStep ==
  ASSUME FlowInv, NEW w \in Workers, pc[w] \in {"detect", "cooldown", "dedup", "rate"},
         mem[w].found # {}, NEW place \in Gates,
         NEW m, m \in Local, m.task = mem[w].task, m.found = mem[w].found,
         m.id = mem[w].id, m.seen <= Len(signals), m.fired <= now, m.verdict = mem[w].verdict,
         place \in {"rate", "cap"} => \A i \in 1 .. m.seen : ~Dedups(signals[i], CandidateOf(m)),
         \A b \in Bursts : Guarded(b) /\ Rows(b) # {} /\ MayAdd(b, place, m, signals) =>
                             MayAdd(b, pc[w], mem[w], signals),
         Goto(w, place), Keep(w, m),
         UNCHANGED <<now, features, detects, signals, suppressed, slots, scheduled, failures>>
  PROVE  FlowInv'
<1>1. mem[w].verdict = "" /\ m.verdict = "" /\ m.id = 0
  BY InHand
<1>2. TaskOK(place, m, features, signals, now)
  <2>1. place \in {"cooldown", "dedup", "rate", "cap"}
    BY PlacesAre
  <2>2. m.id <= Len(signals) /\ m.seen <= Len(signals) /\ m.fired <= now
    <3>1. Len(signals) \in Nat /\ mem[w].seen <= Len(signals)
      BY InHand
    <3>2. m.id <= Len(signals)
      <4>1. 0 <= Len(signals)
        BY <3>1
      <4> QED BY <1>1, <4>1, Zenon
    <3>3. m.seen <= Len(signals)
      BY <3>1
    <3> QED BY <3>2, <3>3
  <2>3. /\ place \in Places /\ place # "idle" /\ place # "persist" /\ place # "schedule"
        /\ m.found \subseteq mem[w].found /\ pc[w] # "idle"
    BY <2>1, PlacesAre
  <2>4. Deduped(place, m) => place \in {"rate", "cap"}
    BY <1>1 DEF Deduped
  <2>5. TaskOK(pc[w], mem[w], features, signals, now)
    BY InHand
  <2>6. /\ m.verdict # "" <=> place = "persist"
        /\ m.id # 0 <=> place = "schedule"
    BY <1>1, <2>3
  <2>7. Deduped(place, m) => \A i \in 1 .. m.seen : ~Dedups(signals[i], CandidateOf(m))
    BY <2>4
  <2> QED BY <2>2, <2>3, <2>5, <2>6, <2>7, TaskMoved
<1>4. /\ UNCHANGED <<now, features, signals, slots, scheduled, failures>>
      /\ \A u \in detects' : MessageOK(u, features)
      /\ suppressed' \subseteq Outcomes \ {"claude_triaged"}
      /\ mem[w].verdict # "claude_triaged" /\ m.verdict # "claude_triaged"
  BY <1>1, InHand
<1> QED BY <1>2, <1>4, QuietStep


\* The rows a gate did not see are those fired later.
LEMMA GatePassed ==
  ASSUME TypeInv, NEW b \in Bursts, Guarded(b), NEW x \in Signal, Hits(b, x),
         NEW i \in Ids, Hits(b, signals[i]),
         b.gate = "cooldown" => CooldownRows(x) = {}, b.gate = "rate" => ~RateLimited(x)
  PROVE  x.fired < signals[i].fired
<1>1. /\ b.from \in Nat /\ Span(b) \in Nat /\ signals[i].fired \in Nat
      /\ b.gate \in {"cooldown", "rate"} /\ MinGap \in Nat
  BY Typed, BurstTyped, ConstantsTyped DEF Bursts
<1>2. x.fired \in Nat
  <2>1. x.fired \in 0 .. MaxNow
    BY DEF Signal
  <2> QED BY <2>1, ConstantsTyped
<1>3. /\ b.from <= x.fired /\ x.fired <= b.from + Span(b)
      /\ b.from <= signals[i].fired /\ signals[i].fired <= b.from + Span(b)
  BY DEF Hits
<1>4. x.fired - Span(b) <= signals[i].fired
  <2> DEFINE s == Span(b)
             f == signals[i].fired
  <2>1. s \in Nat /\ f \in Nat /\ b.from <= f /\ x.fired <= b.from + s
    BY <1>1, <1>3
  <2> HIDE DEF s, f
  <2>2. x.fired - s <= f
    BY <1>1, <1>2, <2>1
  <2> QED BY <2>2 DEF s, f
<1>5. CASE b.gate = "cooldown"
  <2>1. /\ x.archetype = b.archetype /\ Symbol[x.stream] = Symbol[b.of]
        /\ signals[i].archetype = b.archetype /\ Symbol[signals[i].stream] = Symbol[b.of]
    BY <1>5 DEF Hits
  <2>2. Span(b) = Cooldown[x.archetype]
    BY <1>5, <2>1 DEF Span
  <2>3. i \notin Triaged(x.fired - Cooldown[x.archetype], x.fired)
    BY <1>5, <2>1 DEF CooldownRows
  <2>4. ~(signals[i].fired <= x.fired)
    BY <1>4, <2>2, <2>3 DEF Triaged
  <2> QED BY <1>1, <1>2, <2>4
<1>6. CASE b.gate = "rate"
  <2>1. Span(b) = MinGap /\ MinGap > 0
    BY <1>6 DEF Span, Guarded
  <2>2. i \notin Triaged(x.fired - MinGap, x.fired)
    BY <1>6, <2>1 DEF RateLimited
  <2>4. ~(signals[i].fired <= x.fired)
    BY <1>4, <2>1, <2>2 DEF Triaged
  <2> QED BY <1>1, <1>2, <2>4
<1> QED BY <1>1, <1>5, <1>6

LEMMA DetectStep == ASSUME FlowInv, NEW w \in Workers, Detect(w) PROVE FlowInv'
<1>1. /\ pc[w] = "detect" /\ mem[w].found # {}
      /\ UNCHANGED <<now, features, detects, signals, suppressed, slots, scheduled, failures>>
  BY DEF Detect, At
<1>2. mem[w] \in Local /\ now \in 0 .. MaxNow /\ now \in Nat /\ now <= now
      /\ mem[w].seen <= Len(signals)
  BY InHand
<1>3. ASSUME Goto(w, "persist"),
             Keep(w, [mem[w] EXCEPT !.fired = now, !.verdict = "below_threshold"])
      PROVE  FlowInv'
  <2> DEFINE m == [mem[w] EXCEPT !.fired = now, !.verdict = "below_threshold"]
  <2>1. "below_threshold" \in Outcomes \ {"claude_triaged"}
    BY PlacesAre
  <2>2. m \in Local
    BY <1>2, <2>1 DEF Local
  <2>3. /\ m.task = mem[w].task /\ m.found = mem[w].found /\ m.id = mem[w].id
        /\ m.seen = mem[w].seen /\ m.fired = now /\ m.verdict = "below_threshold"
    BY <1>2 DEF Local
  <2>4. Keep(w, m)
    BY <1>3
  <2> HIDE DEF m
  <2>5. m.fired <= now
    BY <1>2, <2>3
  <2> QED BY <1>1, <1>3, <2>1, <2>2, <2>3, <2>4, <2>5, StopStep
<1>4. ASSUME Goto(w, "cooldown"), Keep(w, [mem[w] EXCEPT !.fired = now]) PROVE FlowInv'
  <2> DEFINE m == [mem[w] EXCEPT !.fired = now]
  <2>2. m \in Local
    BY <1>2 DEF Local
  <2>3. /\ m.task = mem[w].task /\ m.found = mem[w].found /\ m.id = mem[w].id
        /\ m.seen = mem[w].seen /\ m.fired = now /\ m.verdict = mem[w].verdict
    BY <1>2 DEF Local
  <2>4. Keep(w, m)
    BY <1>4
  <2> HIDE DEF m
  <2>5. m.fired <= now /\ m.seen <= Len(signals)
    BY <1>2, <2>3
  <2>6. ASSUME NEW b \in Bursts, Rows(b) # {}, MayAdd(b, "cooldown", m, signals) PROVE FALSE
    <3>1. PICK i \in Ids : Hits(b, signals[i])
      BY <2>6 DEF Rows
    <3>2. i \in 1 .. Len(signals) /\ signals[i].fired \in Nat /\ signals[i].fired <= now
      BY <1>1, Typed, InHand
    <3>3. "cooldown" \in Before(b)
      BY DEF Before
    <3>4. now < signals[i].fired
      BY <2>3, <2>6, <3>1, <3>2, <3>3 DEF MayAdd
    <3> QED BY <1>2, <3>2, <3>4
  <2>7. "cooldown" \in Gates /\ "cooldown" \notin {"rate", "cap"}
    BY PlacesAre
  <2> QED BY <1>1, <1>4, <2>2, <2>3, <2>4, <2>5, <2>6, <2>7, PassStep
<1> QED BY <1>3, <1>4 DEF Detect

\* A gate that stops the signal.
LEMMA GateStops ==
  ASSUME FlowInv, NEW w \in Workers, pc[w] \in {"cooldown", "dedup", "rate"},
         NEW outcome \in Outcomes \ {"claude_triaged"},
         Goto(w, "persist"), Keep(w, [mem[w] EXCEPT !.verdict = outcome]),
         UNCHANGED <<now, features, detects, signals, suppressed, slots, scheduled, failures>>
  PROVE  FlowInv'
<1> DEFINE m == [mem[w] EXCEPT !.verdict = outcome]
<1>1. mem[w] \in Local /\ mem[w].fired <= now /\ TaskOK(pc[w], mem[w], features, signals, now)
  BY InHand
<1>2. mem[w].found # {}
  BY <1>1, PlacesAre DEF TaskOK
<1>3. m \in Local
  BY <1>1 DEF Local
<1>4. /\ m.task = mem[w].task /\ m.found = mem[w].found /\ m.id = mem[w].id
      /\ m.seen = mem[w].seen /\ m.fired = mem[w].fired /\ m.verdict = outcome
  BY <1>1 DEF Local
<1>5. Keep(w, m) /\ pc[w] \in {"detect", "cooldown", "dedup", "rate"}
  OBVIOUS
<1> HIDE DEF m
<1>6. m.fired <= now
  BY <1>1, <1>4, Zenon
<1> QED BY <1>2, <1>3, <1>4, <1>5, <1>6, StopStep

\* A gate that lets it go on.
LEMMA GatePasses ==
  ASSUME FlowInv, NEW w \in Workers, pc[w] \in {"cooldown", "dedup", "rate"},
         NEW place \in Gates, NEW seen \in Nat, seen <= Len(signals),
         Goto(w, place), Keep(w, [mem[w] EXCEPT !.seen = seen]),
         UNCHANGED <<now, features, detects, signals, suppressed, slots, scheduled, failures>>,
         place \in {"rate", "cap"} =>
           \A i \in 1 .. seen : ~Dedups(signals[i], CandidateOf(mem[w])),
         \A b \in Bursts : Guarded(b) /\ place \notin Before(b) /\ pc[w] \in Before(b) =>
           /\ b.gate = "cooldown" => CooldownRows(CandidateOf(mem[w])) = {}
           /\ b.gate = "rate" => ~RateLimited(CandidateOf(mem[w]))
  PROVE  FlowInv'
<1> DEFINE o == mem[w]
           m == [o EXCEPT !.seen = seen]
<1>1. /\ o \in Local /\ o.fired <= now /\ TaskOK(pc[w], o, features, signals, now)
      /\ o.verdict = ""
  BY InHand
<1>2. o.found # {}
  BY <1>1, PlacesAre DEF TaskOK
<1>3. m \in Local
  BY <1>1 DEF Local
<1>4. /\ m.task = o.task /\ m.found = o.found /\ m.id = o.id
      /\ m.seen = seen /\ m.fired = o.fired /\ m.verdict = o.verdict
  BY <1>1 DEF Local
<1>5. Keep(w, m) /\ pc[w] \in {"detect", "cooldown", "dedup", "rate"}
  OBVIOUS
<1>6. CandidateOf(o) \in Signal
  BY <1>2, CandidateTyped DEF FlowInv
<1> HIDE DEF m
<1>7. m.fired <= now
  BY <1>1, <1>4, Zenon
<1>8. /\ CandidateOf(m).fired = o.fired
      /\ CandidateOf(m).dir = CandidateOf(o).dir
      /\ CandidateOf(m).stream = CandidateOf(o).stream
      /\ \A b : Hits(b, CandidateOf(m)) <=> Hits(b, CandidateOf(o))
      /\ CandidateOf(o).fired = o.fired
  <2>1. CandidateOf(o).fired = o.fired
    BY DEF CandidateOf
  <2> QED BY <1>4, <2>1, SameHits
<1>9. place \in {"rate", "cap"} => \A i \in 1 .. m.seen : ~Dedups(signals[i], CandidateOf(m))
  <2> SUFFICES ASSUME place \in {"rate", "cap"}, NEW i \in 1 .. seen
               PROVE  ~Dedups(signals[i], CandidateOf(m))
    BY <1>4
  <2>1. ~Dedups(signals[i], CandidateOf(o))
    OBVIOUS
  <2> QED BY <1>8, <2>1 DEF Dedups
<1>10. ASSUME NEW b \in Bursts, Guarded(b), Rows(b) # {}, MayAdd(b, place, m, signals)
       PROVE  MayAdd(b, pc[w], o, signals)
  <2>1. Hits(b, CandidateOf(o))
    BY <1>8, <1>10 DEF MayAdd
  <2>2. pc[w] \in Gates
    BY PlacesAre
  <2>3. ASSUME pc[w] \in Before(b), NEW i \in 1 .. Len(signals), Hits(b, signals[i])
        PROVE  o.fired < signals[i].fired
    <3>1. CASE place \in Before(b)
      <4>1. m.fired < signals[i].fired
        BY <1>10, <2>3, <3>1 DEF MayAdd
      <4> QED BY <1>4, <4>1, Zenon
    <3>2. CASE place \notin Before(b)
      <4>1. i \in Ids /\ TypeInv
        BY <2>3, Typed DEF FlowInv
      <4>2. CandidateOf(o).fired < signals[i].fired
        BY <1>6, <1>10, <2>1, <2>3, <3>2, <4>1, GatePassed
      <4> QED BY <1>8, <4>2, Zenon
    <3> QED BY <3>1, <3>2
  <2> QED BY <2>1, <2>2, <2>3 DEF MayAdd
<1>11. m.seen <= Len(signals)
  BY <1>4, Zenon
<1> QED BY <1>2, <1>3, <1>4, <1>5, <1>7, <1>9, <1>10, <1>11, PassStep

LEMMA CooldownGateStep == ASSUME FlowInv, NEW w \in Workers, CooldownGate(w) PROVE FlowInv'
<1> DEFINE stops == CooldownRows(CandidateOf(mem[w])) # {}
<1>1. /\ pc[w] = "cooldown"
      /\ IF stops
         THEN Goto(w, "persist") /\ Keep(w, [mem[w] EXCEPT !.verdict = "cooldown_suppressed"])
         ELSE Goto(w, "dedup") /\ Keep(w, [mem[w] EXCEPT !.seen = Len(signals)])
      /\ UNCHANGED <<now, features, detects, signals, suppressed, slots, scheduled, failures>>
  BY CandidateIs DEF CooldownGate, Gate, At
<1>2. Len(signals) \in Nat /\ Len(signals) <= Len(signals)
  <2>1. Len(signals) \in Nat
    BY InHand
  <2> QED BY <2>1
<1>3. CASE stops
  BY <1>1, <1>3, PlacesAre, GateStops
<1>4. CASE ~stops
  <2>1. "dedup" \in Gates /\ "dedup" \notin {"rate", "cap"}
    BY PlacesAre
  <2>2. \A b \in Bursts : "dedup" \notin Before(b) => b.gate = "cooldown"
    BY DEF Before, Bursts
  <2>3. \A b \in Bursts : b.gate = "cooldown" => b.gate # "rate"
    OBVIOUS
  <2> QED BY <1>1, <1>2, <1>4, <2>1, <2>2, <2>3, GatePasses
<1> QED BY <1>3, <1>4

LEMMA DedupGateStep == ASSUME FlowInv, NEW w \in Workers, DedupGate(w) PROVE FlowInv'
<1> DEFINE x == CandidateOf(mem[w])
           stops == DedupRows(x) # {}
<1>1. /\ pc[w] = "dedup"
      /\ IF stops
         THEN Goto(w, "persist") /\ Keep(w, [mem[w] EXCEPT !.verdict = "dedup_suppressed"])
         ELSE Goto(w, "rate") /\ Keep(w, [mem[w] EXCEPT !.seen = mem[w].seen])
      /\ UNCHANGED <<now, features, detects, signals, suppressed, slots, scheduled, failures>>
  BY CandidateIs DEF DedupGate, Gate, At
<1>2. /\ Len(signals) \in Nat /\ mem[w].seen <= Len(signals) /\ mem[w].seen \in Nat
      /\ TypeInv
  BY InHand
<1>3. CASE stops
  BY <1>1, <1>3, PlacesAre, GateStops
<1>4. CASE ~stops
  <2>1. "rate" \in Gates
    BY PlacesAre
  <2>2. \A b \in Bursts : ("rate" \notin Before(b)) <=> ("dedup" \notin Before(b))
    BY DEF Before
  <2>3. ASSUME NEW i \in 1 .. mem[w].seen, Dedups(signals[i], x) PROVE FALSE
    <3>1. i \in Ids /\ signals[i] \in Signal /\ signals[i].fired \in Nat
      <4>1. i \in 1 .. Len(signals)
        BY <1>2
      <4> QED BY <1>2, <4>1, Typed
    <3>2. x.fired = mem[w].fired
      BY DEF CandidateOf
    <3>3. /\ Symbol[signals[i].stream] = Symbol[x.stream] /\ signals[i].dir = x.dir
          /\ Rank[signals[i].stream] > Rank[x.stream]
          /\ signals[i].fired <= x.fired /\ x.fired <= signals[i].fired + DedupWindow
      BY <2>3 DEF Dedups
    <3>4. x.fired - DedupWindow <= signals[i].fired
      <4>1. mem[w].fired \in 0 .. MaxNow
        BY InHand
      <4>2. x.fired \in Nat /\ DedupWindow \in Nat
        BY <3>2, <4>1, ConstantsTyped
      <4> HIDE DEF x
      <4> QED BY <3>1, <3>3, <4>2
    <3>5. i \in DedupRows(x)
      BY <3>1, <3>3, <3>4 DEF DedupRows, Triaged
    <3> QED BY <1>4, <3>5
  <2> QED BY <1>1, <1>2, <1>4, <2>1, <2>2, <2>3, GatePasses
<1> QED BY <1>3, <1>4

LEMMA RateGateStep == ASSUME FlowInv, NEW w \in Workers, RateGate(w) PROVE FlowInv'
<1> DEFINE x == CandidateOf(mem[w])
           stops == RateLimited(x)
<1>1. /\ pc[w] = "rate"
      /\ IF stops
         THEN Goto(w, "persist") /\ Keep(w, [mem[w] EXCEPT !.verdict = "rate_limited"])
         ELSE Goto(w, "cap") /\ Keep(w, [mem[w] EXCEPT !.seen = mem[w].seen])
      /\ UNCHANGED <<now, features, detects, signals, suppressed, slots, scheduled, failures>>
  BY CandidateIs DEF RateGate, Gate, At
<1>2. /\ Len(signals) \in Nat /\ mem[w].seen <= Len(signals) /\ mem[w].seen \in Nat
      /\ TaskOK(pc[w], mem[w], features, signals, now)
  BY InHand
<1>3. CASE stops
  BY <1>1, <1>3, PlacesAre, GateStops
<1>4. CASE ~stops
  <2>1. "cap" \in Gates
    BY PlacesAre
  <2>2. \A b \in Bursts : /\ "cap" \notin Before(b)
                          /\ "rate" \in Before(b) => b.gate # "cooldown"
    BY DEF Before
  <2>3. \A i \in 1 .. mem[w].seen : ~Dedups(signals[i], x)
    BY <1>1, <1>2 DEF TaskOK, Deduped
  <2> QED BY <1>1, <1>2, <1>4, <2>1, <2>2, <2>3, GatePasses
<1> QED BY <1>3, <1>4


\* What one more slot does to the slots up to the cap.
LEMMA CappedNext ==
  ASSUME NEW n \in Nat
  PROVE  /\ n + 1 <= DailyCap => Capped(n + 1) = Capped(n) + 1
         /\ ~(n + 1 <= DailyCap) => Capped(n + 1) = Capped(n)
<1>1. n + 1 \in Nat /\ DailyCap \in Nat
  BY ConstantsTyped
<1> DEFINE k == n + 1
<1>2. Capped(n) = IF n <= DailyCap THEN n ELSE DailyCap
  BY CappedIs
<1>3. k \in Nat /\ k = n + 1
  BY <1>1
<1> HIDE DEF k
<1>4. Capped(k) = IF k <= DailyCap THEN k ELSE DailyCap
  BY <1>3, CappedIs
<1>5. /\ k <= DailyCap => Capped(k) = Capped(n) + 1
      /\ ~(k <= DailyCap) => Capped(k) = Capped(n)
  BY <1>1, <1>2, <1>3, <1>4
<1> QED BY <1>3, <1>5

LEMMA CapGateStep == ASSUME FlowInv, NEW w \in Workers, CapGate(w) PROVE FlowInv'
<1> DEFINE o == mem[w]
           d == DayOf(o.fired)
           verdict == IF slots'[d] <= DailyCap THEN "claude_triaged" ELSE "daily_cap_hit"
           m == [o EXCEPT !.verdict = verdict]
<1>1. /\ pc[w] = "cap" /\ Goto(w, "persist") /\ Keep(w, m)
      /\ slots' = [slots EXCEPT ![d] = @ + 1]
      /\ UNCHANGED <<now, features, detects, signals, suppressed, scheduled, failures>>
  BY DEF CapGate, Reserve, At
<1>2. /\ TypeInv /\ o \in Local /\ o.verdict = "" /\ o.id = 0 /\ o.fired <= now
      /\ o.seen <= Len(signals) /\ TaskOK(pc[w], o, features, signals, now)
      /\ o.fired \in 0 .. MaxNow /\ Len(signals) \in Nat
  BY <1>1, InHand
<1>3. TypeInv /\ BurstInv /\ DedupExplained /\ SlotsExplained /\ OutcomesExplained
  BY DEF FlowInv
<1>4. d \in Days /\ slots \in [Days -> Nat] /\ slots[d] \in Nat
  BY <1>2, DayTyped DEF TypeInv
<1>5. /\ slots' \in [Days -> Nat] /\ slots'[d] = slots[d] + 1
      /\ \A e \in Days : e # d => slots'[e] = slots[e]
  <2> HIDE DEF d
  <2> QED BY <1>1, <1>4
<1>6. verdict \in {"claude_triaged", "daily_cap_hit"} /\ verdict \in Outcomes /\ verdict # ""
  BY PlacesAre
<1> HIDE DEF verdict
<1>7. m \in Local
  BY <1>2, <1>6 DEF Local
<1>8. /\ m.task = o.task /\ m.found = o.found /\ m.id = o.id
      /\ m.seen = o.seen /\ m.fired = o.fired /\ m.verdict = verdict
  BY <1>2 DEF Local
<1> HIDE DEF m
<1>9. /\ CandidateOf(m).fired = CandidateOf(o).fired
      /\ CandidateOf(m).dir = CandidateOf(o).dir
      /\ CandidateOf(m).stream = CandidateOf(o).stream
      /\ \A b : Hits(b, CandidateOf(m)) <=> Hits(b, CandidateOf(o))
  BY <1>8, SameHits
<1>10. TaskOK("persist", m, features, signals, now)
  <2>1. ASSUME NEW i \in 1 .. m.seen PROVE ~Dedups(signals[i], CandidateOf(m))
    <3>1. ~Dedups(signals[i], CandidateOf(o))
      BY <1>1, <1>2, <1>8, <2>1 DEF TaskOK, Deduped
    <3> QED BY <1>9, <3>1 DEF Dedups
  <2>2. m.found # {}
    BY <1>1, <1>2, <1>8, PlacesAre DEF TaskOK
  <2>3. m.id = 0 /\ m.seen <= Len(signals) /\ m.fired <= now
    BY <1>2, <1>8, Zenon
  <2>4. m.id <= Len(signals)
    <3>1. 0 <= Len(signals)
      BY InHand
    <3> QED BY <2>3, <3>1, Zenon
  <2>5. m.verdict # ""
    BY <1>6, <1>8
  <2>6. /\ m.verdict # "" <=> "persist" = "persist"
        /\ m.id # 0 <=> "persist" = "schedule"
    BY <2>3, <2>5
  <2>7. /\ "persist" \in Places /\ "persist" # "idle" /\ pc[w] # "idle"
        /\ m.found \subseteq o.found
    BY <1>1, <1>8, PlacesAre
  <2> HIDE DEF o
  <2> QED BY <1>2, <1>7, <1>8, <2>1, <2>2, <2>3, <2>4, <2>6, <2>7, TaskMoved
<1>11. /\ TypeInv'
       /\ pc' = [v \in Workers |-> IF v = w THEN "persist" ELSE pc[v]]
       /\ mem' = [v \in Workers |-> IF v = w THEN m ELSE mem[v]]
  <2>1. /\ signals' \in Seq(Signal) /\ scheduled' \subseteq Ids'
        /\ failures' \in 0 .. MaxFailures /\ Extends(signals, signals')
        /\ \A i \in Ids' : signals'[i].seen <= Len(signals') /\ signals'[i].fired <= now
        /\ \A t \in detects' : MessageOK(t, features)
        /\ suppressed' \subseteq Outcomes \ {"claude_triaged"}
        /\ UNCHANGED <<now, features>>
    BY <1>1, <1>2, Typed DEF TypeInv, Ids
  <2>2. slots' \in [Days -> Nat]
    BY <1>5
  <2>3. Goto(w, "persist") /\ Keep(w, m)
    BY <1>1
  <2> HIDE DEF o, d
  <2>4. TaskOK("persist", m, features, signals', now)
    BY <1>1, <1>10
  <2> QED BY <1>2, <2>1, <2>2, <2>3, <2>4, TypeMoves
<1>12. BurstInv'
  <2>1. ASSUME NEW b \in Bursts, MayAdd(b, "persist", m, signals)
        PROVE  MayAdd(b, pc[w], mem[w], signals)
    <3>1. Hits(b, CandidateOf(o))
      BY <1>9, <2>1 DEF MayAdd
    <3>2. pc[w] \in Gates /\ pc[w] \notin Before(b)
      BY <1>1, PlacesAre DEF Before
    <3> QED BY <3>1, <3>2 DEF MayAdd
  <2>2. signals' = signals
    BY <1>1
  <2> QED BY <1>3, <1>11, <2>1, <2>2, BurstQuiet
<1>13. DedupExplained'
  BY <1>1, <1>3 DEF DedupExplained, Ids
<1>14. SlotsExplained'
  <2> SUFFICES ASSUME NEW e \in Days
               PROVE  /\ Cardinality(RowsOf(e)') + Cardinality(Holding(e)') <= Capped(slots'[e])
                      /\ Capped(slots'[e]) <= Cardinality(RowsOf(e)') + Cardinality(Holding(e)') + failures
    BY <1>1 DEF SlotsExplained, RowsOf, Capped
  <2> DEFINE H == Holding(e)
             G == Holding(e)'
  <2>1. RowsOf(e)' = RowsOf(e)
    BY <1>1 DEF RowsOf, Ids
  <2>2. /\ Cardinality(RowsOf(e)) + Cardinality(H) <= Capped(slots[e])
        /\ Capped(slots[e]) <= Cardinality(RowsOf(e)) + Cardinality(H) + failures
    BY <1>3, SlotsAre
  <2>3. /\ IsFiniteSet(H) /\ Cardinality(H) \in Nat /\ Cardinality(RowsOf(e)) \in Nat
        /\ slots[e] \in Nat /\ Capped(slots[e]) \in Nat /\ failures \in Nat
    BY <1>2, SlotsTyped, Typed
  <2>4. G = {u \in Workers : mem'[u].verdict = "claude_triaged" /\ DayOf(mem'[u].fired) = e}
    BY DEF Holding
  <2>5. w \notin H
    BY <1>2 DEF Holding
  <2>6. CASE e = d /\ slots[d] + 1 <= DailyCap
    <3>1. verdict = "claude_triaged"
      BY <1>5, <2>6 DEF verdict
    <3>2. G = H \cup {w}
      BY <1>8, <1>11, <2>4, <2>5, <2>6, <3>1 DEF Holding
    <3>3. Cardinality(G) = Cardinality(H) + 1
      <4> HIDE DEF G, H
      <4> QED BY <2>3, <2>5, <3>2, FS_AddElement
    <3>4. Capped(slots'[e]) = Capped(slots[e]) + 1
      BY <1>4, <1>5, <2>6, CappedNext
    <3> HIDE DEF G, H
    <3>5. /\ Cardinality(RowsOf(e)) + Cardinality(G) <= Capped(slots'[e])
          /\ Capped(slots'[e]) <= Cardinality(RowsOf(e)) + Cardinality(G) + failures
      BY <2>2, <2>3, <3>3, <3>4
    <3> QED BY <2>1, <3>5 DEF G
  <2>7. CASE ~(e = d /\ slots[d] + 1 <= DailyCap)
    <3>1. Capped(slots'[e]) = Capped(slots[e])
      <4>1. CASE e = d
        BY <1>4, <1>5, <2>7, <4>1, CappedNext
      <4>2. CASE e # d
        BY <1>5, <4>2
      <4> QED BY <4>1, <4>2
    <3>2. ~(m.verdict = "claude_triaged" /\ DayOf(m.fired) = e)
      <4>1. CASE e = d
        <5>1. ~(slots'[d] <= DailyCap)
          BY <1>5, <2>7, <4>1
        <5> QED BY <1>8, <5>1 DEF verdict
      <4>2. CASE e # d
        BY <1>8, <4>2
      <4> QED BY <4>1, <4>2
    <3>3. G = H
      <4> SUFFICES ASSUME NEW u \in Workers PROVE u \in G <=> u \in H
        BY <2>4 DEF Holding
      <4>1. CASE u = w
        <5>1. mem'[u] = m
          BY <1>11, <4>1
        <5> QED BY <2>4, <2>5, <3>2, <4>1, <5>1
      <4>2. CASE u # w
        <5>1. mem'[u] = mem[u]
          BY <1>11, <4>2
        <5> QED BY <2>4, <5>1 DEF Holding
      <4> QED BY <4>1, <4>2
    <3> QED BY <2>1, <2>2, <3>1, <3>3
  <2> QED BY <2>6, <2>7
<1>15. OutcomesExplained'
  <2>1. \A u \in Workers : mem'[u].id = mem[u].id
    BY <1>8, <1>11
  <2>2. Unscheduled' = Unscheduled
    BY <1>1, <2>1 DEF Unscheduled, Ids
  <2> QED BY <1>1, <1>3, <2>2 DEF OutcomesExplained
<1> QED BY <1>11, <1>12, <1>13, <1>14, <1>15 DEF FlowInv

\* A row that is not triaged is inserted.
LEMMA PersistStopped ==
  ASSUME FlowInv, NEW w \in Workers, Persist(w), mem[w].verdict # "claude_triaged"
  PROVE  FlowInv'
<1> DEFINE o == mem[w]
           m == Handled(w)
<1>1. /\ pc[w] = "persist" /\ Goto(w, "detect") /\ Keep(w, m)
      /\ suppressed' = suppressed \cup {o.verdict}
      /\ UNCHANGED <<now, features, detects, signals, slots, scheduled, failures>>
  BY DEF Persist, At
<1>2. /\ o \in Local /\ o.id = 0 /\ TaskOK(pc[w], o, features, signals, now)
      /\ Len(signals) \in Nat /\ now \in Nat
      /\ \A u \in detects : MessageOK(u, features)
      /\ suppressed \subseteq Outcomes \ {"claude_triaged"}
  BY <1>1, InHand
<1>3. /\ m.task = o.task /\ m.found = o.found \ {Sig(w)} /\ m.id = o.id
      /\ m.seen = 0 /\ m.fired = 0 /\ m.verdict = ""
  BY <1>2 DEF Handled, Local
<1>4. m \in Local
  <2>1. 0 \in 0 .. MaxNow
    BY ConstantsTyped
  <2> QED BY <1>2, <2>1 DEF Handled, Local
<1> HIDE DEF m
<1>5. TaskOK("detect", m, features, signals, now)
  <2>1. 0 <= Len(signals) /\ 0 <= now
    BY <1>2
  <2>2. m.id <= Len(signals) /\ m.seen <= Len(signals) /\ m.fired <= now
    BY <1>2, <1>3, <2>1, Zenon
  <2>3. /\ "detect" \in Places /\ "detect" \notin Gates \cup {"persist"}
        /\ m.found \subseteq o.found /\ ~Deduped("detect", m) /\ pc[w] # "idle"
    BY <1>1, <1>3, PlacesAre DEF Deduped
  <2>4. /\ m.verdict # "" <=> "detect" = "persist"
        /\ m.id # 0 <=> "detect" = "schedule"
    BY <1>2, <1>3
  <2> HIDE DEF o
  <2> QED BY <1>2, <1>3, <1>4, <2>2, <2>3, <2>4, TaskMoved
<1>6. suppressed' \subseteq Outcomes \ {"claude_triaged"}
  <2>1. o.verdict \in Outcomes \cup {""} /\ o.verdict # ""
    BY <1>1, <1>2 DEF Local, TaskOK
  <2> QED BY <1>1, <1>2, <2>1
<1>7. \A b \in Bursts : ~MayAdd(b, "detect", m, signals)
  BY <1>3, PlacesAre DEF MayAdd
<1>8. m.id = mem[w].id /\ m.verdict # "claude_triaged"
  BY <1>3
<1>9. \A u \in detects' : MessageOK(u, features)
  BY <1>1, <1>2
<1> QED BY <1>1, <1>5, <1>6, <1>7, <1>8, <1>9, QuietStep


\* The row of a triaged signal: the slot of its day is no longer held, and its
\* outcomes are in the hands of w.
LEMMA PersistTriaged ==
  ASSUME FlowInv, NEW w \in Workers, Persist(w), mem[w].verdict = "claude_triaged"
  PROVE  FlowInv'
<1> DEFINE o == mem[w]
           x == CandidateOf(o)
           n == Len(signals)
           m == [Handled(w) EXCEPT !.id = n + 1]
<1>1. /\ pc[w] = "persist" /\ Goto(w, "schedule") /\ Keep(w, m)
      /\ signals' = Append(signals, x)
      /\ UNCHANGED <<now, features, detects, suppressed, slots, scheduled, failures>>
  BY CandidateIs DEF Persist, At
<1>2. /\ TypeInv /\ o \in Local /\ o.id = 0 /\ TaskOK(pc[w], o, features, signals, now)
      /\ n \in Nat /\ now \in Nat /\ o.seen <= n /\ o.seen \in Nat /\ o.fired <= now
      /\ o.fired \in 0 .. MaxNow
      /\ \A u \in detects : MessageOK(u, features)
      /\ suppressed \subseteq Outcomes \ {"claude_triaged"}
  BY <1>1, InHand
<1>3. TypeInv /\ BurstInv /\ DedupExplained /\ SlotsExplained /\ OutcomesExplained
  BY DEF FlowInv
<1>4. o.found # {} /\ \A i \in 1 .. o.seen : ~Dedups(signals[i], x)
  BY <1>1, <1>2 DEF TaskOK, Deduped
<1>5. x \in Signal /\ x.fired = o.fired /\ x.seen = o.seen
  <2>1. x.fired = o.fired /\ x.seen = o.seen
    BY DEF CandidateOf
  <2>2. pc[w] # "idle"
    BY <1>1
  <2> QED BY <1>2, <1>4, <2>1, <2>2, CandidateTyped
<1>6. n + 1 \in Nat
  BY <1>2
<1>7. /\ m.task = o.task /\ m.found = o.found \ {Sig(w)} /\ m.id = n + 1
      /\ m.seen = 0 /\ m.fired = 0 /\ m.verdict = ""
  <2> HIDE DEF n
  <2> QED BY <1>2 DEF Handled, Local
<1>8. m \in Local
  <2>1. 0 \in 0 .. MaxNow
    BY ConstantsTyped
  <2> HIDE DEF n
  <2> QED BY <1>2, <1>6, <2>1 DEF Handled, Local
<1>9. signals \in Seq(Signal) /\ Ids = 1 .. n
      /\ \A i \in Ids : signals[i].seen <= Len(signals) /\ signals[i].fired <= now
  BY <1>3, Typed DEF TypeInv
<1> HIDE DEF m, x
<1>10. /\ signals' \in Seq(Signal) /\ Len(signals') = n + 1 /\ signals'[n + 1] = x
       /\ Ids' = 1 .. n + 1 /\ \A i \in 1 .. n : signals'[i] = signals[i]
  BY <1>1, <1>2, <1>5, <1>9 DEF Ids
<1>11. Extends(signals, signals')
  <2>1. n <= n + 1 /\ n + 1 \in Nat
    BY <1>2
  <2> QED BY <1>2, <1>10, <2>1 DEF Extends
<1>12. TaskOK("schedule", m, features, signals', now)
  <2>1. TaskOK(pc[w], o, features, signals', now)
    <3>1. now <= now
      BY <1>2
    <3> QED BY <1>2, <1>11, <3>1, TaskKept
  <2>2. m.id <= Len(signals') /\ m.seen <= Len(signals') /\ m.fired <= now
    <3>1. n + 1 <= n + 1 /\ 0 <= n + 1 /\ 0 <= now
      BY <1>2
    <3> QED BY <1>7, <1>10, <3>1, Zenon
  <2>3. /\ "schedule" \in Places /\ "schedule" \notin Gates \cup {"persist"}
        /\ m.found \subseteq o.found /\ ~Deduped("schedule", m) /\ pc[w] # "idle"
    BY <1>1, <1>7, PlacesAre DEF Deduped
  <2>4. /\ m.verdict # "" <=> "schedule" = "persist"
        /\ m.id # 0 <=> "schedule" = "schedule"
    <3>1. n + 1 # 0
      BY <1>2
    <3> QED BY <1>7, <3>1
  <2> HIDE DEF o
  <2> QED BY <1>7, <1>8, <2>1, <2>2, <2>3, <2>4, TaskMoved
<1>13. /\ TypeInv'
       /\ pc' = [v \in Workers |-> IF v = w THEN "schedule" ELSE pc[v]]
       /\ mem' = [v \in Workers |-> IF v = w THEN m ELSE mem[v]]
  <2>1. \A i \in Ids' : signals'[i].seen <= Len(signals') /\ signals'[i].fired <= now
    <3> SUFFICES ASSUME NEW i \in 1 .. n + 1
                 PROVE  signals'[i].seen <= n + 1 /\ signals'[i].fired <= now
      BY <1>10
    <3>1. CASE i = n + 1
      <4>1. signals'[i].seen = o.seen /\ signals'[i].fired = o.fired
        BY <1>5, <1>10, <3>1
      <4>2. o.seen <= n + 1
        BY <1>2
      <4> QED BY <1>2, <4>1, <4>2, Zenon
    <3>2. CASE i # n + 1
      <4>1. i \in 1 .. n
        BY <1>2, <3>2
      <4>2. signals[i].seen <= n /\ signals[i].fired <= now /\ signals[i] \in Signal
        BY <1>9, <4>1
      <4>3. signals[i].seen \in Nat
        BY <4>2 DEF Signal
      <4>4. signals[i].seen <= n + 1
        BY <1>2, <4>2, <4>3
      <4> QED BY <1>10, <4>1, <4>2, <4>4
    <3> QED BY <3>1, <3>2
  <2>2. scheduled' \subseteq Ids'
    <3>1. scheduled \subseteq 1 .. n
      BY <1>3, <1>9 DEF TypeInv
    <3>2. 1 .. n \subseteq 1 .. n + 1
      BY <1>2
    <3> QED BY <1>1, <1>10, <3>1, <3>2
  <2>3. /\ failures' \in 0 .. MaxFailures /\ slots' \in [Days -> Nat]
        /\ \A t \in detects' : MessageOK(t, features)
        /\ suppressed' \subseteq Outcomes \ {"claude_triaged"}
        /\ UNCHANGED <<now, features>>
    BY <1>1, <1>2 DEF TypeInv
  <2>4. Goto(w, "schedule") /\ Keep(w, m)
    BY <1>1
  <2> HIDE DEF n, o
  <2> QED BY <1>3, <1>10, <1>11, <1>12, <2>1, <2>2, <2>3, <2>4, TypeMoves
<1>14. BurstInv'
  <2>1. "schedule" \notin Gates /\ m.verdict # "claude_triaged"
    BY <1>7, PlacesAre
  <2>2. signals' = Append(signals, CandidateOf(mem[w]))
    BY <1>1 DEF x
  <2> QED BY <1>1, <1>3, <1>13, <2>1, <2>2, BurstAppend
<1>15. DedupExplained'
  <2> SUFFICES ASSUME NEW i \in 1 .. n + 1, NEW j \in 1 .. n + 1,
                      Dedups(signals'[i], signals'[j])
               PROVE  signals'[j].seen < i
    BY <1>10 DEF DedupExplained, Dedups
  <2>1. CASE j = n + 1
    <3>1. signals'[j] = x
      BY <1>10, <2>1
    <3>2. i \notin 1 .. o.seen
      <4> SUFFICES ASSUME i \in 1 .. o.seen PROVE FALSE
        OBVIOUS
      <4>1. i \in 1 .. n
        BY <1>2
      <4>2. Dedups(signals[i], x)
        BY <1>10, <3>1, <4>1
      <4> QED BY <1>4, <4>2
    <3>3. o.seen < i
      BY <1>2, <3>2
    <3> QED BY <1>5, <3>1, <3>3, Zenon
  <2>2. CASE j # n + 1 /\ i # n + 1
    <3>1. i \in 1 .. n /\ j \in 1 .. n
      BY <1>2, <2>2
    <3>2. signals'[i] = signals[i] /\ signals'[j] = signals[j]
      BY <1>10, <3>1
    <3>3. Dedups(signals[i], signals[j]) => signals[j].seen < i
      BY <1>3, <1>9, <3>1 DEF DedupExplained, Dedups
    <3> QED BY <3>2, <3>3
  <2>3. CASE j # n + 1 /\ i = n + 1
    <3>1. j \in 1 .. n
      BY <1>2, <2>3
    <3>2. signals'[j] = signals[j] /\ signals[j].seen <= n /\ signals[j] \in Signal
      BY <1>9, <1>10, <3>1
    <3>3. signals[j].seen \in Nat
      BY <3>2 DEF Signal
    <3>4. signals[j].seen < n + 1
      BY <1>2, <3>2, <3>3
    <3> QED BY <2>3, <3>2, <3>4
  <2> QED BY <2>1, <2>2, <2>3
<1>16. SlotsExplained'
  <2> SUFFICES ASSUME NEW e \in Days
               PROVE  /\ Cardinality(RowsOf(e)') + Cardinality(Holding(e)') <= Capped(slots[e])
                      /\ Capped(slots[e]) <= Cardinality(RowsOf(e)') + Cardinality(Holding(e)') + failures
    BY <1>1 DEF SlotsExplained, RowsOf, Capped
  <2> DEFINE H == Holding(e)
             G == Holding(e)'
             R == RowsOf(e)
             S == RowsOf(e)'
  <2>1. R = {i \in 1 .. n : DayOf(signals[i].fired) = e}
    BY <1>9 DEF RowsOf
  <2>2. S = {i \in 1 .. n + 1 : DayOf(signals'[i].fired) = e}
    BY <1>10 DEF RowsOf
  <2>3. /\ Cardinality(R) + Cardinality(H) <= Capped(slots[e])
        /\ Capped(slots[e]) <= Cardinality(R) + Cardinality(H) + failures
    BY <1>3, SlotsAre
  <2>4. /\ IsFiniteSet(H) /\ Cardinality(H) \in Nat /\ IsFiniteSet(R) /\ Cardinality(R) \in Nat
        /\ Capped(slots[e]) \in Nat /\ failures \in Nat
    BY <1>3, SlotsTyped, Typed
  <2>5. H = {u \in Workers : mem[u].verdict = "claude_triaged" /\ DayOf(mem[u].fired) = e}
    BY DEF Holding
  <2>6. G = {u \in Workers : mem'[u].verdict = "claude_triaged" /\ DayOf(mem'[u].fired) = e}
    BY DEF Holding
  <2>7. w \notin G /\ \A u \in Workers : u # w => mem'[u] = mem[u]
    BY <1>7, <1>13, <2>6
  <2>8. \A i \in 1 .. n : i \in 1 .. n + 1 /\ i # n + 1
    BY <1>2
  <2>9. n + 1 \in 1 .. n + 1
    BY <1>2
  <2>10. \A i \in 1 .. n + 1 : i # n + 1 => i \in 1 .. n
    BY <1>2
  <2> HIDE DEF n, G, H, R, S
  <2>11. CASE DayOf(o.fired) = e
    <3>1. S = R \cup {n + 1} /\ n + 1 \notin R
      BY <1>5, <1>10, <2>1, <2>2, <2>8, <2>9, <2>10, <2>11
    <3>2. Cardinality(S) = Cardinality(R) + 1
      BY <2>4, <3>1, FS_AddElement
    <3>3. w \in H /\ G = H \ {w}
      BY <2>5, <2>6, <2>7, <2>11
    <3>4. Cardinality(G) = Cardinality(H) - 1
      BY <2>4, <3>3, FS_RemoveElement
    <3>5. /\ Cardinality(S) + Cardinality(G) <= Capped(slots[e])
          /\ Capped(slots[e]) <= Cardinality(S) + Cardinality(G) + failures
      BY <2>3, <2>4, <3>2, <3>4
    <3> QED BY <3>5 DEF S, G
  <2>12. CASE DayOf(o.fired) # e
    <3>1. S = R
      BY <1>5, <1>10, <2>1, <2>2, <2>8, <2>10, <2>12
    <3>2. G = H
      BY <2>5, <2>6, <2>7, <2>12
    <3> QED BY <2>3, <3>1, <3>2 DEF S, G
  <2> QED BY <2>11, <2>12
<1>17. OutcomesExplained'
  <2>1. \A u \in Workers : u # w => mem'[u] = mem[u]
    BY <1>13
  <2>2. mem'[w].id = n + 1
    BY <1>7, <1>13
  <2>3. \A i \in Ids' : i # n + 1 => i \in Ids /\ i # 0
    BY <1>2, <1>9, <1>10
  <2>4. \A i \in Ids : i \in Ids' /\ i # n + 1
    BY <1>2, <1>9, <1>10
  <2> HIDE DEF n
  <2>5. Unscheduled' \subseteq Unscheduled
    <3> SUFFICES ASSUME NEW i \in Ids', i \notin scheduled, \A u \in Workers : mem'[u].id # i
                 PROVE  i \in Unscheduled
      BY <1>1 DEF Unscheduled
    <3>1. i \in Ids /\ i # 0
      BY <2>2, <2>3
    <3>2. \A u \in Workers : mem[u].id # i
      BY <1>2, <2>1, <3>1
    <3> QED BY <3>1, <3>2 DEF Unscheduled
  <2> DEFINE U == Unscheduled
             V == Unscheduled'
  <2>6. IsFiniteSet(U) /\ Cardinality(U) \in Nat /\ Cardinality(U) <= failures /\ failures \in Nat
    BY <1>3, UnscheduledTyped, Typed DEF OutcomesExplained
  <2>7. V \subseteq U
    BY <2>5
  <2> HIDE DEF U, V
  <2>8. Cardinality(V) \in Nat /\ Cardinality(V) <= Cardinality(U)
    BY <2>6, <2>7, FS_Subset, FS_CardinalityType
  <2>9. Cardinality(V) <= failures
    BY <2>6, <2>8
  <2> QED BY <1>1, <2>9 DEF OutcomesExplained, V
<1> QED BY <1>13, <1>14, <1>15, <1>16, <1>17 DEF FlowInv

LEMMA ScheduleStep == ASSUME FlowInv, NEW w \in Workers, Schedule(w) PROVE FlowInv'
<1> DEFINE o == mem[w]
           m == [o EXCEPT !.id = 0]
<1>1. /\ pc[w] = "schedule" /\ Goto(w, "detect") /\ Keep(w, m)
      /\ scheduled' = scheduled \cup {o.id}
      /\ UNCHANGED <<now, features, detects, signals, suppressed, slots, failures>>
  BY DEF Schedule, At
<1>2. /\ TypeInv /\ o \in Local /\ o.verdict = "" /\ o.fired <= now
      /\ o.seen <= Len(signals) /\ TaskOK(pc[w], o, features, signals, now)
      /\ o.id \in Nat /\ Len(signals) \in Nat
  BY <1>1, InHand
<1>3. TypeInv /\ BurstInv /\ DedupExplained /\ SlotsExplained /\ OutcomesExplained
  BY DEF FlowInv
<1>4. o.id \in Ids
  <2>1. o.id # 0 /\ o.id <= Len(signals) /\ Ids = 1 .. Len(signals)
    BY <1>1, <1>2, Typed DEF TaskOK
  <2> DEFINE k == o.id
             n == Len(signals)
  <2>2. k \in Nat /\ n \in Nat /\ k # 0 /\ k <= n
    BY <1>2, <2>1
  <2> HIDE DEF k, n
  <2>3. k \in 1 .. n
    BY <2>2
  <2> QED BY <2>1, <2>3 DEF k, n
<1>5. m \in Local
  BY <1>2 DEF Local
<1>6. /\ m.task = o.task /\ m.found = o.found /\ m.id = 0
      /\ m.seen = o.seen /\ m.fired = o.fired /\ m.verdict = ""
  BY <1>2 DEF Local
<1> HIDE DEF m
<1>7. TaskOK("detect", m, features, signals', now)
  <2>1. m.id <= Len(signals) /\ m.seen <= Len(signals) /\ m.fired <= now
    <3>1. 0 <= Len(signals)
      BY InHand
    <3> QED BY <1>2, <1>6, <3>1, Zenon
  <2>2. /\ "detect" \in Places /\ "detect" \notin Gates \cup {"persist"}
        /\ m.found \subseteq o.found /\ ~Deduped("detect", m) /\ pc[w] # "idle"
    BY <1>1, <1>6, PlacesAre DEF Deduped
  <2>3. /\ m.verdict # "" <=> "detect" = "persist"
        /\ m.id # 0 <=> "detect" = "schedule"
    BY <1>6
  <2>4. signals' = signals
    BY <1>1
  <2> HIDE DEF o
  <2> QED BY <1>2, <1>5, <1>6, <2>1, <2>2, <2>3, <2>4, TaskMoved
<1>8. /\ TypeInv'
      /\ pc' = [v \in Workers |-> IF v = w THEN "detect" ELSE pc[v]]
      /\ mem' = [v \in Workers |-> IF v = w THEN m ELSE mem[v]]
  <2>1. /\ signals' \in Seq(Signal) /\ failures' \in 0 .. MaxFailures
        /\ Extends(signals, signals') /\ slots' \in [Days -> Nat]
        /\ \A i \in Ids' : signals'[i].seen <= Len(signals') /\ signals'[i].fired <= now
        /\ \A t \in detects' : MessageOK(t, features)
        /\ suppressed' \subseteq Outcomes \ {"claude_triaged"}
        /\ UNCHANGED <<now, features>>
    BY <1>1, <1>2, Typed DEF TypeInv, Ids
  <2>2. scheduled' \subseteq Ids'
    BY <1>1, <1>2, <1>4 DEF TypeInv, Ids
  <2>3. Goto(w, "detect") /\ Keep(w, m)
    BY <1>1
  <2> HIDE DEF o
  <2> QED BY <1>2, <1>7, <2>1, <2>2, <2>3, TypeMoves
<1>9. BurstInv'
  <2>1. \A b \in Bursts : ~MayAdd(b, "detect", m, signals)
    BY <1>6, PlacesAre DEF MayAdd
  <2>2. signals' = signals
    BY <1>1
  <2> QED BY <1>3, <1>8, <2>1, <2>2, BurstQuiet
<1>10. DedupExplained'
  BY <1>1, <1>3 DEF DedupExplained, Ids
<1>11. SlotsExplained'
  <2>1. o.verdict # "claude_triaged" /\ m.verdict # "claude_triaged"
    BY <1>2, <1>6
  <2>2. \A d \in Days : Holding(d)' = Holding(d)
    BY <1>8, <2>1 DEF Holding
  <2> QED BY <1>1, <1>3, <2>2 DEF SlotsExplained, Ids
<1>12. OutcomesExplained'
  <2>1. Unscheduled' \subseteq Unscheduled
    <3> SUFFICES ASSUME NEW i \in Ids, i \notin scheduled, i # o.id,
                        \A u \in Workers : mem'[u].id # i
                 PROVE  i \in Unscheduled
      BY <1>1 DEF Unscheduled, Ids
    <3>1. \A u \in Workers : mem[u].id # i
      BY <1>8
    <3> QED BY <3>1 DEF Unscheduled
  <2> DEFINE U == Unscheduled
             V == Unscheduled'
  <2>6. IsFiniteSet(U) /\ Cardinality(U) \in Nat /\ Cardinality(U) <= failures /\ failures \in Nat
    BY <1>3, UnscheduledTyped, Typed DEF OutcomesExplained
  <2>7. V \subseteq U
    BY <2>1
  <2> HIDE DEF U, V
  <2>8. Cardinality(V) \in Nat /\ Cardinality(V) <= Cardinality(U)
    BY <2>6, <2>7, FS_Subset, FS_CardinalityType
  <2>9. Cardinality(V) <= failures
    BY <2>6, <2>8
  <2> QED BY <1>1, <2>9 DEF OutcomesExplained, V
<1> QED BY <1>8, <1>9, <1>10, <1>11, <1>12 DEF FlowInv


\* An error or the loss of the process: one slot and the outcomes of one row may
\* go with it.
LEMMA LostStep ==
  ASSUME FlowInv, NEW w \in Workers, failures < MaxFailures, failures' = failures + 1,
         Goto(w, "idle"), Keep(w, Idle), \A t \in detects' : MessageOK(t, features),
         UNCHANGED <<now, features, signals, suppressed, slots, scheduled>>
  PROVE  FlowInv'
<1>1. TypeInv /\ BurstInv /\ DedupExplained /\ SlotsExplained /\ OutcomesExplained
  BY DEF FlowInv
<1>2. failures \in Nat /\ failures' \in Nat /\ failures' \in 0 .. MaxFailures
  BY <1>1, Typed, ConstantsTyped
<1>3. Idle.id = 0 /\ Idle.verdict = ""
  BY DEF Idle
<1>4. TaskOK("idle", Idle, features, signals', now)
  BY InHand, IdleOK
<1>5. /\ TypeInv'
      /\ pc' = [v \in Workers |-> IF v = w THEN "idle" ELSE pc[v]]
      /\ mem' = [v \in Workers |-> IF v = w THEN Idle ELSE mem[v]]
  <2>1. /\ signals' \in Seq(Signal) /\ slots' \in [Days -> Nat] /\ scheduled' \subseteq Ids'
        /\ Extends(signals, signals')
        /\ \A i \in Ids' : signals'[i].seen <= Len(signals') /\ signals'[i].fired <= now
        /\ suppressed' \subseteq Outcomes \ {"claude_triaged"}
    BY <1>1, Typed DEF TypeInv, Ids
  <2> QED BY <1>1, <1>2, <1>4, <2>1, TypeMoves
<1>6. BurstInv'
  <2>1. \A b \in Bursts : ~MayAdd(b, "idle", Idle, signals)
    BY <1>3, PlacesAre DEF MayAdd
  <2> QED BY <1>1, <1>5, <2>1, BurstQuiet
<1>7. DedupExplained'
  BY <1>1 DEF DedupExplained, Ids
<1>8. SlotsExplained'
  <2> SUFFICES ASSUME NEW e \in Days
               PROVE  /\ Cardinality(RowsOf(e)) + Cardinality(Holding(e)') <= Capped(slots[e])
                      /\ Capped(slots[e]) <= Cardinality(RowsOf(e)) + Cardinality(Holding(e)') + failures'
    BY DEF SlotsExplained, RowsOf, Capped, Ids
  <2> DEFINE H == Holding(e)
             G == Holding(e)'
             r == Cardinality(RowsOf(e))
             c == Capped(slots[e])
  <2>1. r + Cardinality(H) <= c /\ c <= r + Cardinality(H) + failures
    BY <1>1, SlotsAre
  <2>2. IsFiniteSet(H) /\ Cardinality(H) \in Nat /\ r \in Nat /\ c \in Nat
    BY <1>1, SlotsTyped
  <2>3. G = H \ {w}
    BY <1>3, <1>5 DEF Holding
  <2> HIDE DEF G, H, r, c
  <2>4. Cardinality(G) \in Nat /\ Cardinality(G) <= Cardinality(H) /\ Cardinality(H) <= Cardinality(G) + 1
    <3>1. CASE w \in H
      <4>1. Cardinality(G) = Cardinality(H) - 1 /\ IsFiniteSet(G)
        BY <2>2, <2>3, <3>1, FS_RemoveElement
      <4>2. Cardinality(G) \in Nat
        BY <4>1, FS_CardinalityType
      <4> QED BY <2>2, <4>1, <4>2
    <3>2. CASE w \notin H
      <4>1. G = H
        BY <2>3, <3>2
      <4> QED BY <2>2, <4>1
    <3> QED BY <3>1, <3>2
  <2>5. r + Cardinality(G) <= c /\ c <= r + Cardinality(G) + failures'
    BY <1>2, <2>1, <2>2, <2>4
  <2> QED BY <2>5 DEF G, r, c
<1>9. OutcomesExplained'
  <2> DEFINE U == Unscheduled
             V == Unscheduled'
             A == U \cup {mem[w].id}
  <2>1. V \subseteq A
    <3> SUFFICES ASSUME NEW i \in Ids, i \notin scheduled, i # mem[w].id,
                        \A u \in Workers : mem'[u].id # i
                 PROVE  i \in Unscheduled
      BY DEF Unscheduled, Ids
    <3>1. \A u \in Workers : mem[u].id # i
      BY <1>5
    <3> QED BY <3>1 DEF Unscheduled
  <2>2. IsFiniteSet(U) /\ Cardinality(U) \in Nat /\ Cardinality(U) <= failures
    BY <1>1, UnscheduledTyped DEF OutcomesExplained
  <2> HIDE DEF U, V
  <2>3. IsFiniteSet(A) /\ Cardinality(A) <= Cardinality(U) + 1 /\ Cardinality(A) \in Nat
    <3>1. CASE mem[w].id \in U
      <4>1. A = U
        BY <3>1
      <4>2. Cardinality(U) <= Cardinality(U) + 1
        BY <2>2
      <4> HIDE DEF A
      <4> QED BY <2>2, <4>1, <4>2
    <3>2. CASE mem[w].id \notin U
      <4>1. IsFiniteSet(A) /\ Cardinality(A) = Cardinality(U) + 1
        BY <2>2, <3>2, FS_AddElement
      <4> QED BY <2>2, <4>1
    <3> QED BY <3>1, <3>2
  <2> HIDE DEF A
  <2>4. Cardinality(V) \in Nat /\ Cardinality(V) <= Cardinality(A)
    BY <2>1, <2>3, FS_Subset, FS_CardinalityType
  <2>5. Cardinality(V) <= failures'
    BY <1>2, <2>2, <2>3, <2>4
  <2> QED BY <2>5 DEF OutcomesExplained, V
<1> QED BY <1>5, <1>6, <1>7, <1>8, <1>9 DEF FlowInv

LEMMA RaiseStep == ASSUME FlowInv, NEW w \in Workers, Raise(w) PROVE FlowInv'
<1>1. \A t \in detects' : MessageOK(t, features)
  BY InHand DEF Raise
<1> QED BY <1>1, LostStep DEF Raise

LEMMA LoseStep == ASSUME FlowInv, NEW w \in Workers, Lose(w) PROVE FlowInv'
<1>1. \A t \in mem[w].task : MessageOK(t, features)
  <2>1. TaskOK(pc[w], mem[w], features, signals, now) /\ pc[w] # "idle"
    BY InHand DEF Lose
  <2> QED BY <2>1 DEF TaskOK
<1>2. \A t \in detects' : MessageOK(t, features)
  BY <1>1, InHand DEF Lose
<1> QED BY <1>2, LostStep DEF Lose

\* Time passes, or nothing.
LEMMA TickStep ==
  ASSUME FlowInv, now' \in 0 .. MaxNow, now <= now',
         UNCHANGED <<features, detects, pc, mem, signals, suppressed, slots, scheduled, failures>>
  PROVE  FlowInv'
<1>1. TypeInv /\ BurstInv /\ DedupExplained /\ SlotsExplained /\ OutcomesExplained
  BY DEF FlowInv
<1>2. TypeInv'
  <2>1. now \in Nat /\ now' \in Nat
    BY <1>1, Typed, ConstantsTyped
  <2>2. \A w \in Workers : TaskOK(pc[w], mem[w], features, signals, now')
    BY <1>1, <2>1, Typed, TaskKept
  <2>3. \A i \in Ids : signals[i].seen <= Len(signals) /\ signals[i].fired <= now'
    <3> SUFFICES ASSUME NEW i \in Ids PROVE signals[i].seen <= Len(signals) /\ signals[i].fired <= now'
      OBVIOUS
    <3>1. signals[i].fired \in Nat /\ signals[i].fired <= now
      BY <1>1, Typed
    <3>2. signals[i].fired <= now'
      BY <2>1, <3>1
    <3> QED BY <1>1, <3>2 DEF TypeInv
  <2> QED BY <1>1, <2>2, <2>3 DEF TypeInv, Ids
<1>3. BurstInv'
  BY <1>1 DEF BurstInv, Rows, Pending, Ids, Guarded, Processes
<1>4. DedupExplained' /\ SlotsExplained' /\ OutcomesExplained'
  BY <1>1 DEF DedupExplained, SlotsExplained, OutcomesExplained, Holding, Unscheduled, Ids
<1> QED BY <1>2, <1>3, <1>4 DEF FlowInv

LEMMA NextInv == FlowInv /\ [Next]_vars => FlowInv'
<1> SUFFICES ASSUME FlowInv, [Next]_vars PROVE FlowInv'
  OBVIOUS
<1>1. now \in 0 .. MaxNow /\ now \in Nat /\ MaxNow \in Nat
  BY Typed, ConstantsTyped DEF FlowInv
<1>2. ASSUME NEW w \in Workers, detect_signals(w) PROVE FlowInv'
  <2>1. CASE Take(w)
    BY <2>1, TakeStep
  <2>2. CASE Detect(w)
    BY <2>2, DetectStep
  <2>3. CASE Finish(w)
    BY <2>3, FinishStep
  <2>4. CASE CooldownGate(w)
    BY <2>4, CooldownGateStep
  <2>5. CASE DedupGate(w)
    BY <2>5, DedupGateStep
  <2>6. CASE RateGate(w)
    BY <2>6, RateGateStep
  <2>7. CASE CapGate(w)
    BY <2>7, CapGateStep
  <2>8. CASE Persist(w)
    BY <2>8, PersistTriaged, PersistStopped
  <2>9. CASE Schedule(w)
    BY <2>9, ScheduleStep
  <2> QED BY <1>2, <2>1, <2>2, <2>3, <2>4, <2>5, <2>6, <2>7, <2>8, <2>9 DEF detect_signals
<1>3. ASSUME NEW w \in Workers, Raise(w) PROVE FlowInv'
  BY <1>3, RaiseStep
<1>4. ASSUME NEW w \in Workers, Lose(w) PROVE FlowInv'
  BY <1>4, LoseStep
<1>5. CASE Tick
  <2>1. now' \in 0 .. MaxNow /\ now <= now'
    BY <1>1, <1>5 DEF Tick
  <2> QED BY <1>5, <2>1, TickStep DEF Tick
<1>6. CASE UNCHANGED vars
  <2>1. now' = now /\ now <= now
    BY <1>1, <1>6 DEF vars
  <2> QED BY <1>1, <1>6, <2>1, TickStep DEF vars
<1> QED BY <1>2, <1>3, <1>4, <1>5, <1>6 DEF Next

LEMMA InvHolds == Spec => []FlowInv
  BY InitInv, NextInv, PTL DEF Spec

-----------------------------------------------------------------------------
(***************************************************************************)
(* Theorems.                                                               *)
(***************************************************************************)

\* Every row, counter and local variable of the signal workers has its type, with
\* any number of processes, losses and errors.
THEOREM TypeCorrect == Spec => []TypeOK
<1>1. FlowInv => TypeOK
  <2> SUFFICES ASSUME TypeInv PROVE TypeOK
    BY DEF FlowInv
  <2>1. detects \subseteq Messages
    BY DEF TypeInv, MessageOK
  <2> QED BY <2>1 DEF TypeInv, TypeOK, Local, Signal
<1> QED BY InvHolds, <1>1, PTL

\* detect_signals: entry, stop and target of whatever a detector finds are in
\* order, for every history of candles.
THEOREM BracketsHold == Spec => []BracketsOrdered
<1>1. FlowInv => BracketsOrdered
  <2> SUFFICES ASSUME FlowInv, NEW w \in Workers, NEW x \in mem[w].found PROVE BracketOK(x)
    BY DEF BracketsOrdered, BracketOK
  <2>1. TaskOK(pc[w], mem[w], features, signals, now)
    BY InHand
  <2> QED BY <2>1 DEF TaskOK
<1> QED BY InvHolds, <1>1, PTL

\* _check_cooldown, _check_rate_limit: the gates read what is committed and the
\* row is inserted later, so a burst may pass; it has at most one triage per process.
THEOREM BurstsHold == Spec => []BurstSlack
<1>1. FlowInv => BurstSlack
  <2> SUFFICES ASSUME FlowInv PROVE BurstSlack
    OBVIOUS
  <2>1. TypeInv /\ BurstInv
    BY DEF FlowInv
  <2>2. ASSUME NEW b \in Bursts, Guarded(b), Rows(b) # {}
        PROVE  Cardinality(Rows(b)) <= Processes
    <3>1. Cardinality(Rows(b)) + Cardinality(Pending(b)) <= Processes
      BY <2>1, <2>2 DEF BurstInv
    <3>2. Cardinality(Rows(b)) \in Nat /\ Cardinality(Pending(b)) \in Nat /\ Processes \in Nat
      BY <2>1, BurstTyped, ConstantsTyped
    <3> QED BY <3>1, <3>2
  <2>3. ASSUME NEW i \in Ids PROVE /\ signals[i] \in Signal /\ signals[i].archetype \in Archetypes
                                   /\ signals[i].stream \in Streams
                                   /\ signals[i].fired \in 0 .. MaxNow /\ signals[i].fired \in Nat
    BY <2>1, Typed DEF Signal
  <2>4. CooldownSlack
    <3> SUFFICES ASSUME NEW i \in Ids
                 PROVE  Cardinality({j \in Triaged(signals[i].fired, signals[i].fired
                                                    + Cooldown[signals[i].archetype]) :
                                       /\ signals[j].archetype = signals[i].archetype
                                       /\ Symbol[signals[j].stream] = Symbol[signals[i].stream]})
                        <= Processes
      BY DEF CooldownSlack
    <3> DEFINE x == signals[i]
               b == [gate |-> "cooldown", from |-> x.fired, archetype |-> x.archetype, of |-> x.stream]
    <3>1. b \in Bursts /\ Guarded(b) /\ b.gate = "cooldown"
      BY <2>3 DEF Bursts, Guarded
    <3>2. Span(b) = Cooldown[x.archetype]
      BY DEF Span
    <3>3. Rows(b) = {j \in Triaged(x.fired, x.fired + Cooldown[x.archetype]) :
                       /\ signals[j].archetype = x.archetype
                       /\ Symbol[signals[j].stream] = Symbol[x.stream]}
      BY <3>2 DEF Rows, Hits, Triaged
    <3>4. i \in Rows(b)
      <4>1. Cooldown[x.archetype] \in Nat /\ x.fired \in Nat
        BY <2>3, ConstantsTyped
      <4>2. x.fired <= x.fired /\ x.fired <= x.fired + Cooldown[x.archetype]
        BY <4>1
      <4> QED BY <3>3, <4>2 DEF Triaged
    <3> HIDE DEF b
    <3>5. Cardinality(Rows(b)) <= Processes
      BY <2>2, <3>1, <3>4
    <3> QED BY <3>3, <3>5
  <2>5. ASSUME MinGap > 0, NEW i \in Ids
        PROVE  Cardinality(Triaged(signals[i].fired, signals[i].fired + MinGap)) <= Processes
    <3> DEFINE x == signals[i]
               b == [gate |-> "rate", from |-> x.fired, archetype |-> x.archetype, of |-> x.stream]
    <3>1. b \in Bursts /\ Guarded(b) /\ b.gate = "rate"
      BY <2>3, <2>5 DEF Bursts, Guarded
    <3>2. Span(b) = MinGap
      BY DEF Span
    <3>3. Rows(b) = Triaged(x.fired, x.fired + MinGap)
      BY <3>2 DEF Rows, Hits, Triaged
    <3>4. i \in Rows(b)
      <4>1. MinGap \in Nat /\ x.fired \in Nat
        BY <2>3, ConstantsTyped
      <4>2. x.fired <= x.fired /\ x.fired <= x.fired + MinGap
        BY <4>1
      <4> QED BY <3>3, <4>2 DEF Triaged
    <3> HIDE DEF b
    <3>5. Cardinality(Rows(b)) <= Processes
      BY <2>2, <3>1, <3>4
    <3> QED BY <3>3, <3>5
  <2> QED BY <2>4, <2>5 DEF BurstSlack, GapSlack
<1> QED BY InvHolds, <1>1, PTL

\* _check_dedup: a signal is triaged after one of the same symbol and direction on
\* a higher timeframe only if it was past the first gate when that row came.
THEOREM DedupHolds == Spec => []DedupExplained
<1>1. FlowInv => DedupExplained
  BY DEF FlowInv
<1> QED BY InvHolds, <1>1, PTL

\* check_and_reserve_slot: every slot of a day up to the cap is a row, is held by a
\* task, or was lost in a failure; never more rows of a day than the cap.
THEOREM SlotsHold == Spec => []SlotsExplained
<1>1. FlowInv => SlotsExplained
  BY DEF FlowInv
<1> QED BY InvHolds, <1>1, PTL

\* _schedule_outcomes: a triaged row without its outcomes is in the hands of its
\* task or was left by a failure.
THEOREM OutcomesHold == Spec => []OutcomesExplained
<1>1. FlowInv => OutcomesExplained
  BY DEF FlowInv
<1> QED BY InvHolds, <1>1, PTL
=============================================================================
