------------------------------ MODULE Detectors ------------------------------
(***************************************************************************)
(* From candles to signals, as operators: the structure indicators and the *)
(* regime labels of a features row, and the eight detectors over a         *)
(* sequence of rows.                                                       *)
(*                                                                         *)
(* Prices are natural numbers; 0 stands for NULL.  Averages, oscillators,  *)
(* bands and funding are not computed but given with a candle as its mood. *)
(* half is half an ATR, so that every multiple the code uses is a whole    *)
(* number.  The lengths the code fixes are constants, to be scaled down.   *)
(***************************************************************************)
EXTENDS Integers, SequencesExt

CONSTANTS
  MinHistory,          \* MIN_HISTORY of each archetype
  Half,                \* (lookback - 1) // 2 of compute_swing_high_low
  Donchian,            \* period of compute_donchian
  BarsPerDay,          \* candles that close on one UTC day
  SwingLookback, SqueezeLookback, DivergenceLookback, PivotSpacing

Directions == {"long", "short"}

\* What is given of a candle, and the candle.
Moods == [half: Nat, adx: BOOLEAN, ema55: Nat, slope: {-1, 0, 1},
          vol: {"normal", "expansion", "squeeze"}, ema: Nat, rsi: Nat, macd: Int,
          band: Directions \cup {"none"}, funding: Directions \cup {"none"}]
Candles == {c \in [high: Nat, low: Nat, close: Nat, mood: Moods] :
              0 < c.low /\ c.low <= c.close /\ c.close <= c.high}

\* The rows before the last skip rows, at most k of them, by number.
Recent(rows, k, skip) ==
  {i \in DOMAIN rows : Len(rows) - skip - k < i /\ i <= Len(rows) - skip}

-----------------------------------------------------------------------------
(* Indicators.                                                             *)

\* The last confirmed extreme, carried forward until the next one: a candle is
\* one if it alone has the extreme of the 2 * Half + 1 candles around it.  side is
\* 1 for highs and -1 for lows.
compute_swing(x, side) ==
  LET peaks == {i \in 1 + Half .. Len(x) - Half :
                  \A j \in i - Half .. i + Half : j # i => side * x[i] > side * x[j]}
  IN  IF peaks = {} THEN 0 ELSE x[Max(peaks)]

Highs(candles) == [i \in DOMAIN candles |-> candles[i].high]
Lows(candles)  == [i \in DOMAIN candles |-> candles[i].low]
Utmost(set, side) == side * Max({side * v : v \in set})

compute_donchian(x, side) ==
  IF Len(x) < Donchian THEN 0 ELSE Utmost({x[i] : i \in Recent(x, Donchian, 0)}, side)

\* close_time decides the day: a candle that closes at midnight is of the next.
\* The day before is the last earlier one that has candles.
Day(i) == i \div BarsPerDay
compute_prior_day(x, side) ==
  LET earlier == {i \in DOMAIN x : Day(i) < Day(Len(x))}
  IN  IF earlier = {} THEN 0
      ELSE Utmost({x[i] : i \in {j \in earlier : Day(j) = Day(Max(earlier))}}, side)

classify_trend(m, close) ==
  IF m.adx /\ close > m.ema55 /\ m.slope = 1 THEN "trend_up"
  ELSE IF m.adx /\ close < m.ema55 /\ m.slope = -1 THEN "trend_down"
  ELSE "range"

build_features_row(candles) ==
  LET c == Last(candles)
      m == c.mood
  IN  [close |-> c.close, half |-> m.half,
       trend |-> classify_trend(m, c.close), vol |-> m.vol,
       ema |-> m.ema, rsi |-> m.rsi, macd |-> m.macd,
       band |-> m.band, funding |-> m.funding,
       high  |-> compute_swing(Highs(candles), 1),
       low   |-> compute_swing(Lows(candles), -1),
       upper |-> compute_donchian(Highs(candles), 1),
       lower |-> compute_donchian(Lows(candles), -1),
       dayHigh |-> compute_prior_day(Highs(candles), 1),
       dayLow  |-> compute_prior_day(Lows(candles), -1)]

Features(candles) ==
  [n \in DOMAIN candles |-> build_features_row(SubSeq(candles, 1, n))]

-----------------------------------------------------------------------------
(* The detectors: the direction of the signal of the last row, if any.     *)

REGISTRY == <<"trend_pullback", "squeeze_breakout", "divergence_rsi",
              "divergence_macd", "range_rejection", "liquidity_sweep_daily",
              "liquidity_sweep_swing", "funding_extreme">>
Archetypes == ToSet(REGISTRY)

ASSUME DetectorsAssumption ==
  /\ MinHistory \in [Archetypes -> Nat]
  /\ Half \in Nat /\ Donchian \in Nat \ {0} /\ BarsPerDay \in Nat \ {0}
  /\ SwingLookback \in Nat /\ SqueezeLookback \in Nat
  /\ DivergenceLookback \in Nat /\ PivotSpacing \in Nat

Place(archetype) == CHOOSE k \in DOMAIN REGISTRY : REGISTRY[k] = archetype

\* if first: direction d, elif second: the other.
Either(first, d, second) ==
  IF first THEN {d} ELSE IF second THEN Directions \ {d} ELSE {}
Awake(row) == row.vol \in {"normal", "expansion"}

trend_pullback(rows) ==
  LET c == Last(rows)
      window == Recent(rows, 3, 1)
  IN  {d \in {"long"} :
         /\ c.trend \in {"trend_up", "trend_down"} /\ Awake(c)
         /\ c.close > c.ema /\ c.close > rows[Len(rows) - 1].close
         /\ \E i \in window : rows[i].close <= rows[i].ema
         /\ \E i \in window : rows[i].rsi < 40
         /\ c.rsi >= 40}

squeeze_breakout(rows) ==
  LET c == Last(rows)
      previous == rows[Len(rows) - 1]
  IN  {d \in Directions :
         /\ c.vol = "expansion"
         /\ \E i \in Recent(rows, SqueezeLookback, 2) : rows[i].vol = "squeeze"
         /\ c.band = d /\ previous.band = d}

\* find_divergence_pair: it sorts the rows by price and returns the first pair
\* that qualifies; the detectors only ask whether there is one.  The price goes
\* one way, 1 up and -1 down, and the oscillator the other.
Diverges(rows, osc, way) ==
  \E i, j \in Recent(rows, DivergenceLookback, 0) :
    /\ j - i >= PivotSpacing
    /\ j > Len(rows) - 3
    /\ way * rows[j].close > way * rows[i].close
    /\ way * rows[j][osc] < way * rows[i][osc]

divergence(rows, osc) ==
  LET c == Last(rows)
  IN  IF ~Awake(c) THEN {}
      ELSE Either(c.trend = "trend_down" /\ Diverges(rows, osc, -1), "long",
                  c.trend = "trend_up" /\ Diverges(rows, osc, 1))

range_rejection(rows) ==
  LET c == Last(rows)
  IN  IF c.trend # "range" \/ c.vol # "normal" \/ 0 \in {c.high, c.low, c.upper, c.lower}
      THEN {}
      ELSE Either(c.low <= c.lower /\ c.close > c.lower, "long",
                  c.high >= c.upper /\ c.close < c.upper)

\* The extreme is the last confirmed one, not that of the current candle.
Swept(c, high, low) ==
  Either(c.high > high /\ c.close < high, "short", c.low < low /\ c.close > low)

liquidity_sweep_daily(rows) ==
  LET c == Last(rows)
  IN  IF 0 \in {c.dayHigh, c.dayLow, c.high, c.low} THEN {}
      ELSE Swept(c, c.dayHigh, c.dayLow)

Swings(rows, field) ==
  {rows[i][field] : i \in Recent(rows, SwingLookback, 1)} \ {0}

liquidity_sweep_swing(rows) ==
  LET c == Last(rows)
      highs == Swings(rows, "high")
      lows == Swings(rows, "low")
  IN  IF 0 \in {c.high, c.low} \/ highs = {} \/ lows = {} THEN {}
      ELSE Swept(c, Max(highs), Min(lows))

\* band is the side of the Bollinger band, and funding the side of its
\* threshold, on which the row lies: a direction or "none".
funding_extreme(rows) ==
  {d \in Directions : Awake(Last(rows)) /\ Last(rows).funding = d}

Direction(archetype, rows) ==
  IF Len(rows) < MinHistory[archetype] THEN {}
  ELSE CASE archetype = "trend_pullback"        -> trend_pullback(rows)
         [] archetype = "squeeze_breakout"      -> squeeze_breakout(rows)
         [] archetype = "divergence_rsi"        -> divergence(rows, "rsi")
         [] archetype = "divergence_macd"       -> divergence(rows, "macd")
         [] archetype = "range_rejection"       -> range_rejection(rows)
         [] archetype = "liquidity_sweep_daily" -> liquidity_sweep_daily(rows)
         [] archetype = "liquidity_sweep_swing" -> liquidity_sweep_swing(rows)
         [] archetype = "funding_extreme"       -> funding_extreme(rows)

-----------------------------------------------------------------------------
(* The signal: entry, stop and target.                                     *)

Sign(d) == IF d = "long" THEN 1 ELSE -1

\* 1.5 ATR and 3 ATR from the close.
Bracket(d, c) == [stop |-> c.close - 3 * Sign(d) * c.half,
                  target |-> c.close + 6 * Sign(d) * c.half]

\* Half an ATR beyond the swing.
SwingStopFar(d, c) ==                         \* mutant: beyond the other swing
  IF d = "long" THEN c.high + c.half ELSE c.low - c.half
SwingStop(d, c) == IF d = "long" THEN c.low - c.half ELSE c.high + c.half
Levels(archetype, d, c) ==
  IF archetype = "range_rejection"
  THEN [stop |-> SwingStop(d, c), target |-> IF d = "long" THEN c.upper ELSE c.lower]
  ELSE IF archetype \in {"liquidity_sweep_daily", "liquidity_sweep_swing"}
  THEN [stop |-> SwingStop(d, c), target |-> c.close + 5 * Sign(d) * c.half]
  ELSE Bracket(d, c)

\* rr_ratio divides by the distance of the stop: a flat market raises, and the
\* worker goes on with the next detector.
Signals(archetype, rows) ==
  {[archetype |-> archetype, dir |-> d, entry |-> Last(rows).close,
    stop |-> Levels(archetype, d, Last(rows)).stop,
    target |-> Levels(archetype, d, Last(rows)).target] :
     d \in {x \in Direction(archetype, rows) :
              Levels(archetype, x, Last(rows)).stop # Last(rows).close}}
=============================================================================
