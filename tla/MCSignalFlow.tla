---------------------------- MODULE MCSignalFlow ----------------------------
(***************************************************************************)
(* Instances of SignalFlow: one symbol on two timeframes, and another.     *)
(***************************************************************************)
EXTENDS SignalFlow

ProcessSymmetry == Permutations(Workers)

MCSymbol == [s \in Streams |-> IF s = "eth5m" THEN "ETH" ELSE "BTC"]
MCRank == [s \in Streams |-> IF s = "btc1h" THEN 2 ELSE 0]
MCMinHistory == [a \in Archetypes |-> IF a = "funding_extreme" THEN 1 ELSE 3]
MCCooldown == [a \in Archetypes |-> IF a = "funding_extreme" THEN 2 ELSE 1]

Calm == [half |-> 1, adx |-> FALSE, ema55 |-> 0, slope |-> 0, vol |-> "normal",
         ema |-> 0, rsi |-> 50, macd |-> 0, band |-> "none", funding |-> "none"]
Candle(h, l, c, m) == [high |-> h, low |-> l, close |-> c, mood |-> m]

Message(s, i) == [stream |-> s, row |-> i, copy |-> 1]

\* One message, for the last candle of a history of BTC on 5m.
One(t) == [candles |-> [s \in Streams |-> IF s = "btc5m" THEN t ELSE <<>>],
           tasks |-> {Message("btc5m", Len(t))}]

\* Every history of five candles of four shapes in a range.
Shapes == {Candle(4, 2, 3, Calm), Candle(5, 3, 4, Calm), Candle(6, 4, 4, Calm),
           Candle(3, 1, 3, Calm)}
RangeScenarios == {One(t) : t \in [1 .. 5 -> Shapes]}

\* A pullback in an upward trend after a squeeze, with oscillators that do not
\* follow the price; and the same with no range at all, where rr_ratio divides
\* by zero.
Up == [Calm EXCEPT !.adx = TRUE, !.slope = 1, !.ema55 = 1]
TrendTape ==
  << Candle(5, 3, 4, [Up EXCEPT !.rsi = 60, !.macd = 3, !.vol = "squeeze"]),
     Candle(4, 2, 3, [Up EXCEPT !.rsi = 35, !.macd = 1, !.ema = 3]),
     Candle(5, 3, 4, [Up EXCEPT !.rsi = 45, !.macd = 1, !.ema = 3, !.band = "long"]),
     Candle(6, 4, 5, [Up EXCEPT !.rsi = 50, !.macd = 1, !.ema = 3, !.band = "long",
                                !.vol = "expansion"]) >>
FlatTape == [i \in 1 .. 4 |-> [TrendTape[i] EXCEPT !.mood.half = 0]]
TrendScenarios == {One(TrendTape), One(FlatTape)}

\* Funding stays extreme on every stream; two candles of one, and one of another or
\* a second message for the first.
Extreme == Candle(4, 2, 3, [Calm EXCEPT !.funding = "long"])
BurstScenarios ==
  {[candles |-> [s \in Streams |-> <<Extreme, Extreme>>],
    tasks |-> {Message("btc5m", 1), Message("btc5m", 2), third}] :
     third \in {Message("btc1h", 1), Message("eth5m", 1), [Message("btc5m", 1) EXCEPT !.copy = 2]}}

\* The pullback on 5m beside a signal of the same direction on 1h.
MixedScenario ==
  [candles |-> [s \in Streams |-> IF s = "btc5m" THEN TrendTape ELSE <<Extreme>>],
   tasks |-> {Message("btc5m", 4), Message("btc1h", 1)}]

MCScenarios ==
  RangeScenarios \cup TrendScenarios \cup BurstScenarios \cup {MixedScenario}
=============================================================================
