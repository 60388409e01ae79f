------------------------------- MODULE Market -------------------------------
(***************************************************************************)
(* From the exchange to features rows and outcomes, for one symbol and one *)
(* timeframe: the websocket ingestor, the gap scan and its backfill, the   *)
(* one-shot backfills of an operator, the feature workers and the          *)
(* measurement of outcomes.                                                *)
(*                                                                         *)
(* now counts minutes and a candle is named by the minute it opens.  Close *)
(* times are in half minutes: the stream computes the next candle's open,  *)
(* REST returns a moment before it.  Prices are left out: what a row says  *)
(* is settled by the candle and the minute its price was taken.            *)
(*                                                                         *)
(* Covered: stream and REST rows for one candle in any order, tasks in any *)
(* order, reconnection, restart and write errors of the ingestor, lost and *)
(* redelivered tasks, errors of the exchange, the database and the broker  *)
(* at each step of a task, a month without a partition.  Two messages that *)
(* say the same are one: the second would be computed like the first.      *)
(***************************************************************************)
EXTENDS Integers, FiniteSets, FiniteSetsExt

CONSTANTS
  Workers,       \* processes that take tasks from queue features
  TF,            \* minutes of the timeframe
  Lookback,      \* minutes a scan looks back, lookback_hours
  MinHistory,    \* candles without which no features row is built
  Window,        \* WINDOW_SIZE
  Horizon,       \* minutes from a signal to its outcome
  Month,         \* minutes of a month, that is of a partition of raw_candles
  Deployed,      \* months that have a partition at the start
  Scans, Fills, MaxSignals,  \* bounds: scans, one-shot backfills, signals
  MaxNow,        \* bound on time
  MaxFailures    \* bound on restarts, lost processes and errors

ASSUME MarketAssumption ==
  /\ IsFiniteSet(Workers)
  /\ TF \in Nat \ {0, 1} /\ Lookback \in Nat /\ Horizon \in Nat
  /\ MinHistory \in Nat \ {0} /\ Window \in Nat /\ Window >= MinHistory
  /\ Month \in Nat \ {0} /\ Deployed \subseteq Nat
  /\ Scans \in Nat /\ Fills \in Nat /\ MaxSignals \in Nat
  /\ MaxNow \in Nat /\ MaxNow >= TF /\ MaxFailures \in Nat

VARIABLES
  now,        \* the clock
  watched,    \* last_open of the watch loop, or none
  stream,     \* candles between the watch loop and the consumer
  raw,        \* raw_candles
  months,     \* months that have a partition
  features,   \* features: the key and the candles it was computed from
  computes,   \* compute_features messages: their close times
  gaps,       \* backfill_candles messages: the open times of a scan
  detects,    \* a row was handed to detect_signals
  pc,         \* pc[w]: where the task in hand of w stands
  mem,        \* mem[w]: its local variables
  fill,       \* the one-shot backfill in hand: the rows it read, or none
  signals,    \* when signals fired
  due,        \* measure_outcome messages
  outcomes,   \* signal_outcomes: the signal and the candles measured
  short,      \* history: keys computed with too little history
  scanned,    \* history: scans whose gaps are filled
  budget,     \* scans and one-shot backfills to come
  failures    \* restarts, losses and errors so far

vars == <<now, watched, stream, raw, months, features, computes, gaps, detects, pc,
          mem, fill, signals, due, outcomes, short, scanned, budget, failures>>

Minutes == 0 .. MaxNow
Candles == {o \in Minutes : o % TF = 0}
None == -1
Row == [open: Candles, from: {"stream", "rest", "history"}, taken: Minutes]
Close(r) == 2 * (r.open + TF) - (IF r.from = "stream" THEN 0 ELSE 1)
Keys == {2 * (o + TF) - d : o \in Candles, d \in {0, 1}}
KeyCandle(k) == (k + 1) \div 2 - TF
Feature == [key: Keys, used: SUBSET Row]
NoTask == [task |-> {}, rows |-> {}]
Opens(rows) == {r.open : r \in rows}

Init ==
  /\ now \in 0 .. TF - 1
  /\ watched = None /\ stream = {}
  /\ raw = {} /\ months = Deployed
  /\ features = {}
  /\ computes = {} /\ gaps = {} /\ detects = FALSE
  /\ pc = [w \in Workers |-> "idle"]
  /\ mem = [w \in Workers |-> NoTask]
  /\ fill = {}
  /\ signals = {} /\ due = {} /\ outcomes = {}
  /\ short = {} /\ scanned = {}
  /\ budget = [scan |-> Scans, fill |-> Fills]
  /\ failures = 0

Failed == failures < MaxFailures /\ failures' = failures + 1
Fine == UNCHANGED failures

-----------------------------------------------------------------------------
(* raw_candles: INSERT ... ON CONFLICT DO NOTHING into partitions.         *)

Fits(rows) == {r.open \div Month : r \in rows} \subseteq months
Inserted(rows) == {r \in rows : r.open \notin Opens(raw)}

-----------------------------------------------------------------------------
(* The ingestor.                                                           *)

Tasks == <<pc, mem, computes, gaps>>
Results == <<signals, due, outcomes>>
History == <<short, scanned>>

\* watch_ohlcv answers with the candle that is open now; the first answer that
\* names it is taken, and no later one.
Forming == now - (now % TF)
Watch ==
  /\ watched # Forming
  /\ watched' = Forming
  /\ stream' = stream \cup {[open |-> Forming, from |-> "stream", taken |-> now]}
  /\ UNCHANGED <<now, raw, months, features, detects, Tasks, fill, Results, History,
                 budget, failures>>

\* _write_and_dispatch: the message is sent for a row that was not there.
StoreOver(r) ==                               \* mutant: no conflict clause
  /\ raw' = raw \cup {r} /\ computes' = computes \cup {Close(r)}
Store(r) ==
  /\ raw' = raw \cup Inserted({r})
  /\ computes' = computes \cup {Close(x) : x \in Inserted({r})}

\* An error is logged and the candle dropped, before the commit or after it.
Consume(r) ==
  /\ r \in stream /\ stream' = stream \ {r}
  /\ \/ Fits({r}) /\ Store(r) /\ Fine
     \/ ~Fits({r}) /\ UNCHANGED <<raw, computes>> /\ Fine
     \/ raw' \in {raw, raw \cup Inserted({r})} /\ Fits({r}) /\ UNCHANGED computes /\ Failed
  /\ UNCHANGED <<now, watched, months, features, detects, pc, mem, gaps, fill, Results,
                 History, budget>>

Restart ==
  /\ Failed
  /\ watched' = None /\ stream' = {}
  /\ UNCHANGED <<now, raw, months, features, detects, Tasks, fill, Results, History, budget>>

-----------------------------------------------------------------------------
(* The gap scan: a grid of open times that starts where the lookback does. *)

expected_candle_opensShort(start, end) ==     \* mutant: whole candles only
  {o \in start .. end - TF - 1 : (o - start) % TF = 0}
expected_candle_opens(start, end) ==
  {o \in start .. end - 1 : (o - start) % TF = 0}

Missing == expected_candle_opens(now - Lookback, now) \ Opens(raw)

scan_gaps ==
  /\ budget.scan > 0 /\ budget' = [budget EXCEPT !.scan = @ - 1]
  /\ IF Missing = {} THEN scanned' = scanned \cup {now} /\ UNCHANGED gaps
                     ELSE gaps' = gaps \cup {[at |-> now, opens |-> Missing]} /\ UNCHANGED scanned
  /\ UNCHANGED <<now, watched, stream, raw, months, features, computes, detects, pc, mem,
                 fill, Results, short, failures>>

-----------------------------------------------------------------------------
(* The tasks of queue features.                                            *)

At(w, place) == pc[w] = place
Goto(w, place) == pc' = [pc EXCEPT ![w] = place]
Keep(w, m) == mem' = [mem EXCEPT ![w] = m]
Finish(w) == Goto(w, "idle") /\ Keep(w, NoTask)
Rest == <<now, watched, stream, months, fill, Results, budget>>

\* What klines answers: every candle that opens from the first to a minute after
\* the last, the one that is still open included.
Fetched(from, to) ==
  {[open |-> o, from |-> "rest", taken |-> now] : o \in {x \in Candles : from <= x /\ x <= to /\ x <= now}}

\* backfill_candles; an empty answer ends it, an HTTP error does without a retry.
Fetch(w) ==
  /\ At(w, "idle")
  /\ \E g \in gaps :
       LET rows == Fetched(Min(g.opens), Max(g.opens) + 1)
       IN  /\ gaps' = gaps \ {g}
           /\ \/ /\ rows # {} /\ Fine
                 /\ Goto(w, "backfill") /\ Keep(w, [task |-> {g}, rows |-> rows])
                 /\ UNCHANGED scanned
              \/ /\ rows = {} /\ Fine
                 /\ scanned' = scanned \cup {g.at} /\ UNCHANGED <<pc, mem>>
              \/ Failed /\ UNCHANGED <<pc, mem, scanned>>
  /\ UNCHANGED <<Rest, raw, features, computes, detects, short>>

\* All rows or none: the commit.  A month without a partition ends the task.
Insert(w) ==
  /\ At(w, "backfill")
  /\ \/ /\ Fits(mem[w].rows) /\ Fine
        /\ raw' = raw \cup Inserted(mem[w].rows)
        /\ scanned' = scanned \cup {g.at : g \in mem[w].task}
        /\ Goto(w, "send") /\ UNCHANGED mem
     \/ ~Fits(mem[w].rows) /\ Fine /\ Finish(w) /\ UNCHANGED <<raw, scanned>>
     \/ /\ Fits(mem[w].rows) /\ Failed
        /\ raw' \in {raw, raw \cup Inserted(mem[w].rows)}
        /\ Finish(w) /\ UNCHANGED scanned
  /\ UNCHANGED <<Rest, features, computes, gaps, detects, short>>

\* A message for every row fetched, stored now or before, the oldest first; an
\* error of the broker ends the task.
UnsentFirstOnly(w) == {}                      \* mutant: the first row only
Unsent(w) == {r \in mem[w].rows : r.open # Min(Opens(mem[w].rows))}
Sent(w) == {Close(r) : r \in {x \in mem[w].rows : x.open = Min(Opens(mem[w].rows))}}

Send(w) ==
  /\ At(w, "send")
  /\ \/ /\ computes' = computes \cup Sent(w) /\ Fine
        /\ IF Unsent(w) = {} THEN Finish(w)
                             ELSE Keep(w, [task |-> mem[w].task, rows |-> Unsent(w)]) /\ UNCHANGED pc
     \/ Failed /\ Finish(w) /\ UNCHANGED computes
  /\ UNCHANGED <<Rest, raw, features, gaps, detects, History>>

\* _load_raw_inputs: the last Window rows whose close_time is not after the key.
LoadedAny(k) == {r \in raw : Close(r) > 0}     \* mutant: the key is not asked for
Loaded(k) == {r \in raw : Close(r) <= k}
Last(rows) ==
  {r \in rows : Cardinality({x \in rows : Close(x) > Close(r)}) < Window}

\* Too little history drops the message, and so does an error of the database.
Compute(w) ==
  /\ At(w, "idle")
  /\ \E k \in computes :
       /\ computes' = computes \ {k}
       /\ \/ /\ Cardinality(Loaded(k)) < MinHistory /\ Fine
             /\ short' = short \cup {k} /\ UNCHANGED <<pc, mem>>
          \/ /\ Cardinality(Loaded(k)) >= MinHistory /\ Fine
             /\ Goto(w, "upsert") /\ Keep(w, [task |-> {k}, rows |-> Last(Loaded(k))])
             /\ UNCHANGED short
          \/ Failed /\ UNCHANGED <<pc, mem, short>>
  /\ UNCHANGED <<Rest, raw, features, gaps, detects, scanned>>

Upserted(rows) == {f \in features : \A g \in rows : g.key # f.key} \cup rows
FeatureOf(w) == [key |-> CHOOSE k \in mem[w].task : TRUE, used |-> mem[w].rows]

\* The upsert and detect_signals, unless the database or the broker fails.
Upsert(w) ==
  /\ At(w, "upsert")
  /\ \/ features' = Upserted({FeatureOf(w)}) /\ detects' = TRUE /\ Fine
     \/ features' \in {features, Upserted({FeatureOf(w)})} /\ UNCHANGED detects /\ Failed
  /\ Finish(w)
  /\ UNCHANGED <<Rest, raw, computes, gaps, History>>

\* The process is gone and its message is delivered again.
Lose(w) ==
  /\ ~At(w, "idle") /\ Failed
  /\ IF At(w, "upsert") THEN computes' = computes \cup mem[w].task /\ UNCHANGED gaps
                        ELSE gaps' = gaps \cup mem[w].task /\ UNCHANGED computes
  /\ Finish(w)
  /\ UNCHANGED <<Rest, raw, features, detects, History>>

-----------------------------------------------------------------------------
(* The operator's one-shot backfills.                                      *)

Idle == <<now, watched, stream, detects, Tasks, Results, History, failures>>

\* run_backfill makes the partitions first; it sends no messages.
run_backfill ==
  /\ budget.fill > 0 /\ budget' = [budget EXCEPT !.fill = @ - 1]
  /\ LET rows == {[r EXCEPT !.from = "history"] : r \in Fetched(0, now)}
     IN  /\ months' = months \cup {o \div Month : o \in 0 .. now}
         /\ raw' = raw \cup Inserted(rows)
  /\ UNCHANGED <<Idle, features, fill>>

\* run_features_backfill: one session reads every row, and batches are upserted
\* when they are computed, whatever the workers have stored since.
Filled ==
  {[key |-> Close(r), used |-> Last(Loaded(Close(r)))] :
     r \in {x \in raw : Cardinality(Loaded(Close(x))) >= MinHistory}}
FillRead ==
  /\ budget.fill > 0 /\ budget' = [budget EXCEPT !.fill = @ - 1]
  /\ fill = {} /\ fill' = Filled
  /\ UNCHANGED <<Idle, raw, months, features>>
FillFlush ==
  /\ fill # {}
  /\ features' = Upserted(fill) /\ fill' = {}
  /\ UNCHANGED <<Idle, raw, months, budget>>

-----------------------------------------------------------------------------
(* Signals and their outcomes.                                             *)

Others == <<watched, stream, raw, months, features, detects, Tasks, fill, History, budget, failures>>

\* The signal workers: a signal for some row handed to them.
Fire ==
  /\ detects /\ Cardinality(signals) < MaxSignals
  /\ signals' = signals \cup {now} /\ due' = due \cup {now}
  /\ UNCHANGED <<now, outcomes, Others>>

MeasuredUntil(s) == {r \in raw : 2 * s < Close(r) /\ Close(r) < 2 * (s + Horizon)}
                                              \* mutant: the horizon left out
Measured(s) == {r \in raw : 2 * s < Close(r) /\ Close(r) <= 2 * (s + Horizon)}

\* Return, excursions and hits are functions of the candles: only those are kept,
\* with the scans completed when they were read.
measure_forward(s) == [fired |-> s, used |-> Measured(s), scans |-> scanned]

\* Not before its countdown, and again if the countdown is longer than Redis
\* keeps a message invisible; with no candle in the window there is no outcome.
\* The read and the upsert are one step: what is written was read at some time.
measure_outcome(s) ==
  /\ s \in due /\ now >= s + Horizon
  /\ due' \in {due, due \ {s}}
  /\ outcomes' = IF Measured(s) = {} THEN outcomes
                 ELSE {x \in outcomes : x.fired # s} \cup {measure_forward(s)}
  /\ UNCHANGED <<now, signals, Others>>

Tick ==
  /\ now < MaxNow
  /\ now' = now + 1
  /\ UNCHANGED <<Results, Others>>

Next ==
  \/ Watch \/ Restart \/ \E r \in stream : Consume(r)
  \/ scan_gaps
  \/ \E w \in Workers : Fetch(w) \/ Insert(w) \/ Send(w) \/ Compute(w) \/ Upsert(w) \/ Lose(w)
  \/ run_backfill \/ FillRead \/ FillFlush
  \/ Fire \/ \E s \in due : measure_outcome(s)
  \/ Tick

Spec == Init /\ [][Next]_vars

-----------------------------------------------------------------------------
(* Properties.                                                             *)

\* The tables, the messages and the local variables have their types.
TypeOK ==
  /\ now \in Minutes /\ watched \in Candles \cup {None}
  /\ stream \subseteq Row
  /\ raw \subseteq Row /\ \A r, x \in raw : r.open = x.open => r = x
  /\ months \subseteq Nat
  /\ features \subseteq Feature /\ fill \subseteq Feature
  /\ \A f, g \in features : f.key = g.key => f = g
  /\ computes \subseteq Keys /\ detects \in BOOLEAN /\ short \subseteq Keys
  /\ gaps \subseteq [at: Minutes, opens: SUBSET Int]
  /\ pc \in [Workers -> {"idle", "backfill", "send", "upsert"}]
  /\ signals \subseteq Minutes /\ due \subseteq signals
  /\ outcomes \subseteq [fired: signals, used: SUBSET Row, scans: SUBSET Minutes]
  /\ scanned \subseteq Minutes
  /\ failures \in 0 .. MaxFailures

\* A scan whose backfill was stored leaves no closed candle of its lookback out,
\* also when the lookback starts between two opens and the grid of expected
\* times meets none of them.
ScanComplete ==
  \A t \in scanned : \A o \in Candles :
    t - Lookback <= o /\ o + TF <= t => o \in Opens(raw)

\* compute_features never looks ahead: a features row rests on candles that close
\* by its key, and its last one is the candle of the key; only under a key sent
\* by the backfill for a candle the stream had stored is it an earlier one.
FeatureOfItsCandle ==
  \A f \in features :
    LET last == Max(Opens(f.used))
        own == {r \in raw : r.open = KeyCandle(f.key)}
    IN  /\ last <= KeyCandle(f.key)
        /\ last # KeyCandle(f.key) => f.key % 2 = 1 /\ \A r \in own : r.from = "stream"

\* Stored candles that have no features row and are not on their way to the
\* workers, were not computed when there was too little history and did not come
\* from the operator's backfill stand for restarts and errors: each of these costs
\* the row of one candle or, while a backfill sends its messages, those of the
\* candles it had stored.
InHand == UNION {mem[w].task : w \in {x \in Workers : At(x, "upsert")}}
ToSend == UNION {mem[w].rows : w \in {x \in Workers : At(x, "send")}}
Uncomputed ==
  {r \in raw \ ToSend :
     /\ r.from # "history"
     /\ Close(r) \notin {f.key : f \in features} \cup computes \cup InHand \cup short}
Origin(r) == <<r.from, IF r.from = "stream" THEN r.open ELSE r.taken>>
FeaturesExplained == Cardinality({Origin(r) : r \in Uncomputed}) <= failures

\* Of the candles an outcome is measured on at most one was priced before the
\* signal: the one the stream or a backfill stored unfinished while it formed.
OutcomeFresh ==
  \A x \in outcomes : Cardinality({r \in x.used : r.taken <= x.fired}) <= 1

\* An outcome rests on every closed candle of its window that a scan completed by
\* then had to find, though scan, backfill and countdown know nothing of each other.
OutcomeComplete ==
  \A x \in outcomes : \A t \in x.scans : \A o \in Candles :
    /\ t - Lookback <= o /\ o + TF <= t
    /\ x.fired < o + TF /\ o + TF <= x.fired + Horizon
    => o \in Opens(x.used)
=============================================================================
