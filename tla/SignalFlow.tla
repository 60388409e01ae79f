----------------------------- MODULE SignalFlow -----------------------------
(***************************************************************************)
(* The signal workers: a detect_signals message names a stream of features *)
(* rows and one of them; the worker process runs the eight detectors over  *)
(* the rows up to it, passes what they find through five gates, inserts it *)
(* into signals and schedules the measurement of its outcomes.             *)
(*                                                                         *)
(* The gates read what was committed; fired_at is taken by the detector,   *)
(* before them.  One action is one session or one broker call, so other    *)
(* processes come between any two gates.                                   *)
(*                                                                         *)
(* Covered: any number of processes, a backlog in any order, a lost        *)
(* process (its message is delivered again) and an error of the database   *)
(* or of Redis (the task ends and is acknowledged).                        *)
(***************************************************************************)
EXTENDS Detectors

CONSTANTS
  Workers,          \* processes that take tasks from queue signals
  Streams,          \* (symbol, timeframe) pairs
  Symbol, Rank,     \* of each stream; Rank as _TIMEFRAME_RANK
  Scenarios,        \* [candles: of each stream, tasks: messages waiting]
  Weak,             \* archetypes whose confidence is below their threshold
  Cooldown,         \* get_cooldown_minutes of each archetype
  DedupWindow, MinGap, DailyCap, Day24,
  MaxNow,           \* bound on time
  MaxFailures       \* bound on lost processes and errors

\* copy tells apart the messages for one row: compute_features sends one each
\* time it runs, and it is delivered again when its process is lost.
Messages == [stream: Streams, row: Nat, copy: Nat]

ASSUME SignalFlowAssumption ==
  /\ IsFiniteSet(Workers)
  /\ \A s \in Scenarios :
       /\ s.candles \in [Streams -> Seq(Candles)] /\ s.tasks \subseteq Messages
       /\ \A m \in s.tasks : m.row \in DOMAIN s.candles[m.stream]
  /\ Symbol \in [Streams -> STRING] /\ Rank \in [Streams -> Nat]
  /\ Weak \subseteq Archetypes
  /\ Cooldown \in [Archetypes -> Nat]
  /\ DedupWindow \in Nat /\ MinGap \in Nat /\ DailyCap \in Nat /\ Day24 \in Nat \ {0}
  /\ MaxNow \in Nat /\ MaxFailures \in Nat

VARIABLES
  now,        \* the clock
  features,   \* features[s]: the features rows of s, oldest first
  detects,    \* detect_signals messages waiting
  pc,         \* pc[w]: where the task in hand of w stands
  mem,        \* mem[w]: its local variables
  signals,    \* rows with gating_outcome claude_triaged, oldest first
  suppressed, \* the gating_outcome of the other rows
  slots,      \* slots[d]: the Redis counter of day d
  scheduled,  \* signals all of whose outcomes are scheduled
  failures    \* processes lost and errors so far

vars == <<now, features, detects, pc, mem, signals, suppressed, slots, scheduled, failures>>

Days == 0 .. (MaxNow \div Day24)
DayOf(t) == t \div Day24
Ids == DOMAIN signals

Outcomes == {"claude_triaged", "below_threshold", "cooldown_suppressed",
             "dedup_suppressed", "rate_limited", "daily_cap_hit"}
Idle == [task |-> {}, found |-> {}, fired |-> 0, seen |-> 0, verdict |-> "", id |-> 0]
Places == {"idle", "detect", "cooldown", "dedup", "rate", "cap", "persist", "schedule"}

Init ==
  /\ now = 0
  /\ \E s \in Scenarios : /\ features = [x \in Streams |-> Features(s.candles[x])]
                           /\ detects = s.tasks
  /\ pc = [w \in Workers |-> "idle"]
  /\ mem = [w \in Workers |-> Idle]
  /\ signals = <<>> /\ suppressed = {}
  /\ slots = [d \in Days |-> 0]
  /\ scheduled = {}
  /\ failures = 0

-----------------------------------------------------------------------------
(* What the gates read.                                                    *)

Triaged(from, to) == {i \in Ids : from <= signals[i].fired /\ signals[i].fired <= to}

CooldownRowsOfStream(x) ==                    \* mutant: per timeframe
  {i \in Triaged(x.fired - Cooldown[x.archetype], x.fired) :
     signals[i].stream = x.stream /\ signals[i].archetype = x.archetype}
CooldownRows(x) ==
  {i \in Triaged(x.fired - Cooldown[x.archetype], x.fired) :
     Symbol[signals[i].stream] = Symbol[x.stream] /\ signals[i].archetype = x.archetype}

DedupRowsLower(x) ==                          \* mutant: lower timeframes
  {i \in Triaged(x.fired - DedupWindow, x.fired) :
     /\ Symbol[signals[i].stream] = Symbol[x.stream] /\ signals[i].dir = x.dir
     /\ Rank[signals[i].stream] < Rank[x.stream]}
DedupRows(x) ==
  {i \in Triaged(x.fired - DedupWindow, x.fired) :
     /\ Symbol[signals[i].stream] = Symbol[x.stream] /\ signals[i].dir = x.dir
     /\ Rank[signals[i].stream] > Rank[x.stream]}

RateLimitedLate(x) ==                       \* mutant: off by one
  MinGap > 0 /\ Triaged(x.fired - MinGap + 1, x.fired) # {}
RateLimited(x) == MinGap > 0 /\ Triaged(x.fired - MinGap, x.fired) # {}

-----------------------------------------------------------------------------
(* The task.                                                               *)

At(w, place) == pc[w] = place
Goto(w, place) == pc' = [pc EXCEPT ![w] = place]
Keep(w, m) == mem' = [mem EXCEPT ![w] = m]
Stream(w) == (CHOOSE t \in mem[w].task : TRUE).stream

\* What the detectors find in rows; they are pure, so it is settled when the rows
\* are loaded.
Finds(rows) == UNION {Signals(a, rows) : a \in Archetypes}

\* _load_features: the rows up to close_time.
Take(w) ==
  /\ At(w, "idle")
  /\ \E t \in detects :
       /\ detects' = detects \ {t}
       /\ Keep(w, [Idle EXCEPT !.task = {t},
                     !.found = Finds(SubSeq(features[t.stream], 1, t.row))])
  /\ Goto(w, "detect")
  /\ UNCHANGED <<now, features, signals, suppressed, slots, scheduled, failures>>

\* The detectors run in the order of the registry, and each fires at most once.
Sig(w) ==
  CHOOSE x \in mem[w].found :
    \A y \in mem[w].found : Place(x.archetype) <= Place(y.archetype)

\* The next detector fires, now.  Its signal is below the threshold of its
\* archetype, or goes to the gates.
Detect(w) ==
  /\ At(w, "detect") /\ mem[w].found # {}
  /\ IF Sig(w).archetype \in Weak
     THEN Goto(w, "persist") /\ Keep(w, [mem[w] EXCEPT !.fired = now, !.verdict = "below_threshold"])
     ELSE Goto(w, "cooldown") /\ Keep(w, [mem[w] EXCEPT !.fired = now])
  /\ UNCHANGED <<now, features, detects, signals, suppressed, slots, scheduled, failures>>

Finish(w) ==
  /\ At(w, "detect") /\ mem[w].found = {}
  /\ Goto(w, "idle") /\ Keep(w, Idle)
  /\ UNCHANGED <<now, features, detects, signals, suppressed, slots, scheduled, failures>>

Candidate(w) == [stream |-> Stream(w), archetype |-> Sig(w).archetype, dir |-> Sig(w).dir,
                 fired |-> mem[w].fired, seen |-> mem[w].seen]

\* A gate stops the signal with its outcome or lets it go on.
Gate(w, stops, outcome, place) ==
  /\ IF stops
     THEN Goto(w, "persist") /\ Keep(w, [mem[w] EXCEPT !.verdict = outcome])
     ELSE Goto(w, place) /\ Keep(w, [mem[w] EXCEPT !.seen =
                                       IF pc[w] = "cooldown" THEN Len(signals) ELSE @])
  /\ UNCHANGED <<now, features, detects, signals, suppressed, scheduled, failures>>

CooldownGate(w) ==
  /\ At(w, "cooldown") /\ UNCHANGED slots
  /\ Gate(w, CooldownRows(Candidate(w)) # {}, "cooldown_suppressed", "dedup")

DedupGate(w) ==
  /\ At(w, "dedup") /\ UNCHANGED slots
  /\ Gate(w, DedupRows(Candidate(w)) # {}, "dedup_suppressed", "rate")

RateGate(w) ==
  /\ At(w, "rate") /\ UNCHANGED slots
  /\ Gate(w, RateLimited(Candidate(w)), "rate_limited", "cap")

\* check_and_reserve_slot: INCR answers with the new count of the day; a slot
\* is taken also when the cap is passed.
Reserve(w, d) ==
  /\ At(w, "cap")
  /\ slots' = [slots EXCEPT ![d] = @ + 1]
  /\ Goto(w, "persist")
  /\ Keep(w, [mem[w] EXCEPT !.verdict =
                IF slots'[d] <= DailyCap THEN "claude_triaged" ELSE "daily_cap_hit"])
  /\ UNCHANGED <<now, features, detects, signals, suppressed, scheduled, failures>>

CapGateToday(w) == Reserve(w, DayOf(now))     \* mutant: the day of the clock
CapGate(w) == Reserve(w, DayOf(mem[w].fired))

\* _persist_signal; signal_id is fresh, so the insert never conflicts.
Handled(w) == [mem[w] EXCEPT !.found = @ \ {Sig(w)}, !.fired = 0, !.seen = 0, !.verdict = ""]
PersistDropped(w) ==                          \* mutant: the outcome of the new row is lost
  /\ At(w, "persist")
  /\ suppressed' = suppressed \cup {mem[w].verdict}
  /\ Keep(w, Handled(w)) /\ Goto(w, "detect")
  /\ UNCHANGED <<now, features, detects, signals, slots, scheduled, failures>>
Persist(w) ==
  /\ At(w, "persist")
  /\ IF mem[w].verdict = "claude_triaged"
     THEN /\ signals' = Append(signals, Candidate(w))
          /\ Keep(w, [Handled(w) EXCEPT !.id = Len(signals) + 1])
          /\ Goto(w, "schedule")
          /\ UNCHANGED suppressed
     ELSE /\ suppressed' = suppressed \cup {mem[w].verdict}
          /\ Keep(w, Handled(w)) /\ Goto(w, "detect")
          /\ UNCHANGED signals
  /\ UNCHANGED <<now, features, detects, slots, scheduled, failures>>

\* _schedule_outcomes: a message for every horizon.
ScheduleLast(w) ==                            \* mutant: after the last detector only
  /\ At(w, "schedule")
  /\ scheduled' = scheduled \cup {i \in {mem[w].id} : mem[w].found = {}}
  /\ Goto(w, "detect") /\ Keep(w, [mem[w] EXCEPT !.id = 0])
  /\ UNCHANGED <<now, features, detects, signals, suppressed, slots, failures>>
Schedule(w) ==
  /\ At(w, "schedule")
  /\ scheduled' = scheduled \cup {mem[w].id}
  /\ Goto(w, "detect") /\ Keep(w, [mem[w] EXCEPT !.id = 0])
  /\ UNCHANGED <<now, features, detects, signals, suppressed, slots, failures>>

\* Only the detectors are called in a try: an error anywhere else ends the task,
\* with the detectors still to run and the horizons still to schedule.
Raise(w) ==
  /\ pc[w] \notin {"idle", "detect"} /\ failures < MaxFailures
  /\ failures' = failures + 1
  /\ Goto(w, "idle") /\ Keep(w, Idle)
  /\ UNCHANGED <<now, features, detects, signals, suppressed, slots, scheduled>>

\* The process is gone and its message is delivered again.
Lose(w) ==
  /\ pc[w] # "idle" /\ failures < MaxFailures
  /\ failures' = failures + 1
  /\ detects' = detects \cup mem[w].task
  /\ Goto(w, "idle") /\ Keep(w, Idle)
  /\ UNCHANGED <<now, features, signals, suppressed, slots, scheduled>>

Tick ==
  /\ now < MaxNow
  /\ now' = now + 1
  /\ UNCHANGED <<features, detects, pc, mem, signals, suppressed, slots, scheduled, failures>>

detect_signals(w) ==
  \/ Take(w) \/ Detect(w) \/ Finish(w)
  \/ CooldownGate(w) \/ DedupGate(w) \/ RateGate(w) \/ CapGate(w)
  \/ Persist(w) \/ Schedule(w)

Next ==
  \/ \E w \in Workers : detect_signals(w) \/ Raise(w) \/ Lose(w)
  \/ Tick

Spec == Init /\ [][Next]_vars

-----------------------------------------------------------------------------
(* Properties.                                                             *)

Found == [archetype: Archetypes, dir: Directions, entry: Int, stop: Int, target: Int]

\* The rows, the counters and the local variables have their types.
TypeOK ==
  /\ now \in 0 .. MaxNow
  /\ detects \subseteq Messages
  /\ pc \in [Workers -> Places]
  /\ mem \in [Workers -> [task: SUBSET Messages, found: SUBSET Found, fired: 0 .. MaxNow,
                          seen: Nat, verdict: Outcomes \cup {""}, id: Nat]]
  /\ signals \in Seq([stream: Streams, archetype: Archetypes, dir: Directions,
                      fired: 0 .. MaxNow, seen: Nat])
  /\ suppressed \subseteq Outcomes \ {"claude_triaged"}
  /\ slots \in [Days -> Nat]
  /\ scheduled \subseteq Ids
  /\ failures \in 0 .. MaxFailures

Processes == Cardinality(Workers)

CooldownSlack ==
  \A i \in Ids :
    Cardinality({j \in Triaged(signals[i].fired, signals[i].fired + Cooldown[signals[i].archetype]) :
                   /\ signals[j].archetype = signals[i].archetype
                   /\ Symbol[signals[j].stream] = Symbol[signals[i].stream]}) <= Processes

GapSlack ==
  MinGap > 0 =>
    \A i \in Ids :
      Cardinality(Triaged(signals[i].fired, signals[i].fired + MinGap)) <= Processes

\* Two detectors pass a gate when neither's row is there yet, or when the later
\* one is inserted first; whatever the backlog, a burst is at most one triage per
\* process: of one archetype and symbol within a cooldown, and over all of them
\* within min_minutes_between_triages.
BurstSlack == CooldownSlack /\ GapSlack

\* A triaged signal follows one of the same symbol and direction on a higher
\* timeframe within the window only if its task passed the first gate before
\* the row of that one was there.
DedupExplained ==
  \A i, j \in Ids :
    LET high == signals[i]
        low == signals[j]
    IN  /\ Symbol[high.stream] = Symbol[low.stream] /\ high.dir = low.dir
        /\ Rank[high.stream] > Rank[low.stream]
        /\ high.fired <= low.fired /\ low.fired <= high.fired + DedupWindow
        => low.seen < i

\* The slot of the day is reserved before the row is inserted.  Every slot up to
\* the cap is a row of that day, a signal about to be inserted, or lost with a
\* process or an error; and so there are never more rows than the cap.
Holding(d) == {w \in Workers : mem[w].verdict = "claude_triaged" /\ DayOf(mem[w].fired) = d}
SlotsExplained ==
  \A d \in Days :
    LET used == Min({slots[d], DailyCap})
        kept == Cardinality({i \in Ids : DayOf(signals[i].fired) = d}) + Cardinality(Holding(d))
    IN  kept <= used /\ used <= kept + failures

\* A triaged row whose outcomes are not all scheduled is in the hands of its
\* task, or stands for a process lost or an error between the two; the message
\* delivered again does not come back to it.
Unscheduled == {i \in Ids \ scheduled : \A w \in Workers : mem[w].id # i}
OutcomesExplained == Cardinality(Unscheduled) <= failures

\* Entry, stop and target of every signal are in order: the stop on the losing
\* side, the target on the other or, for a range that ends at the close, on it.
BracketsOrdered ==
  \A w \in Workers : \A x \in mem[w].found :
    IF x.dir = "long" THEN x.stop < x.entry /\ x.entry <= x.target
                      ELSE x.stop > x.entry /\ x.entry >= x.target
=============================================================================
