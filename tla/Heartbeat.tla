------------------------------ MODULE Heartbeat ------------------------------
(***************************************************************************)
(* The heartbeat scheduler: a Celery Beat message every 15 minutes makes a *)
(* worker process read the history of shifts, decide whether to start the  *)
(* agent, run it as a subprocess with a timeout, and record what STATE.md  *)
(* says afterwards.  The agent writes STATE.md and the diary through the   *)
(* MCP server, a third process.                                            *)
(*                                                                         *)
(* Min units of now are 15 minutes, the shortest interval; one unit is     *)
(* longer than the timeout of a shift.  0 stands for a NULL directive.     *)
(*                                                                         *)
(* Covered: overlapping ticks (nothing locks), a lost worker process whose *)
(* subprocess runs on, a redelivered tick, an exception between the insert *)
(* and the subprocess, a shift killed at its timeout with a tool call on   *)
(* its way, midnight between any two steps.                                *)
(* Not covered: loss of the database or of the files.                      *)
(***************************************************************************)
EXTENDS Integers, Sequences, FiniteSets

CONSTANTS
  Workers,      \* processes that take tasks from queue triage
  Directives,   \* values of next_check_in_minutes a shift may write
  Min,          \* the shortest interval, heartbeat.interval_minutes.min
  Max,          \* the longest of them StateFrontmatter accepts
  DailyCap, WeeklyCap,
  Day, Week,    \* their windows
  Ticks,        \* bound: messages the beat sends
  MaxNow,       \* bound on time
  MaxFailures,  \* bound on lost processes and ticks that end in an exception
  MaxCalls      \* bound on the tool calls of one shift

CLAMP_MULTIPLIER == 4
NoTime == -1

ASSUME HeartbeatAssumption ==
  /\ IsFiniteSet(Workers)
  /\ Min \in Nat \ {0, 1} /\ Max \in Nat /\ Directives \subseteq Min .. Max
  /\ DailyCap \in Nat \ {0} /\ WeeklyCap \in Nat \ {0}
  /\ Day \in Nat \ {0} /\ Week \in Nat \ {0}
  /\ Ticks \in Nat /\ MaxNow \in Nat
  /\ MaxCalls \in Nat /\ MaxFailures \in Nat

VARIABLES
  now,      \* the clock
  queue,    \* heartbeat_tick messages waiting
  shifts,   \* heartbeat_shifts rows with spawned = true, oldest first
  skipped,  \* the exit_reason of the other rows
  pc,       \* pc[w]: where the tick in hand of w stands
  mem,      \* mem[w]: its local variables
  alive,    \* shifts whose subprocess runs
  calls,    \* tool calls on their way to the MCP server
  asked,    \* the calls each shift has made so far
  file,     \* STATE.md
  diary,    \* diary[d]: the entries of the day's file, or Absent
  said,     \* history: diary entries the MCP server answered "appended" to
  wiped,    \* history: entries a title replaced, and what its tick had seen
  heard,    \* history: shifts whose directive landed while they ran
  met,      \* history: pairs of shifts of which one could act on the other's files
  failures  \* processes lost and exceptions so far

vars == <<now, queue, shifts, skipped, pc, mem, alive, calls, asked, file,
          diary, said, wiped, heard, met, failures>>

Days == 0 .. (MaxNow \div Day)
DayOf(t) == t \div Day
Ids == DOMAIN shifts
NoFile == [next |-> 0, by |-> 0, ok |-> FALSE]
Absent == {0}                 \* no shift has the id 0

\* timeout and error are recorded and announced alike: they are "broken" here.
Exits == {"", "completed", "broken"}
Row == [at: Nat, seen: Nat, clamped: BOOLEAN, ended: BOOLEAN,
        exit: Exits,
        next: 0 .. Max, nextBy: Nat, snapBy: Nat]
File == [next: 0 .. Max, by: Nat, ok: BOOLEAN]
Local == [since: Nat, last: Nat \cup {NoTime}, req: 0 .. Max, today: Nat, week: Nat,
          seen: Nat, day: Days, id: Nat, exit: Exits,
          clamped: BOOLEAN, fm: File, snapBy: Nat]
Places == {"idle", "today", "week", "decide", "header", "insert", "launch", "wait",
           "read", "snap", "update", "card"}
Blank == [since |-> 0, last |-> NoTime, req |-> 0, today |-> 0, week |-> 0, seen |-> 0,
          day |-> 0, id |-> 0, exit |-> "", clamped |-> FALSE,
          fm |-> NoFile, snapBy |-> 0]

Init ==
  /\ now = 0
  /\ queue = Ticks
  /\ shifts = <<>>
  /\ skipped = {}
  /\ pc = [w \in Workers |-> "idle"]
  /\ mem = [w \in Workers |-> Blank]
  /\ alive = {} /\ calls = {} /\ asked = {}
  /\ file = NoFile
  /\ diary = [d \in Days |-> Absent]
  /\ said = {} /\ wiped = {} /\ heard = {} /\ met = {}
  /\ failures = 0

-----------------------------------------------------------------------------
(* Pacing.                                                                 *)

SpawnedSince(t) == Cardinality({i \in Ids : shifts[i].at >= t})

\* Rows that ORDER BY started_at DESC LIMIT 1 may return.
LastRows == {i \in Ids : \A j \in Ids : shifts[j].at <= shifts[i].at}

RequestedRaw(m) == m.req                      \* mutant: NULL asks for nothing
Requested(m) == IF m.req = 0 THEN Min ELSE m.req
TooSoon(m, t) == m.last # NoTime /\ t - m.last < Requested(m)
CapHitLate(m) == m.today > DailyCap           \* mutant: off by one
CapHit(m) == m.today >= DailyCap
WeekHitLate(m) == m.week > WeeklyCap         \* mutant: off by one
WeekHit(m) == m.week >= WeeklyCap

\* The first shift of all starts whatever the caps.
decide_whether_to_spawn(m, t) ==
  IF m.last = NoTime THEN "spawn"
  ELSE IF TooSoon(m, t) THEN "too_soon"
  ELSE IF CapHit(m) THEN "daily_cap_hit"
  ELSE IF WeekHit(m) THEN "weekly_cap_hit"
  ELSE "spawn"

Clamped(m, t) ==
  m.last # NoTime /\ t - m.last >= Requested(m) * CLAMP_MULTIPLIER

-----------------------------------------------------------------------------
(* The tick, one action per await or per use of a shared file.             *)

At(w, place) == pc[w] = place
Goto(w, place) == pc' = [pc EXCEPT ![w] = place]
Keep(w, m) == mem' = [mem EXCEPT ![w] = m]

\* The task ends.
Finish(w) == Goto(w, "idle") /\ Keep(w, Blank)

Tables == <<shifts, skipped>>
Agent == <<alive, calls, asked, file, diary, said, wiped, heard, met>>
Env == <<now, failures>>

\* A task starts with three SELECTs, each of which sees what is committed by then;
\* the windows of the two counts are those of the first.
Query(w) ==
  /\ At(w, "idle") /\ queue > 0
  /\ queue' = queue - 1
  /\ Goto(w, "today")
  /\ LET looked == [Blank EXCEPT !.since = now, !.seen = Len(shifts)]
     IN  \/ Ids = {} /\ Keep(w, looked)
         \/ \E i \in LastRows :
              Keep(w, [looked EXCEPT !.last = shifts[i].at, !.req = shifts[i].next])
  /\ UNCHANGED <<Tables, Agent, Env>>

CountToday(w) ==
  /\ At(w, "today")
  /\ Keep(w, [mem[w] EXCEPT !.today = SpawnedSince(DayOf(mem[w].since) * Day)])
  /\ Goto(w, "week")
  /\ UNCHANGED <<queue, Tables, Agent, Env>>

CountWeek(w) ==
  /\ At(w, "week")
  /\ Keep(w, [mem[w] EXCEPT !.week = SpawnedSince(mem[w].since - Week), !.since = 0])
  /\ Goto(w, "decide")
  /\ UNCHANGED <<queue, Tables, Agent, Env>>

\* A skipped row ends the task.
Skip(w) ==
  /\ At(w, "decide")
  /\ LET verdict == decide_whether_to_spawn(mem[w], now)
     IN  /\ verdict # "spawn"
         /\ skipped' = skipped \cup {verdict}
  /\ Finish(w)
  /\ UNCHANGED <<queue, shifts, Agent, Env>>

\* The decision to spawn and the look at the day's diary.
Decide(w) ==
  /\ At(w, "decide")
  /\ decide_whether_to_spawn(mem[w], now) = "spawn"
  /\ Keep(w, [Blank EXCEPT !.seen = mem[w].seen, !.day = DayOf(now),
                           !.clamped = Clamped(mem[w], now)])
  /\ Goto(w, IF diary[DayOf(now)] = Absent THEN "header" ELSE "insert")
  /\ UNCHANGED <<queue, Tables, Agent, Env>>

\* write_text: whatever the file holds by now is replaced by the title.
Header(w) ==
  /\ At(w, "header")
  /\ diary' = [diary EXCEPT ![mem[w].day] = {}]
  /\ wiped' = wiped \cup {[by |-> i, seen |-> mem[w].seen] : i \in diary[mem[w].day] \ Absent}
  /\ Goto(w, "insert")
  /\ UNCHANGED <<queue, mem, Tables, alive, calls, asked, file, said, heard, met, Env>>

Insert(w) ==
  /\ At(w, "insert")
  /\ shifts' = Append(shifts,
       [at |-> now, seen |-> mem[w].seen, clamped |-> mem[w].clamped,
        ended |-> FALSE, exit |-> "", next |-> 0, nextBy |-> 0, snapBy |-> 0])
  /\ Keep(w, [Blank EXCEPT !.id = Len(shifts) + 1])
  /\ Goto(w, "launch")
  /\ UNCHANGED <<queue, skipped, Agent, Env>>

\* Shifts that can still change STATE.md, or whose tick has yet to read it.
Active == alive \cup {c.by : c \in calls}
          \cup {mem[w].id : w \in {v \in Workers : pc[v] \in {"wait", "read", "snap"}}}

Launch(w) ==
  /\ At(w, "launch")
  /\ alive' = alive \cup {mem[w].id}
  /\ met' = met \cup {{i, mem[w].id} : i \in Active}
  /\ Goto(w, "wait")
  /\ UNCHANGED <<queue, mem, Tables, calls, asked, file, diary, said, wiped, heard, Env>>

\* policy.yaml without the timeout, or no claude binary: the task fails.
LaunchRaises(w) ==
  /\ At(w, "launch") /\ failures < MaxFailures
  /\ failures' = failures + 1
  /\ Finish(w)
  /\ UNCHANGED <<queue, Tables, Agent, now>>

\* A shift that ends by itself has the answers to its calls; one that breaks
\* off or is killed at the timeout may have a call on its way.
Waiting(i) == {c \in calls : c.by = i}
spawn_claude_shift(w, exit) ==
  /\ At(w, "wait")
  /\ exit = "completed" => Waiting(mem[w].id) = {}
  /\ alive' = alive \ {mem[w].id}
  /\ Keep(w, [mem[w] EXCEPT !.exit = exit])
  /\ Goto(w, "read")
  /\ UNCHANGED <<queue, Tables, calls, asked, file, diary, said, wiped, heard, met, Env>>

\* read_state: no file, or one that does not validate, leaves the two blank.
ReadStateStrict(w) ==                         \* mutant: no file is an error
  /\ At(w, "read")
  /\ IF file.ok THEN Goto(w, "snap") /\ Keep(w, [mem[w] EXCEPT !.fm = file])
                ELSE Finish(w)
  /\ UNCHANGED <<queue, Tables, Agent, Env>>

ReadState(w) ==
  /\ At(w, "read")
  /\ Keep(w, [mem[w] EXCEPT !.fm = file])
  /\ Goto(w, IF file.ok THEN "snap" ELSE "update")
  /\ UNCHANGED <<queue, Tables, Agent, Env>>

\* read_text: the file is opened a second time.
Snapshot(w) ==
  /\ At(w, "snap")
  /\ Keep(w, [mem[w] EXCEPT !.snapBy = file.by])
  /\ Goto(w, "update")
  /\ UNCHANGED <<queue, Tables, Agent, Env>>

Update(w) ==
  /\ At(w, "update")
  /\ shifts' = [shifts EXCEPT ![mem[w].id] =
       [@ EXCEPT !.ended = TRUE, !.exit = mem[w].exit, !.next = mem[w].fm.next,
                 !.nextBy = mem[w].fm.by, !.snapBy = mem[w].snapBy]]
  /\ Goto(w, "card") /\ Keep(w, Blank)
  /\ UNCHANGED <<queue, skipped, Agent, Env>>

\* The card of the shift is posted; until then the message may come again.
Card(w) ==
  /\ At(w, "card")
  /\ Finish(w)
  /\ UNCHANGED <<queue, Tables, Agent, Env>>

-----------------------------------------------------------------------------
(* The agent and the MCP server.                                           *)

Tools == {"write_state", "append_diary"}

\* A running shift calls write_state with a directive, or append_diary: each
\* once, one after the other, at most MaxCalls of them.
Call(i) ==
  /\ i \in alive /\ Waiting(i) = {}
  /\ \E c \in [by: {i}, tool: {"write_state"}, next: Directives]
              \cup [by: {i}, tool: {"append_diary"}, next: {0}] :
       /\ <<i, c.tool>> \notin asked
       /\ Cardinality({t \in Tools : <<i, t>> \in asked}) < MaxCalls
       /\ asked' = asked \cup {<<i, c.tool>>}
       /\ calls' = calls \cup {c}
  /\ UNCHANGED <<now, queue, Tables, pc, mem, alive, file, diary, said, wiped, heard, met,
                 failures>>

WriteTo(c, contents) ==
  /\ c.tool = "write_state"
  /\ file' = contents
  /\ heard' = heard \cup ({c.by} \cap alive)
  /\ calls' = calls \ {c}
  /\ UNCHANGED <<now, queue, Tables, pc, mem, alive, asked, diary, said, wiped, met, failures>>

Contents(c) == [next |-> c.next, by |-> c.by, ok |-> TRUE]

write_stateUnchecked(c) ==                    \* mutant: no upper limit
  WriteTo(c, [Contents(c) EXCEPT !.next = c.next + 1])
write_stateOnce(c) ==                         \* mutant: never replaces
  WriteTo(c, IF file.ok THEN file ELSE Contents(c))

\* os.replace: the file changes in one step.
write_state(c) == WriteTo(c, Contents(c))

\* Shifts whose tick is there to stop them at the timeout.
Supervised == {mem[w].id : w \in {v \in Workers : pc[v] \in {"launch", "wait"}}}

EntryTo(c, entries) ==
  /\ c.tool = "append_diary"
  /\ diary' = [diary EXCEPT ![DayOf(now)] = entries]
  /\ said' = said \cup {[by |-> c.by, day |-> DayOf(now), late |-> c.by \notin Supervised]}
  /\ calls' = calls \ {c}
  /\ UNCHANGED <<now, queue, Tables, pc, mem, alive, asked, file, wiped, heard, met, failures>>

append_diaryOver(c) == EntryTo(c, {c.by})     \* mutant: opened with "w"
append_diary(c) == EntryTo(c, (diary[DayOf(now)] \ Absent) \cup {c.by})

-----------------------------------------------------------------------------
(* Time, the beat, and lost processes.                                     *)

\* A message may wait for any time before a worker takes it, so the beat is a
\* number of messages.  From started_at to the end of the subprocess there is a
\* commit, a fork and a timeout shorter than a unit: one unit may pass, not two.
Tick ==
  /\ now < MaxNow
  /\ \A i \in Supervised : shifts[i].at = now
  /\ now' = now + 1
  /\ UNCHANGED <<queue, Tables, pc, mem, Agent, failures>>

\* The process is gone, the message is delivered again, and the subprocess,
\* if there is one, dies with it or runs on with nobody to stop it.
Lose(w) ==
  /\ pc[w] # "idle" /\ failures < MaxFailures
  /\ failures' = failures + 1
  /\ queue' = queue + 1
  /\ Finish(w)
  /\ alive' \in {alive, alive \ {mem[w].id}}
  /\ UNCHANGED <<now, Tables, calls, asked, file, diary, said, wiped, heard, met>>

OrphanEnds(i) ==
  /\ i \in alive \ Supervised
  /\ alive' = alive \ {i}
  /\ UNCHANGED <<now, queue, Tables, pc, mem, calls, asked, file, diary, said, wiped, heard, met,
                 failures>>

heartbeat_tick(w) ==
  \/ Query(w) \/ CountToday(w) \/ CountWeek(w)
  \/ Skip(w) \/ Decide(w) \/ Header(w) \/ Insert(w)
  \/ Launch(w) \/ LaunchRaises(w)
  \/ \E exit \in Exits \ {""} : spawn_claude_shift(w, exit)
  \/ ReadState(w) \/ Snapshot(w) \/ Update(w) \/ Card(w)

Serve(c) == write_state(c) \/ append_diary(c)

Next ==
  \/ \E w \in Workers : heartbeat_tick(w) \/ Lose(w)
  \/ \E i \in alive : Call(i) \/ OrphanEnds(i)
  \/ \E c \in calls : Serve(c)
  \/ Tick

Spec == Init /\ [][Next]_vars

-----------------------------------------------------------------------------
(* Properties.                                                             *)

\* The tables, the files and the local variables have their types.
TypeOK ==
  /\ now \in 0 .. MaxNow /\ queue \in Nat
  /\ shifts \in Seq(Row)
  /\ skipped \subseteq {"too_soon", "daily_cap_hit", "weekly_cap_hit"}
  /\ pc \in [Workers -> Places]
  /\ mem \in [Workers -> Local]
  /\ alive \subseteq Ids /\ heard \subseteq Ids
  /\ calls \subseteq [by: Ids, tool: Tools, next: 0 .. Max]
  /\ asked \subseteq Ids \X Tools
  /\ file \in File
  /\ diary \in [Days -> {Absent} \cup SUBSET (Nat \ {0})]
  /\ said \subseteq [by: Ids, day: Days, late: BOOLEAN]
  /\ wiped \subseteq [by: Nat, seen: Nat]
  /\ met \subseteq SUBSET Ids
  /\ failures \in 0 .. MaxFailures

Processes == Cardinality(Workers)

\* heartbeat_tick counts before it inserts, in a transaction of its own: the shifts
\* of a day or a week pass the cap by less than the number of worker processes,
\* whatever the backlog, the redeliveries and the midnights in between.
CapsSlack ==
  /\ SpawnedSince(DayOf(now) * Day) <= DailyCap + Processes - 1
  /\ SpawnedSince(now - Week) <= WeeklyCap + Processes - 1

Holders(i) == {w \in Workers : pc[w] # "idle" /\ mem[w].id = i}

\* Nothing locks the runtime directory: two shifts run together only if the
\* tick of the later read the history before the row of the earlier was there,
\* or the process that would stop the earlier at its timeout is lost.
Exclusive ==
  \A i, j \in alive : i < j =>
    shifts[j].seen < i \/ Holders(i) = {}

\* A spawned row left without ended_at and exit_reason by heartbeat_tick stands
\* for a process that was lost or a subprocess that could not be started.
Abandoned == {i \in Ids : ~shifts[i].ended /\ Holders(i) = {}}
RowsExplained == Cardinality(Abandoned) <= failures

\* The directive in a closed row is that of the shift itself if it wrote one
\* while it ran, or of a shift it ran beside; and state_snapshot is the text
\* the directive was read from, unless another shift or a call that outlived
\* the shift wrote STATE.md between the two reads.
Partners(i) == UNION {p \in met : i \in p}
DirectiveOwned ==
  \A i \in Ids : shifts[i].ended =>
    /\ i \in heard => shifts[i].nextBy \in {i} \cup Partners(i)
    /\ shifts[i].exit = "completed" /\ Partners(i) = {} => shifts[i].snapBy = shifts[i].nextBy

\* An entry append_diary acknowledged while a tick supervises its shift is lost
\* only to the title of a tick that had read the history before the shift's row
\* was there and found no file: whatever midnights, retries and lost processes
\* come between the look at the diary and the title.
DiaryKept ==
  \A e \in said : ~e.late =>
    e.by \in diary[e.day] \/ \E x \in wiped : x.by = e.by /\ x.seen < e.by
=============================================================================
