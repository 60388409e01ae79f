--------------------------- MODULE Heartbeat_proofs ---------------------------
(* Theorems about Heartbeat, for every value of its constants.             *)
EXTENDS Heartbeat, FiniteSetTheorems, TLAPS

(***************************************************************************)
(* Windows.  The start of the day never moves back.                        *)
(***************************************************************************)
LEMMA Division ==
  ASSUME NEW a \in Nat, NEW d \in Nat \ {0}
  PROVE  /\ a \div d \in Nat
         /\ d * (a \div d) <= a /\ a < d * (a \div d) + d
  OBVIOUS

LEMMA DivisionOrder ==
  ASSUME NEW a \in Nat, NEW b \in Nat, a <= b, NEW d \in Nat \ {0}
  PROVE  /\ a \div d <= b \div d
         /\ (a \div d) * d \in Nat /\ (b \div d) * d \in Nat
         /\ (a \div d) * d <= (b \div d) * d
<1> DEFINE q == a \div d
           r == b \div d
<1>1. q \in Nat /\ r \in Nat /\ d * q <= a /\ b < d * r + d
  BY Division
<1> HIDE DEF q, r
<1>2. q <= r
  <2> SUFFICES ASSUME r + 1 <= q PROVE FALSE
    BY <1>1
  <2>1. d * (r + 1) <= d * q
    BY <1>1
  <2>2. d * (r + 1) = d * r + d
    BY <1>1
  <2> QED BY <1>1, <2>1, <2>2
<1>3. q * d \in Nat /\ r * d \in Nat /\ q * d <= r * d
  BY <1>1, <1>2
<1> QED BY <1>2, <1>3 DEF q, r

-----------------------------------------------------------------------------
(***************************************************************************)
(* Types.  A tick past its insert holds the number of a row.               *)
(***************************************************************************)
HasRow == {"launch", "wait", "read", "snap", "update"}
Held == \A w \in Workers : pc[w] \in HasRow => mem[w].id \in Ids
TypeInv == TypeOK /\ Held

LEMMA BlankTyped == NoFile \in File /\ Blank \in Local
<1> USE HeartbeatAssumption
<1>1. 0 \in 0 .. Max
  OBVIOUS
<1>2. NoFile \in File
  BY <1>1 DEF NoFile, File
<1>3. NoTime \in Nat \cup {NoTime} /\ "" \in Exits
  BY DEF Exits
<1>4. 0 \in Days
  <2>1. MaxNow \div Day \in Nat
    BY Division
  <2> QED BY <2>1 DEF Days
<1> QED BY <1>1, <1>2, <1>3, <1>4 DEF Blank, Local

LEMMA TypeInit == Init => TypeInv
<1> SUFFICES ASSUME Init PROVE TypeInv
  OBVIOUS
<1> USE HeartbeatAssumption
<1>1. mem \in [Workers -> Local] /\ file \in File
  BY BlankTyped DEF Init
<1>2. diary \in [Days -> {Absent} \cup SUBSET (Nat \ {0})]
  BY DEF Init
<1>3. pc \in [Workers -> Places] /\ Held
  BY DEF Init, Places, HasRow, Held
<1>4. shifts \in Seq(Row) /\ now \in 0 .. MaxNow /\ failures \in 0 .. MaxFailures
      /\ queue \in Nat
  BY DEF Init
<1> QED BY <1>1, <1>2, <1>3, <1>4 DEF Init, TypeInv, TypeOK

\* Counts of rows and days are natural numbers, and today is one of the days.
LEMMA DayTyped == TypeOK => DayOf(now) \in Days
<1> SUFFICES ASSUME TypeOK PROVE DayOf(now) \in Days
  OBVIOUS
<1>1. now \in Nat /\ MaxNow \in Nat /\ now <= MaxNow /\ Day \in Nat \ {0}
  BY HeartbeatAssumption DEF TypeOK
<1>2. now \div Day \in Nat /\ MaxNow \div Day \in Nat /\ now \div Day <= MaxNow \div Day
  BY <1>1, Division, DivisionOrder
<1> QED BY <1>2 DEF DayOf, Days

LEMMA CountTyped ==
  ASSUME TypeOK, NEW t
  PROVE  /\ IsFiniteSet({i \in Ids : shifts[i].at >= t})
         /\ SpawnedSince(t) \in Nat
<1>1. Ids = 1 .. Len(shifts) /\ Len(shifts) \in Nat
  BY DEF TypeOK, Ids
<1>2. IsFiniteSet(Ids)
  BY <1>1, FS_Interval
<1>3. {i \in Ids : shifts[i].at >= t} \in SUBSET Ids
  OBVIOUS
<1> QED BY <1>2, <1>3, FS_Subset, FS_CardinalityType DEF SpawnedSince

LEMMA RowTyped ==
  ASSUME TypeInv
  PROVE  /\ shifts \in Seq(Row) /\ Len(shifts) \in Nat
         /\ Ids = 1 .. Len(shifts)
         /\ \A i \in Ids : shifts[i] \in Row
<1>1. shifts \in Seq(Row)
  BY DEF TypeInv, TypeOK
<1> QED BY <1>1 DEF Ids

\* A step of w that moves it to a place, and leaves what it says or what it had.
LEMMA TaskTyped ==
  ASSUME TypeInv, NEW w \in Workers, NEW place \in Places, NEW m \in Local,
         Goto(w, place), Keep(w, m)
  PROVE  pc' \in [Workers -> Places] /\ mem' \in [Workers -> Local]
  BY DEF TypeInv, TypeOK, Goto, Keep

\* What a step of w leaves of the tasks.
LEMMA TaskStep ==
  ASSUME TypeInv, NEW w \in Workers, NEW place, NEW m, Goto(w, place), Keep(w, m)
  PROVE  /\ pc'[w] = place /\ mem'[w] = m
         /\ \A v \in Workers \ {w} : pc'[v] = pc[v] /\ mem'[v] = mem[v]
<1>1. pc' = [pc EXCEPT ![w] = place] /\ mem' = [mem EXCEPT ![w] = m]
      /\ pc \in [Workers -> Places] /\ mem \in [Workers -> Local]
  BY DEF TypeInv, TypeOK, Goto, Keep
<1> QED BY <1>1

\* No row is taken away, so whoever holds one goes on holding it.
LEMMA HeldKept ==
  ASSUME TypeInv, NEW w \in Workers, Ids \subseteq Ids',
         \A v \in Workers \ {w} : pc'[v] = pc[v] /\ mem'[v] = mem[v],
         pc'[w] \in HasRow => mem'[w].id \in Ids'
  PROVE  Held'
  BY DEF TypeInv, TypeOK, Held

LEMMA RowsKept ==
  ASSUME TypeInv, NEW w \in Workers, NEW place \in Places, NEW m \in Local,
         Goto(w, place), Keep(w, m), Ids \subseteq Ids', place \in HasRow => m.id \in Ids'
  PROVE  Held'
<1>1. pc' = [pc EXCEPT ![w] = place] /\ mem' = [mem EXCEPT ![w] = m]
      /\ pc \in [Workers -> Places] /\ mem \in [Workers -> Local]
  BY DEF TypeInv, TypeOK, Goto, Keep
<1>2. \A v \in Workers \ {w} : pc'[v] = pc[v] /\ mem'[v] = mem[v]
  BY <1>1
<1>3. pc'[w] = place /\ mem'[w] = m
  BY <1>1
<1> QED BY <1>2, <1>3, HeldKept

\* To keep every task's variables is to keep one's own.
LEMMA MineKept ==
  ASSUME TypeInv, NEW w \in Workers
  PROVE  mem[w] \in Local /\ (mem' = mem => Keep(w, mem[w]))
<1>1. mem \in [Workers -> Local]
  BY DEF TypeInv, TypeOK
<1>2. mem = [mem EXCEPT ![w] = mem[w]]
  BY <1>1
<1> QED BY <1>1, <1>2 DEF Keep

\* A step of w on its local variables only.
Private(w) ==
  \E place \in Places, m \in Local :
    /\ Goto(w, place) /\ Keep(w, m)
    /\ place \in HasRow => m.id \in Ids
    /\ UNCHANGED <<shifts, alive, calls, asked, file, said, heard, met, now, failures>>

LEMMA PrivateTyped ==
  ASSUME TypeInv, NEW w \in Workers, Private(w), queue' \in Nat,
         skipped' \subseteq {"too_soon", "daily_cap_hit", "weekly_cap_hit"},
         diary' \in [Days -> {Absent} \cup SUBSET (Nat \ {0})],
         wiped' \subseteq [by: Nat, seen: Nat]
  PROVE  TypeInv'
<1> PICK place \in Places, m \in Local :
           /\ Goto(w, place) /\ Keep(w, m)
           /\ place \in HasRow => m.id \in Ids
           /\ UNCHANGED <<shifts, alive, calls, asked, file, said, heard, met, now, failures>>
  BY DEF Private
<1>1. pc' \in [Workers -> Places] /\ mem' \in [Workers -> Local]
  BY TaskTyped
<1>2. Ids' = Ids
  BY DEF Ids
<1>3. Held'
  BY <1>2, RowsKept
<1> QED BY <1>1, <1>2, <1>3 DEF TypeInv, TypeOK

LEMMA QueryTyped ==
  ASSUME TypeInv, NEW w \in Workers, Query(w)
  PROVE  TypeInv'
<1> DEFINE looked == [Blank EXCEPT !.since = now, !.seen = Len(shifts)]
<1>1. looked \in Local
  <2>1. Len(shifts) \in Nat /\ now \in Nat
    BY RowTyped, HeartbeatAssumption DEF TypeInv, TypeOK
  <2> QED BY <2>1, BlankTyped DEF Local
<1>2. \A i \in LastRows : shifts[i].at \in Nat /\ shifts[i].next \in 0 .. Max
  BY RowTyped DEF LastRows, Row
<1>3. PICK m \in Local : Keep(w, m)
  <2>1. CASE Ids = {} /\ Keep(w, looked)
    BY <1>1, <2>1
  <2>2. CASE \E i \in LastRows :
               Keep(w, [looked EXCEPT !.last = shifts[i].at, !.req = shifts[i].next])
    <3> PICK i \in LastRows :
               Keep(w, [looked EXCEPT !.last = shifts[i].at, !.req = shifts[i].next])
      BY <2>2
    <3> HIDE DEF looked
    <3>1. shifts[i].at \in Nat \cup {NoTime} /\ shifts[i].next \in 0 .. Max
      BY <1>2
    <3>2. [looked EXCEPT !.last = shifts[i].at, !.req = shifts[i].next] \in Local
      BY <1>1, <3>1 DEF Local
    <3> QED BY <3>2
  <2> QED BY <2>1, <2>2 DEF Query
<1>4. Private(w)
  BY <1>3 DEF Query, Private, Places, HasRow, Tables, Agent, Env
<1>5. queue > 0 /\ queue' = queue - 1 /\ skipped' = skipped /\ diary' = diary /\ wiped' = wiped
  BY DEF Query, Tables, Agent, Env
<1>6. /\ queue' \in Nat
      /\ skipped' \subseteq {"too_soon", "daily_cap_hit", "weekly_cap_hit"}
      /\ diary' \in [Days -> {Absent} \cup SUBSET (Nat \ {0})]
      /\ wiped' \subseteq [by: Nat, seen: Nat]
  BY <1>5 DEF TypeInv, TypeOK
<1> QED BY <1>4, <1>6, PrivateTyped

\* What the two counts leave in a task's variables.
Counted(w, m) ==
  \/ CountToday(w) /\ m = [mem[w] EXCEPT !.today = SpawnedSince(DayOf(mem[w].since) * Day)]
  \/ CountWeek(w) /\ m = [mem[w] EXCEPT !.week = SpawnedSince(mem[w].since - Week), !.since = 0]

LEMMA CountedTyped ==
  ASSUME TypeInv, NEW w \in Workers, CountToday(w) \/ CountWeek(w)
  PROVE  \E m \in Local : /\ Keep(w, m) /\ Counted(w, m)
                          /\ m.seen = mem[w].seen /\ m.last = mem[w].last
                          /\ m.req = mem[w].req /\ m.fm = mem[w].fm /\ m.id = mem[w].id
                          /\ m.since \in {mem[w].since, 0}
<1>1. mem[w] \in Local /\ TypeOK
  BY MineKept DEF TypeInv
<1>2. \A t : SpawnedSince(t) \in Nat
  BY <1>1, CountTyped
<1>3. CASE CountToday(w)
  <2> DEFINE m == [mem[w] EXCEPT !.today = SpawnedSince(DayOf(mem[w].since) * Day)]
  <2>1. m \in Local /\ m.seen = mem[w].seen /\ m.last = mem[w].last /\ m.req = mem[w].req
        /\ m.fm = mem[w].fm /\ m.id = mem[w].id /\ m.since = mem[w].since
    BY <1>1, <1>2 DEF Local
  <2>2. Keep(w, m) /\ Counted(w, m)
    BY <1>3 DEF CountToday, Counted
  <2> HIDE DEF m
  <2> QED BY <2>1, <2>2
<1>4. CASE CountWeek(w)
  <2> DEFINE m == [mem[w] EXCEPT !.week = SpawnedSince(mem[w].since - Week), !.since = 0]
  <2>1. m \in Local /\ m.seen = mem[w].seen /\ m.last = mem[w].last /\ m.req = mem[w].req
        /\ m.fm = mem[w].fm /\ m.id = mem[w].id /\ m.since = 0
    BY <1>1, <1>2 DEF Local
  <2>2. Keep(w, m) /\ Counted(w, m)
    BY <1>4 DEF CountWeek, Counted
  <2> HIDE DEF m
  <2> QED BY <2>1, <2>2
<1> QED BY <1>3, <1>4

\* The steps of a task that holds no row, but for the INSERT.
BeforeInsert(w) == \/ Query(w) \/ CountToday(w) \/ CountWeek(w) \/ Skip(w) \/ Decide(w)
                   \/ Header(w) \/ Card(w)

LEMMA BeforeRow ==
  ASSUME TypeInv, NEW w \in Workers, BeforeInsert(w)
  PROVE  /\ \E place, m : /\ Goto(w, place) /\ Keep(w, m)
                          /\ place \in {"idle", "today", "week", "decide", "header", "insert"}
         /\ pc[w] \in {"idle", "today", "week", "decide", "header", "card"}
         /\ UNCHANGED <<shifts, alive, calls, file, heard, met, failures>>
<1>1. /\ pc[w] \in {"idle", "today", "week", "decide", "header", "card"}
      /\ UNCHANGED <<shifts, alive, calls, file, heard, met, failures>>
  BY DEF BeforeInsert, Query, CountToday, CountWeek, Skip, Decide, Header, Card, At, Tables,
         Agent, Env
<1>2. CASE Query(w)
  <2>1. \E m : Keep(w, m)
    BY <1>2 DEF Query
  <2> QED BY <1>1, <1>2, <2>1 DEF Query
<1>3. CASE CountToday(w) \/ CountWeek(w)
  BY <1>1, <1>3 DEF CountToday, CountWeek
<1>4. CASE Skip(w) \/ Card(w)
  BY <1>1, <1>4 DEF Skip, Card, Finish
<1>5. CASE Header(w)
  <2>1. Goto(w, "insert") /\ Keep(w, mem[w])
    BY <1>5, MineKept DEF Header
  <2> QED BY <1>1, <2>1
<1>6. CASE Decide(w)
  <2> DEFINE place == IF diary[DayOf(now)] = Absent THEN "header" ELSE "insert"
  <2>1. \E m : Goto(w, place) /\ Keep(w, m)
    BY <1>6 DEF Decide
  <2>2. place \in {"header", "insert"}
    OBVIOUS
  <2> HIDE DEF place
  <2> QED BY <1>1, <2>1, <2>2
<1> QED BY <1>2, <1>3, <1>4, <1>5, <1>6 DEF BeforeInsert

\* Both counts, the card: steps that move a task and leave all else.
LEMMA QuietTyped ==
  ASSUME TypeInv, NEW w \in Workers, CountToday(w) \/ CountWeek(w) \/ Card(w)
  PROVE  TypeInv'
<1>1. UNCHANGED <<queue, shifts, skipped, alive, calls, asked, file, diary, said, wiped, heard,
                  met, now, failures>>
  BY DEF CountToday, CountWeek, Card, Tables, Agent, Env
<1>2. \E place \in Places \ HasRow, m \in Local : Goto(w, place) /\ Keep(w, m)
  <2>1. CASE CountToday(w) \/ CountWeek(w)
    <3>1. \E m \in Local : Keep(w, m)
      BY <2>1, CountedTyped
    <3> QED BY <2>1, <3>1 DEF CountToday, CountWeek, Places, HasRow
  <2>2. CASE Card(w)
    BY <2>2, BlankTyped DEF Card, Finish, Places, HasRow
  <2> QED BY <2>1, <2>2
<1>3. Private(w)
  BY <1>1, <1>2 DEF Private
<1> QED BY <1>1, <1>3, PrivateTyped DEF TypeInv, TypeOK

LEMMA SkipTyped ==
  ASSUME TypeInv, NEW w \in Workers, Skip(w)
  PROVE  TypeInv'
<1>1. Private(w)
  BY BlankTyped DEF Skip, Finish, Private, Places, HasRow, Tables, Agent, Env
<1>2. skipped' \subseteq {"too_soon", "daily_cap_hit", "weekly_cap_hit"}
  BY DEF Skip, decide_whether_to_spawn, TypeInv, TypeOK
<1> QED BY <1>1, <1>2, PrivateTyped DEF Skip, TypeInv, TypeOK, Tables, Agent, Env

LEMMA DecideTyped ==
  ASSUME TypeInv, NEW w \in Workers, Decide(w)
  PROVE  TypeInv'
<1> DEFINE m == [Blank EXCEPT !.seen = mem[w].seen, !.day = DayOf(now),
                              !.clamped = Clamped(mem[w], now)]
           place == IF diary[DayOf(now)] = Absent THEN "header" ELSE "insert"
<1>1. mem[w].seen \in Nat /\ DayOf(now) \in Days
  <2>1. mem[w] \in Local /\ TypeOK
    BY MineKept DEF TypeInv
  <2> QED BY <2>1, DayTyped DEF Local
<1>2. Clamped(mem[w], now) \in BOOLEAN
  BY DEF Clamped
<1>3. m \in Local
  BY <1>1, <1>2, BlankTyped DEF Local
<1>4. place \in Places /\ place \notin HasRow
  BY DEF Places, HasRow
<1>5. Private(w)
  BY <1>3, <1>4 DEF Decide, Private, Tables, Agent, Env
<1> QED BY <1>5, PrivateTyped DEF Decide, TypeInv, TypeOK, Tables, Agent, Env

LEMMA HeaderTyped ==
  ASSUME TypeInv, NEW w \in Workers, Header(w)
  PROVE  TypeInv'
<1>1. diary' \in [Days -> {Absent} \cup SUBSET (Nat \ {0})]
  BY DEF Header, TypeInv, TypeOK
<1>2. Goto(w, "insert") /\ Keep(w, mem[w]) /\ mem[w] \in Local
  BY MineKept DEF Header
<1>3. Private(w)
  BY <1>2 DEF Header, Private, Places, HasRow, Tables, Env
<1>4. wiped' \subseteq [by: Nat, seen: Nat]
  <2>1. wiped' = wiped \cup {[by |-> i, seen |-> mem[w].seen] : i \in diary[mem[w].day] \ Absent}
    BY DEF Header
  <2>2. mem[w].seen \in Nat /\ wiped \subseteq [by: Nat, seen: Nat]
    BY <1>2 DEF Local, TypeInv, TypeOK
  <2>3. ASSUME NEW i \in diary[mem[w].day] \ Absent PROVE i \in Nat
    <3>1. mem[w].day \in Days
      BY <1>2 DEF Local
    <3>2. diary[mem[w].day] \in {Absent} \cup SUBSET (Nat \ {0})
      BY <3>1 DEF TypeInv, TypeOK
    <3> QED BY <2>3, <3>2 DEF Absent
  <2> QED BY <2>1, <2>2, <2>3
<1> QED BY <1>1, <1>3, <1>4, PrivateTyped DEF Header, TypeInv, TypeOK, Tables

LEMMA InsertTyped ==
  ASSUME TypeInv, NEW w \in Workers, Insert(w)
  PROVE  TypeInv'
<1> DEFINE row == [at |-> now, seen |-> mem[w].seen, clamped |-> mem[w].clamped,
                   ended |-> FALSE, exit |-> "", next |-> 0, nextBy |-> 0, snapBy |-> 0]
           m == [Blank EXCEPT !.id = Len(shifts) + 1]
<1>1. mem[w] \in Local /\ now \in Nat
  BY HeartbeatAssumption DEF TypeInv, TypeOK
<1>2. row \in Row
  <2>1. mem[w].seen \in Nat /\ mem[w].clamped \in BOOLEAN
    BY <1>1 DEF Local
  <2>2. 0 \in 0 .. Max /\ "" \in Exits
    BY HeartbeatAssumption DEF Exits
  <2> QED BY <1>1, <2>1, <2>2 DEF Row
<1> HIDE DEF row
<1>3. shifts' = Append(shifts, row)
  BY DEF Insert, row
<1>4. /\ shifts' \in Seq(Row) /\ Len(shifts') = Len(shifts) + 1
      /\ Ids \subseteq Ids' /\ Len(shifts) + 1 \in Ids'
  BY <1>2, <1>3, RowTyped DEF Ids
<1>5. m \in Local /\ m.id = Len(shifts) + 1
  <2>1. Len(shifts) + 1 \in Nat
    BY RowTyped
  <2>2. Blank \in Local
    BY BlankTyped
  <2> QED BY <2>1, <2>2 DEF Local, Blank
<1> HIDE DEF m
<1>6. Goto(w, "launch") /\ Keep(w, m)
  BY DEF Insert, m
<1>7. pc' \in [Workers -> Places] /\ mem' \in [Workers -> Local]
  BY <1>5, <1>6, TaskTyped DEF Places
<1>8. Held'
  BY <1>4, <1>5, <1>6, RowsKept DEF Places
<1>9. /\ UNCHANGED <<queue, skipped, alive, calls, asked, file, diary, said, wiped, heard, met,
                     now, failures>>
  BY DEF Insert, Agent, Env
<1>10. /\ alive \subseteq Ids' /\ heard \subseteq Ids'
       /\ calls \subseteq [by: Ids', tool: Tools, next: 0 .. Max]
       /\ asked \subseteq Ids' \X Tools
       /\ said \subseteq [by: Ids', day: Days, late: BOOLEAN]
       /\ met \subseteq SUBSET Ids'
  BY <1>4 DEF TypeInv, TypeOK
<1> QED BY <1>4, <1>7, <1>8, <1>9, <1>10 DEF TypeInv, TypeOK

LEMMA LaunchTyped ==
  ASSUME TypeInv, NEW w \in Workers, Launch(w)
  PROVE  TypeInv'
<1>1. Ids' = Ids /\ mem[w].id \in Ids
  BY DEF Launch, Tables, Ids, TypeInv, Held, At, HasRow
<1>2. Goto(w, "wait") /\ Keep(w, mem[w]) /\ mem[w] \in Local
  BY MineKept DEF Launch
<1>3. pc' \in [Workers -> Places] /\ mem' \in [Workers -> Local]
  BY <1>2, TaskTyped DEF Places
<1>4. Held'
  BY <1>1, <1>2, RowsKept DEF Places
<1>5. Active \subseteq Ids
  <2>1. \A c \in calls : c.by \in Ids
    BY DEF TypeInv, TypeOK
  <2>2. \A v \in Workers : pc[v] \in {"wait", "read", "snap"} => mem[v].id \in Ids
    BY DEF TypeInv, Held, HasRow
  <2> QED BY <2>1, <2>2 DEF Active, TypeInv, TypeOK
<1>6. alive' \subseteq Ids /\ met' \subseteq SUBSET Ids
  <2>1. met \subseteq SUBSET Ids /\ alive \subseteq Ids
    BY DEF TypeInv, TypeOK
  <2>2. \A i \in Active : {i, mem[w].id} \in SUBSET Ids
    BY <1>1, <1>5
  <2> QED BY <1>1, <2>1, <2>2 DEF Launch
<1>7. UNCHANGED <<queue, shifts, skipped, calls, asked, file, diary, said, wiped, heard, now,
                failures>>
  BY DEF Launch, Tables, Env
<1> QED BY <1>1, <1>3, <1>4, <1>6, <1>7 DEF TypeInv, TypeOK

LEMMA LaunchRaisesTyped ==
  ASSUME TypeInv, NEW w \in Workers, LaunchRaises(w)
  PROVE  TypeInv'
<1>1. Goto(w, "idle") /\ Keep(w, Blank) /\ Blank \in Local
  BY BlankTyped DEF LaunchRaises, Finish
<1>2. pc' \in [Workers -> Places] /\ mem' \in [Workers -> Local]
  BY <1>1, TaskTyped DEF Places
<1>3. UNCHANGED <<queue, shifts, skipped, alive, calls, asked, file, diary, said, wiped, heard,
                  met, now>> /\ Ids' = Ids
  BY DEF LaunchRaises, Tables, Agent, Ids
<1>4. Held'
  BY <1>1, <1>3, RowsKept DEF Places, HasRow
<1>5. failures' \in 0 .. MaxFailures
  <2>1. failures \in 0 .. MaxFailures /\ failures < MaxFailures /\ MaxFailures \in Nat
        /\ failures' = failures + 1
    BY HeartbeatAssumption DEF LaunchRaises, TypeInv, TypeOK
  <2> QED BY <2>1
<1> QED BY <1>2, <1>3, <1>4, <1>5 DEF TypeInv, TypeOK

LEMMA ShiftTyped ==
  ASSUME TypeInv, NEW w \in Workers, NEW exit \in Exits, spawn_claude_shift(w, exit)
  PROVE  TypeInv'
<1> DEFINE m == [mem[w] EXCEPT !.exit = exit]
<1>1. m \in Local /\ m.id = mem[w].id
  BY MineKept DEF Local
<1>2. Goto(w, "read") /\ Keep(w, m)
  BY DEF spawn_claude_shift
<1> HIDE DEF m
<1>3. pc' \in [Workers -> Places] /\ mem' \in [Workers -> Local]
  BY <1>1, <1>2, TaskTyped DEF Places
<1>4. UNCHANGED <<queue, shifts, skipped, calls, asked, file, diary, said, wiped, heard, met, now,
                  failures>> /\ Ids' = Ids /\ alive' \subseteq alive
  BY DEF spawn_claude_shift, Tables, Env, Ids
<1>5. mem[w].id \in Ids
  BY DEF spawn_claude_shift, At, TypeInv, Held, HasRow
<1>6. Held'
  BY <1>1, <1>2, <1>4, <1>5, RowsKept DEF Places
<1> QED BY <1>3, <1>4, <1>6 DEF TypeInv, TypeOK

LEMMA ReadStateTyped ==
  ASSUME TypeInv, NEW w \in Workers, ReadState(w)
  PROVE  TypeInv'
<1> DEFINE m == [mem[w] EXCEPT !.fm = file]
           place == IF file.ok THEN "snap" ELSE "update"
<1>1. m \in Local /\ m.id = mem[w].id
  <2>1. file \in File
    BY DEF TypeInv, TypeOK
  <2> QED BY <2>1, MineKept DEF Local
<1>2. mem[w].id \in Ids
  BY DEF ReadState, At, TypeInv, Held, HasRow
<1>3. place \in Places
  BY DEF Places
<1>4. Private(w)
  BY <1>1, <1>2, <1>3 DEF ReadState, Private, Tables, Agent, Env
<1> QED BY <1>4, PrivateTyped DEF ReadState, TypeInv, TypeOK, Tables, Agent, Env

LEMMA SnapshotTyped ==
  ASSUME TypeInv, NEW w \in Workers, Snapshot(w)
  PROVE  TypeInv'
<1> DEFINE m == [mem[w] EXCEPT !.snapBy = file.by]
<1>1. m \in Local /\ m.id = mem[w].id
  <2>1. file.by \in Nat
    BY DEF TypeInv, TypeOK, File
  <2> QED BY <2>1, MineKept DEF Local
<1>2. mem[w].id \in Ids
  BY DEF Snapshot, At, TypeInv, Held, HasRow
<1>3. Private(w)
  BY <1>1, <1>2 DEF Snapshot, Private, Places, Tables, Agent, Env
<1> QED BY <1>3, PrivateTyped DEF Snapshot, TypeInv, TypeOK, Tables, Agent, Env

LEMMA UpdateTyped ==
  ASSUME TypeInv, NEW w \in Workers, Update(w)
  PROVE  /\ TypeInv'
         /\ Ids' = Ids
         /\ \A i \in Ids : shifts'[i].at = shifts[i].at
<1> DEFINE id == mem[w].id
           row == [shifts[id] EXCEPT
                     !.ended = TRUE, !.exit = mem[w].exit, !.next = mem[w].fm.next,
                     !.nextBy = mem[w].fm.by, !.snapBy = mem[w].snapBy]
<1>1. id \in Ids /\ shifts[id] \in Row
  BY RowTyped DEF Update, At, TypeInv, Held, HasRow
<1>2. row \in Row /\ row.at = shifts[id].at
  <2>1. /\ mem[w].exit \in Exits /\ mem[w].snapBy \in Nat
        /\ mem[w].fm.next \in 0 .. Max /\ mem[w].fm.by \in Nat
    BY MineKept DEF Local, File
  <2> HIDE DEF id
  <2> QED BY <1>1, <2>1 DEF Row
<1>3. shifts' = [shifts EXCEPT ![id] = row]
  BY <1>1, RowTyped DEF Update
<1> HIDE DEF row, id
<1>4. shifts' \in Seq(Row) /\ Ids' = Ids /\ \A i \in Ids : shifts'[i].at = shifts[i].at
  BY <1>1, <1>2, <1>3, RowTyped DEF Ids
<1>5. Goto(w, "card") /\ Keep(w, Blank) /\ Blank \in Local
  BY BlankTyped DEF Update
<1>6. pc' \in [Workers -> Places] /\ mem' \in [Workers -> Local]
  BY <1>5, TaskTyped DEF Places
<1>7. Held'
  BY <1>4, <1>5, RowsKept DEF Places, HasRow
<1>8. UNCHANGED <<queue, skipped, alive, calls, asked, file, diary, said, wiped, heard, met,
                  now, failures>>
  BY DEF Update, Agent, Env
<1> QED BY <1>4, <1>6, <1>7, <1>8 DEF TypeInv, TypeOK

LEMMA LoseTyped ==
  ASSUME TypeInv, NEW w \in Workers, Lose(w)
  PROVE  TypeInv'
<1>1. Goto(w, "idle") /\ Keep(w, Blank) /\ Blank \in Local
  BY BlankTyped DEF Lose, Finish
<1>2. pc' \in [Workers -> Places] /\ mem' \in [Workers -> Local]
  BY <1>1, TaskTyped DEF Places
<1>3. UNCHANGED <<shifts, skipped, calls, asked, file, diary, said, wiped, heard, met, now>>
      /\ Ids' = Ids /\ alive' \subseteq alive
  BY DEF Lose, Tables, Ids
<1>4. Held'
  BY <1>1, <1>3, RowsKept DEF Places, HasRow
<1>5. failures' \in 0 .. MaxFailures /\ queue' \in Nat
  <2>1. failures \in 0 .. MaxFailures /\ failures < MaxFailures /\ MaxFailures \in Nat
        /\ failures' = failures + 1 /\ queue \in Nat /\ queue' = queue + 1
    BY HeartbeatAssumption DEF Lose, TypeInv, TypeOK
  <2> QED BY <2>1
<1> QED BY <1>2, <1>3, <1>4, <1>5 DEF TypeInv, TypeOK

\* A step that takes no task further and adds no row.
LEMMA HeldSame ==
  ASSUME TypeInv, UNCHANGED <<shifts, pc, mem>>
  PROVE  Held' /\ Ids' = Ids
  BY DEF TypeInv, Held, Ids

LEMMA CallTyped ==
  ASSUME TypeInv, NEW i \in alive, Call(i)
  PROVE  TypeInv'
<1>1. PICK c \in [by: {i}, tool: {"write_state"}, next: Directives]
                 \cup [by: {i}, tool: {"append_diary"}, next: {0}] :
           asked' = asked \cup {<<i, c.tool>>} /\ calls' = calls \cup {c}
  BY DEF Call
<1>2. i \in Ids
  BY DEF TypeInv, TypeOK
<1>3. c \in [by: Ids, tool: Tools, next: 0 .. Max]
  <2>1. Directives \subseteq 0 .. Max /\ 0 \in 0 .. Max
    BY HeartbeatAssumption
  <2> QED BY <1>1, <1>2, <2>1 DEF Tools
<1>4. calls' \subseteq [by: Ids, tool: Tools, next: 0 .. Max] /\ asked' \subseteq Ids \X Tools
  BY <1>1, <1>2, <1>3 DEF TypeInv, TypeOK
<1>5. UNCHANGED <<now, queue, shifts, skipped, pc, mem, alive, file, diary, said, wiped, heard, met,
                  failures>>
  BY DEF Call, Tables
<1> QED BY <1>4, <1>5, HeldSame DEF TypeInv, TypeOK

LEMMA ServeTyped ==
  ASSUME TypeInv, NEW c \in calls, Serve(c)
  PROVE  TypeInv'
<1>1. c.by \in Ids /\ c.next \in 0 .. Max
  BY DEF TypeInv, TypeOK
<1>2. CASE write_state(c)
  <2>1. file' = Contents(c) /\ heard' = heard \cup ({c.by} \cap alive) /\ calls' = calls \ {c}
    BY <1>2 DEF write_state, WriteTo
  <2>2. c.by \in Nat
    BY <1>1, RowTyped
  <2>3. file' \in File
    BY <1>1, <2>1, <2>2 DEF Contents, File
  <2>4. UNCHANGED <<now, queue, shifts, skipped, pc, mem, alive, asked, diary, said, wiped, met,
                    failures>>
    BY <1>2 DEF write_state, WriteTo, Tables
  <2> QED BY <2>1, <2>3, <2>4, HeldSame DEF TypeInv, TypeOK
<1>3. CASE append_diary(c)
  <2> DEFINE entries == (diary[DayOf(now)] \ Absent) \cup {c.by}
  <2>1. /\ diary' = [diary EXCEPT ![DayOf(now)] = entries]
        /\ said' = said \cup {[by |-> c.by, day |-> DayOf(now), late |-> c.by \notin Supervised]}
        /\ calls' = calls \ {c}
    BY <1>3 DEF append_diary, EntryTo
  <2>2. TypeOK
    BY DEF TypeInv
  <2>3. DayOf(now) \in Days
    BY <2>2, DayTyped
  <2>4. c.by \in Nat \ {0}
    BY <1>1, RowTyped
  <2>5. entries \in SUBSET (Nat \ {0})
    BY <2>2, <2>3, <2>4 DEF TypeOK, Absent
  <2> HIDE DEF entries
  <2>6. diary' \in [Days -> {Absent} \cup SUBSET (Nat \ {0})]
    BY <2>1, <2>2, <2>3, <2>5 DEF TypeOK
  <2>7. said' \subseteq [by: Ids, day: Days, late: BOOLEAN]
    <3> DEFINE e == [by |-> c.by, day |-> DayOf(now), late |-> c.by \notin Supervised]
    <3>1. (c.by \notin Supervised) \in BOOLEAN
      OBVIOUS
    <3>2. e \in [by: Ids, day: Days, late: BOOLEAN]
      BY <1>1, <2>3, <3>1
    <3> HIDE DEF e
    <3>3. said' = said \cup {e} /\ said \subseteq [by: Ids, day: Days, late: BOOLEAN]
      BY <2>1, <2>2 DEF e, TypeOK
    <3> QED BY <3>2, <3>3
  <2>8. UNCHANGED <<now, queue, shifts, skipped, pc, mem, alive, asked, file, wiped, heard, met,
                    failures>>
    BY <1>3 DEF append_diary, EntryTo, Tables
  <2> QED BY <2>1, <2>6, <2>7, <2>8, HeldSame DEF TypeInv, TypeOK
<1> QED BY <1>2, <1>3 DEF Serve

LEMMA TickTyped == TypeInv /\ Tick => TypeInv'
<1> SUFFICES ASSUME TypeInv, Tick PROVE TypeInv'
  OBVIOUS
<1>1. now' \in 0 .. MaxNow
  <2>1. now \in 0 .. MaxNow /\ now < MaxNow /\ MaxNow \in Nat /\ now' = now + 1
    BY HeartbeatAssumption DEF Tick, TypeInv, TypeOK
  <2> QED BY <2>1
<1>2. UNCHANGED <<queue, shifts, skipped, pc, mem, alive, calls, asked, file, diary, said, wiped,
                  heard, met, failures>>
  BY DEF Tick, Tables, Agent
<1> QED BY <1>1, <1>2, HeldSame DEF TypeInv, TypeOK

LEMMA OrphanTyped ==
  ASSUME TypeInv, NEW i \in alive, OrphanEnds(i)
  PROVE  TypeInv'
<1>1. UNCHANGED <<now, queue, shifts, skipped, pc, mem, calls, asked, file, diary, said, wiped,
                  heard, met, failures>> /\ alive' \subseteq alive
  BY DEF OrphanEnds, Tables
<1> QED BY <1>1, HeldSame DEF TypeInv, TypeOK

LEMMA TypeStep == TypeInv /\ [Next]_vars => TypeInv'
<1> SUFFICES ASSUME TypeInv, [Next]_vars PROVE TypeInv'
  OBVIOUS
<1>1. ASSUME NEW w \in Workers, heartbeat_tick(w) PROVE TypeInv'
  <2>1. PICK exit \in Exits \ {""} :
           \/ Query(w) \/ CountToday(w) \/ CountWeek(w) \/ Skip(w) \/ Decide(w)
           \/ Header(w) \/ Insert(w)
           \/ Launch(w) \/ LaunchRaises(w) \/ spawn_claude_shift(w, exit)
           \/ ReadState(w) \/ Snapshot(w) \/ Update(w) \/ Card(w)
    <3>1. "broken" \in Exits \ {""}
      BY DEF Exits
    <3> QED BY <1>1, <3>1 DEF heartbeat_tick
  <2> QED BY <2>1, QueryTyped, SkipTyped, DecideTyped, HeaderTyped, InsertTyped,
             LaunchTyped, LaunchRaisesTyped, ShiftTyped, ReadStateTyped, SnapshotTyped,
             UpdateTyped, QuietTyped
<1>2. ASSUME NEW w \in Workers, Lose(w) PROVE TypeInv'
  BY <1>2, LoseTyped
<1>3. ASSUME NEW i \in alive, Call(i) \/ OrphanEnds(i) PROVE TypeInv'
  BY <1>3, CallTyped, OrphanTyped
<1>4. ASSUME NEW c \in calls, Serve(c) PROVE TypeInv'
  BY <1>4, ServeTyped
<1>5. CASE Tick
  BY <1>5, TickTyped
<1>6. CASE UNCHANGED vars
  BY <1>6, HeldSame DEF vars, TypeInv, TypeOK
<1> QED BY <1>1, <1>2, <1>3, <1>4, <1>5, <1>6 DEF Next

(***************************************************************************)
(* Rows, files, calls and local variables have their types; in particular  *)
(* no interleaving lets STATE.md or a row hold a directive above the       *)
(* largest StateFrontmatter accepts, and no step takes a row away.         *)
(***************************************************************************)
THEOREM TypeCorrect == Spec => []TypeOK
<1>1. Spec => []TypeInv
  BY TypeInit, TypeStep, PTL DEF Spec
<1>2. TypeInv => TypeOK
  BY DEF TypeInv
<1> QED BY <1>1, <1>2, PTL

-----------------------------------------------------------------------------
(***************************************************************************)
(* The caps.  A tick is on its way to a row of the day from the SELECT     *)
(* that found room, or no row at all, to the INSERT.  Rows and such ticks  *)
(* exceed the cap by less than the number of workers: a tick sets out only *)
(* when the rows are fewer than the cap, and then at most every worker is  *)
(* on its way; an INSERT turns a tick into a row; nothing takes one away.  *)
(***************************************************************************)
Today == SpawnedSince(DayOf(now) * Day)
ThisWeek == SpawnedSince(now - Week)

DayRoom(m) == m.last = NoTime \/ m.today < DailyCap
WeekRoom(m) == m.last = NoTime \/ m.week < WeeklyCap

\* Whether a task at a place with local variables m is on its way.
DayFlight(place, m) == \/ place \in {"header", "insert"}
                       \/ place \in {"week", "decide"} /\ DayRoom(m)
                       \/ place = "today" /\ m.last = NoTime
WeekFlight(place, m) == \/ place \in {"header", "insert"}
                        \/ place = "decide" /\ WeekRoom(m)
                        \/ place \in {"today", "week"} /\ m.last = NoTime
DayFlyers == {w \in Workers : DayFlight(pc[w], mem[w])}
WeekFlyers == {w \in Workers : WeekFlight(pc[w], mem[w])}

\* The windows of a tick start no later than those of now.
Dated == \A w \in Workers : mem[w].since <= now

CapsInv ==
  /\ Today + Cardinality(DayFlyers) <= DailyCap + Processes - 1
  /\ ThisWeek + Cardinality(WeekFlyers) <= WeeklyCap + Processes - 1

LEMMA FlyersTyped ==
  /\ IsFiniteSet(DayFlyers) /\ IsFiniteSet(WeekFlyers) /\ Processes \in Nat
  /\ Cardinality(DayFlyers) \in Nat /\ Cardinality(DayFlyers) <= Processes
  /\ Cardinality(WeekFlyers) \in Nat /\ Cardinality(WeekFlyers) <= Processes
<1>1. IsFiniteSet(Workers)
  BY HeartbeatAssumption
<1>2. DayFlyers \in SUBSET Workers /\ WeekFlyers \in SUBSET Workers
  BY DEF DayFlyers, WeekFlyers
<1> QED BY <1>1, <1>2, FS_Subset, FS_CardinalityType DEF Processes

LEMMA CapsNumbers == TypeInv => Today \in Nat /\ ThisWeek \in Nat
<1> SUFFICES ASSUME TypeOK PROVE Today \in Nat /\ ThisWeek \in Nat
  BY DEF TypeInv
<1>1. SpawnedSince(DayOf(now) * Day) \in Nat /\ SpawnedSince(now - Week) \in Nat
  BY CountTyped
<1> QED BY <1>1 DEF Today, ThisWeek

\* Windows only move forward.
LEMMA WindowsForward ==
  ASSUME TypeInv, TypeInv', now' = now \/ now' = now + 1
  PROVE  /\ DayOf(now) * Day \in Nat /\ (DayOf(now) * Day)' \in Nat
         /\ DayOf(now) * Day <= (DayOf(now) * Day)'
         /\ now - Week \in Int /\ (now - Week)' \in Int
         /\ now - Week <= (now - Week)'
<1>1. now \in Nat /\ now' \in Nat /\ now <= now' /\ Day \in Nat \ {0} /\ Week \in Nat
  BY HeartbeatAssumption DEF TypeInv, TypeOK
<1>2. /\ (now \div Day) * Day \in Nat /\ (now' \div Day) * Day \in Nat
      /\ (now \div Day) * Day <= (now' \div Day) * Day
  BY <1>1, DivisionOrder
<1>3. \A a, b \in Nat : a <= b => a - Week \in Int /\ b - Week \in Int /\ a - Week <= b - Week
  BY HeartbeatAssumption
<1>4. now - Week \in Int /\ now' - Week \in Int /\ now - Week <= now' - Week
  BY <1>1, <1>3
<1> QED BY <1>2, <1>4 DEF DayOf

\* With the same rows, a window that starts later holds no more of them.
LEMMA CountShrinks ==
  ASSUME TypeInv, TypeInv', NEW t \in Int, NEW u \in Int, t <= u,
         Ids' = Ids, \A i \in Ids : shifts'[i].at = shifts[i].at
  PROVE  Cardinality({i \in Ids' : shifts'[i].at >= u}) <= SpawnedSince(t)
<1> DEFINE A == {i \in Ids : shifts[i].at >= t}
           B == {i \in Ids' : shifts'[i].at >= u}
<1>1. \A i \in Ids : shifts[i].at \in Nat
  BY RowTyped DEF Row
<1>2. B \in SUBSET A
  BY <1>1
<1>3. TypeOK
  BY DEF TypeInv
<1>4. IsFiniteSet(A)
  BY <1>3, CountTyped
<1>5. Cardinality(B) <= Cardinality(A)
  BY <1>2, <1>4, FS_Subset
<1> QED BY <1>5 DEF SpawnedSince

\* A step that adds no row and sends no tick on its way keeps the balance.
LEMMA CalmStep ==
  ASSUME TypeInv, TypeInv', CapsInv, now' = now \/ now' = now + 1,
         Ids' = Ids, \A i \in Ids : shifts'[i].at = shifts[i].at,
         DayFlyers' \subseteq DayFlyers, WeekFlyers' \subseteq WeekFlyers
  PROVE  CapsInv'
<1>1. Today' <= Today /\ ThisWeek' <= ThisWeek
  BY WindowsForward, CountShrinks DEF Today, ThisWeek, SpawnedSince
<1>2. /\ IsFiniteSet(DayFlyers) /\ IsFiniteSet(WeekFlyers)
      /\ Processes \in Nat
      /\ Cardinality(DayFlyers) \in Nat /\ Cardinality(WeekFlyers) \in Nat
  BY FlyersTyped
<1>3. /\ Cardinality(DayFlyers') \in Nat /\ Cardinality(DayFlyers') <= Cardinality(DayFlyers)
      /\ Cardinality(WeekFlyers') \in Nat /\ Cardinality(WeekFlyers') <= Cardinality(WeekFlyers)
  BY <1>2, FS_Subset, FS_CardinalityType
<1>4. Today \in Nat /\ ThisWeek \in Nat /\ DailyCap \in Nat /\ WeeklyCap \in Nat
  BY CapsNumbers, HeartbeatAssumption
<1>5. (Today \in Nat /\ ThisWeek \in Nat)'
  BY CapsNumbers, PTL
<1>6. Processes' = Processes
  BY DEF Processes
<1> QED BY <1>1, <1>2, <1>3, <1>4, <1>5, <1>6 DEF CapsInv

\* What a step of one task changes among the ticks on their way.
LEMMA FlyersStep ==
  ASSUME TypeInv, NEW w \in Workers, NEW place, NEW m, Goto(w, place), Keep(w, m)
  PROVE  /\ DayFlyers' \subseteq DayFlyers \cup {w}
         /\ WeekFlyers' \subseteq WeekFlyers \cup {w}
         /\ w \in DayFlyers' => DayFlight(place, m)
         /\ w \in WeekFlyers' => WeekFlight(place, m)
<1>1. pc' = [pc EXCEPT ![w] = place] /\ mem' = [mem EXCEPT ![w] = m]
      /\ pc \in [Workers -> Places] /\ mem \in [Workers -> Local]
  BY DEF TypeInv, TypeOK, Goto, Keep
<1>2. \A v \in Workers \ {w} : pc'[v] = pc[v] /\ mem'[v] = mem[v]
  BY <1>1
<1>3. pc'[w] = place /\ mem'[w] = m
  BY <1>1
<1>4. /\ DayFlyers' = {v \in Workers : DayFlight(pc'[v], mem'[v])}
      /\ WeekFlyers' = {v \in Workers : WeekFlight(pc'[v], mem'[v])}
  BY DEF DayFlyers, WeekFlyers, DayFlight, WeekFlight, DayRoom, WeekRoom
<1> QED BY <1>2, <1>3, <1>4 DEF DayFlyers, WeekFlyers

\* A task that goes elsewhere, or was on its way before, sends nothing new.
LEMMA NoTakeOff ==
  ASSUME TypeInv, NEW w \in Workers, NEW place, NEW m, Goto(w, place), Keep(w, m),
         DayFlight(place, m) => DayFlight(pc[w], mem[w]),
         WeekFlight(place, m) => WeekFlight(pc[w], mem[w])
  PROVE  DayFlyers' \subseteq DayFlyers /\ WeekFlyers' \subseteq WeekFlyers
<1>1. /\ DayFlight(place, m) => w \in DayFlyers
      /\ WeekFlight(place, m) => w \in WeekFlyers
  BY DEF DayFlyers, WeekFlyers
<1> QED BY <1>1, FlyersStep

\* The windows of the ticks stay behind the clock.
LEMMA DatedTask ==
  ASSUME TypeInv, Dated, now' = now, NEW w \in Workers, NEW place, NEW m,
         Goto(w, place), Keep(w, m), m.since <= now
  PROVE  Dated'
<1>1. /\ mem'[w] = m /\ \A v \in Workers \ {w} : mem'[v] = mem[v]
  BY TaskStep
<1> QED BY <1>1 DEF Dated

LEMMA DatedTick ==
  ASSUME TypeInv, Dated, NEW w \in Workers, heartbeat_tick(w) \/ Lose(w)
  PROVE  Dated'
<1>1. now' = now
  BY DEF heartbeat_tick, Query, CountToday, CountWeek, Skip, Decide, Header, Insert, Launch,
         LaunchRaises, spawn_claude_shift, ReadState, Snapshot, Update, Card, Lose, Env
<1>2. mem[w] \in Local /\ mem[w].since <= now /\ mem[w].since \in Nat /\ now \in Nat
  BY MineKept, HeartbeatAssumption DEF Dated, Local, TypeInv, TypeOK
<1>3. Blank.since = 0 /\ 0 <= now /\ now <= now
  BY <1>2 DEF Blank
\* A task that starts takes the time, the others keep theirs or drop it.
<1>4. CASE Query(w)
  <2> DEFINE looked == [Blank EXCEPT !.since = now, !.seen = Len(shifts)]
  <2>1. looked.since = now /\ \A a, q : [looked EXCEPT !.last = a, !.req = q].since = now
    BY DEF Blank
  <2>2. \E m : Keep(w, m) /\ m.since = now
    <3> HIDE DEF looked
    <3>1. CASE \E i \in LastRows :
                 Keep(w, [looked EXCEPT !.last = shifts[i].at, !.req = shifts[i].next])
      <4> PICK i \in LastRows :
                 Keep(w, [looked EXCEPT !.last = shifts[i].at, !.req = shifts[i].next])
        BY <3>1
      <4> DEFINE m == [looked EXCEPT !.last = shifts[i].at, !.req = shifts[i].next]
      <4>1. Keep(w, m) /\ m.since = now
        BY <2>1
      <4> HIDE DEF m
      <4> QED BY <4>1
    <3>2. CASE Keep(w, looked)
      BY <2>1, <3>2
    <3> QED BY <1>4, <3>1, <3>2 DEF Query, looked
  <2> QED BY <1>1, <1>3, <1>4, <2>2, DatedTask DEF Query
<1>5. CASE CountToday(w) \/ CountWeek(w)
  <2>1. PICK m : Keep(w, m) /\ m.since \in {mem[w].since, 0}
    BY <1>5, CountedTyped
  <2>2. \E place : Goto(w, place)
    BY <1>5 DEF CountToday, CountWeek
  <2> QED BY <1>1, <1>2, <2>1, <2>2, DatedTask
<1>6. CASE Skip(w) \/ LaunchRaises(w) \/ Lose(w) \/ Card(w) \/ Update(w)
  <2>1. Keep(w, Blank) /\ \E place : Goto(w, place)
    BY <1>6 DEF Skip, LaunchRaises, Lose, Card, Update, Finish
  <2> QED BY <1>1, <1>3, <2>1, DatedTask
<1>7. CASE Decide(w) \/ Insert(w)
  <2>1. \E m : Keep(w, m) /\ m.since = 0
    <3>1. CASE Decide(w)
      <4> DEFINE m == [Blank EXCEPT !.seen = mem[w].seen, !.day = DayOf(now),
                                    !.clamped = Clamped(mem[w], now)]
      <4>1. m.since = 0
        BY DEF Blank
      <4>2. Keep(w, m)
        BY <3>1 DEF Decide
      <4> HIDE DEF m
      <4> QED BY <4>1, <4>2
    <3>2. CASE Insert(w)
      <4> DEFINE m == [Blank EXCEPT !.id = Len(shifts) + 1]
      <4>1. m.since = 0
        BY DEF Blank
      <4>2. Keep(w, m)
        BY <3>2 DEF Insert
      <4> HIDE DEF m
      <4> QED BY <4>1, <4>2
    <3> QED BY <1>7, <3>1, <3>2
  <2>2. \E place : Goto(w, place)
    BY <1>7 DEF Decide, Insert
  <2> QED BY <1>1, <1>3, <2>1, <2>2, DatedTask
<1>8. CASE Header(w) \/ Launch(w)
  BY <1>1, <1>8 DEF Header, Launch, Dated
<1>9. ASSUME NEW exit, spawn_claude_shift(w, exit) PROVE Dated'
  <2> DEFINE m == [mem[w] EXCEPT !.exit = exit]
  <2>1. m.since = mem[w].since
    BY <1>2 DEF Local
  <2>2. Keep(w, m) /\ Goto(w, "read")
    BY <1>9 DEF spawn_claude_shift
  <2> HIDE DEF m
  <2> QED BY <1>1, <1>2, <2>1, <2>2, DatedTask
<1>10. CASE ReadState(w)
  <2> DEFINE m == [mem[w] EXCEPT !.fm = file]
  <2>1. m.since = mem[w].since
    BY <1>2 DEF Local
  <2>2. Keep(w, m) /\ \E place : Goto(w, place)
    BY <1>10 DEF ReadState
  <2> HIDE DEF m
  <2> QED BY <1>1, <1>2, <2>1, <2>2, DatedTask
<1>11. CASE Snapshot(w)
  <2> DEFINE m == [mem[w] EXCEPT !.snapBy = file.by]
  <2>1. m.since = mem[w].since
    BY <1>2 DEF Local
  <2>2. Keep(w, m) /\ \E place : Goto(w, place)
    BY <1>11 DEF Snapshot
  <2> HIDE DEF m
  <2> QED BY <1>1, <1>2, <2>1, <2>2, DatedTask
<1> QED BY <1>4, <1>5, <1>6, <1>7, <1>8, <1>9, <1>10, <1>11 DEF heartbeat_tick

LEMMA DatedStep == TypeInv /\ TypeInv' /\ Dated /\ [Next]_vars => Dated'
<1> SUFFICES ASSUME TypeInv, TypeInv', Dated, [Next]_vars PROVE Dated'
  OBVIOUS
<1>1. ASSUME NEW w \in Workers, heartbeat_tick(w) \/ Lose(w) PROVE Dated'
  BY <1>1, DatedTick
<1>2. CASE (\E i \in alive : Call(i) \/ OrphanEnds(i)) \/ (\E c \in calls : Serve(c))
           \/ UNCHANGED vars
  BY <1>2 DEF Call, OrphanEnds, Serve, write_state, WriteTo, append_diary, EntryTo, vars, Dated
<1>3. CASE Tick
  <2>1. mem' = mem /\ now' = now + 1 /\ now \in Nat
    BY <1>3, HeartbeatAssumption DEF Tick, TypeInv, TypeOK
  <2>2. \A v \in Workers : mem[v].since \in Nat
    BY DEF TypeInv, TypeOK, Local
  <2> QED BY <2>1, <2>2 DEF Dated
<1> QED BY <1>1, <1>2, <1>3 DEF Next

\* A verdict to spawn comes from a task that found room in both windows.
LEMMA DecideCalm ==
  ASSUME TypeInv, NEW w \in Workers, Decide(w)
  PROVE  DayFlyers' \subseteq DayFlyers /\ WeekFlyers' \subseteq WeekFlyers
<1>1. mem[w] \in Local /\ DailyCap \in Nat /\ WeeklyCap \in Nat
  BY HeartbeatAssumption DEF TypeInv, TypeOK
<1>2. mem[w].today \in Nat /\ mem[w].week \in Nat
  BY <1>1 DEF Local
<1>3. mem[w].last = NoTime \/ (~CapHit(mem[w]) /\ ~WeekHit(mem[w]))
  BY DEF Decide, decide_whether_to_spawn
<1>4. DayRoom(mem[w]) /\ WeekRoom(mem[w])
  BY <1>1, <1>2, <1>3 DEF CapHit, WeekHit, DayRoom, WeekRoom
<1>5. w \in DayFlyers /\ w \in WeekFlyers
  BY <1>4 DEF Decide, At, DayFlyers, WeekFlyers, DayFlight, WeekFlight
<1>6. PICK place, m : Goto(w, place) /\ Keep(w, m)
  BY DEF Decide
<1> QED BY <1>5, <1>6, FlyersStep

\* A step of one task that adds no row: where the rows leave room, any task may be
\* on its way after it.
LEMMA RoomStep ==
  ASSUME TypeInv, TypeInv', CapsInv, now' = now, shifts' = shifts,
         Today < DailyCap \/ DayFlyers' \subseteq DayFlyers,
         ThisWeek < WeeklyCap \/ WeekFlyers' \subseteq WeekFlyers
  PROVE  CapsInv'
<1>1. Today' = Today /\ ThisWeek' = ThisWeek /\ Processes' = Processes
  BY DEF Today, ThisWeek, SpawnedSince, Ids, DayOf, Processes
<1>2. /\ Today \in Nat /\ ThisWeek \in Nat
      /\ DailyCap \in Nat \ {0} /\ WeeklyCap \in Nat \ {0}
  BY CapsNumbers, HeartbeatAssumption
<1>3. /\ IsFiniteSet(DayFlyers) /\ IsFiniteSet(WeekFlyers) /\ Processes \in Nat
      /\ Cardinality(DayFlyers) \in Nat /\ Cardinality(WeekFlyers) \in Nat
  BY FlyersTyped
<1>4. (/\ Cardinality(DayFlyers) \in Nat /\ Cardinality(DayFlyers) <= Processes
       /\ Cardinality(WeekFlyers) \in Nat /\ Cardinality(WeekFlyers) <= Processes)'
  BY FlyersTyped, PTL
<1>5. (Today + Cardinality(DayFlyers) <= DailyCap + Processes - 1)'
  <2>1. CASE Today < DailyCap
    BY <1>1, <1>2, <1>3, <1>4, <2>1
  <2>2. CASE DayFlyers' \subseteq DayFlyers
    <3>1. Cardinality(DayFlyers') <= Cardinality(DayFlyers)
      BY <1>3, <2>2, FS_Subset
    <3> QED BY <1>1, <1>2, <1>3, <1>4, <3>1 DEF CapsInv
  <2> QED BY <2>1, <2>2
<1>6. (ThisWeek + Cardinality(WeekFlyers) <= WeeklyCap + Processes - 1)'
  <2>1. CASE ThisWeek < WeeklyCap
    BY <1>1, <1>2, <1>3, <1>4, <2>1
  <2>2. CASE WeekFlyers' \subseteq WeekFlyers
    <3>1. Cardinality(WeekFlyers') <= Cardinality(WeekFlyers)
      BY <1>3, <2>2, FS_Subset
    <3> QED BY <1>1, <1>2, <1>3, <1>4, <3>1 DEF CapsInv
  <2> QED BY <2>1, <2>2
<1> QED BY <1>5, <1>6 DEF CapsInv

\* A task that finds no row sets out, and then both windows are empty.
LEMMA QueryCaps ==
  ASSUME TypeInv, TypeInv', CapsInv, NEW w \in Workers, Query(w)
  PROVE  CapsInv'
<1> DEFINE looked == [Blank EXCEPT !.since = now, !.seen = Len(shifts)]
<1>1. \A a, q : [looked EXCEPT !.last = a, !.req = q].last = a
  BY DEF Blank
<1>2. Ids = {} => Today = 0 /\ ThisWeek = 0
  BY FS_EmptySet DEF Today, ThisWeek, SpawnedSince
<1>3. \A i \in LastRows : shifts[i].at # NoTime
  <2>1. \A i \in LastRows : shifts[i].at \in Nat
    BY RowTyped DEF LastRows, Row
  <2>2. NoTime \notin Nat
    BY DEF NoTime
  <2> QED BY <2>1, <2>2
<1> HIDE DEF looked
<1>4. PICK m : Keep(w, m) /\ (m.last = NoTime => Ids = {})
  <2>1. CASE Ids = {} /\ Keep(w, looked)
    BY <2>1
  <2>2. CASE \E i \in LastRows :
               Keep(w, [looked EXCEPT !.last = shifts[i].at, !.req = shifts[i].next])
    <3> PICK i \in LastRows :
               Keep(w, [looked EXCEPT !.last = shifts[i].at, !.req = shifts[i].next])
      BY <2>2
    <3> DEFINE m == [looked EXCEPT !.last = shifts[i].at, !.req = shifts[i].next]
    <3>1. Keep(w, m) /\ m.last = shifts[i].at
      BY <1>1
    <3> HIDE DEF m
    <3> QED BY <1>3, <3>1
  <2> QED BY <2>1, <2>2 DEF Query, looked
<1>5. Goto(w, "today") /\ now' = now /\ shifts' = shifts
  BY DEF Query, Env, Tables
<1>6. DailyCap > 0 /\ WeeklyCap > 0
  BY HeartbeatAssumption
<1>7. Today < DailyCap \/ DayFlyers' \subseteq DayFlyers
  BY <1>2, <1>4, <1>5, <1>6, FlyersStep DEF DayFlight
<1>8. ThisWeek < WeeklyCap \/ WeekFlyers' \subseteq WeekFlyers
  BY <1>2, <1>4, <1>5, <1>6, FlyersStep DEF WeekFlight
<1> QED BY <1>5, <1>7, <1>8, RoomStep

\* An earlier window holds at least what a later one does.
LEMMA CountEarlier ==
  ASSUME TypeInv, NEW t \in Int, NEW u \in Int, t <= u
  PROVE  SpawnedSince(u) <= SpawnedSince(t)
<1> DEFINE A == {i \in Ids : shifts[i].at >= t}
           B == {i \in Ids : shifts[i].at >= u}
<1>1. \A i \in Ids : shifts[i].at \in Nat
  BY RowTyped DEF Row
<1>2. B \in SUBSET A
  BY <1>1
<1>3. TypeOK
  BY DEF TypeInv
<1>4. IsFiniteSet(A)
  BY <1>3, CountTyped
<1>5. Cardinality(B) <= Cardinality(A)
  BY <1>2, <1>4, FS_Subset
<1> QED BY <1>5 DEF SpawnedSince

\* What a task counts is no less than what now's windows hold.
LEMMA CountsAhead ==
  ASSUME TypeInv, Dated, NEW w \in Workers
  PROVE  /\ Today <= SpawnedSince(DayOf(mem[w].since) * Day)
         /\ ThisWeek <= SpawnedSince(mem[w].since - Week)
<1>1. mem[w].since \in Nat /\ now \in Nat /\ mem[w].since <= now
      /\ Day \in Nat \ {0} /\ Week \in Nat
  BY MineKept, HeartbeatAssumption DEF TypeInv, TypeOK, Local, Dated
<1>2. /\ (mem[w].since \div Day) * Day \in Nat /\ (now \div Day) * Day \in Nat
      /\ (mem[w].since \div Day) * Day <= (now \div Day) * Day
  BY <1>1, DivisionOrder
<1>3. mem[w].since - Week \in Int /\ now - Week \in Int /\ mem[w].since - Week <= now - Week
  BY <1>1
<1> QED BY <1>2, <1>3, CountEarlier DEF Today, ThisWeek, DayOf

\* A task whose count finds room sets out when the rows leave room.
LEMMA CountCaps ==
  ASSUME TypeInv, TypeInv', Dated, CapsInv, NEW w \in Workers, CountToday(w) \/ CountWeek(w)
  PROVE  CapsInv'
<1>1. now' = now /\ shifts' = shifts
  BY DEF CountToday, CountWeek, Env, Tables
<1>2. mem[w] \in Local
  BY MineKept
<1>3. /\ Today \in Nat /\ ThisWeek \in Nat /\ DailyCap \in Nat /\ WeeklyCap \in Nat
      /\ \A t : SpawnedSince(t) \in Nat
  BY CapsNumbers, CountTyped, HeartbeatAssumption DEF TypeInv
<1>4. CASE CountToday(w)
  <2> DEFINE m == [mem[w] EXCEPT !.today = SpawnedSince(DayOf(mem[w].since) * Day)]
  <2>1. m.last = mem[w].last /\ m.today = SpawnedSince(DayOf(mem[w].since) * Day)
    BY <1>2 DEF Local
  <2>2. Goto(w, "week") /\ Keep(w, m) /\ pc[w] = "today"
    BY <1>4 DEF CountToday, At
  <2> HIDE DEF m
  <2>3. WeekFlyers' \subseteq WeekFlyers
    <3>1. WeekFlight("week", m) => w \in WeekFlyers
      BY <2>1, <2>2 DEF WeekFlight, WeekFlyers
    <3> QED BY <2>2, <3>1, FlyersStep
  <2>4. Today < DailyCap \/ DayFlyers' \subseteq DayFlyers
    <3>1. DayFlight("week", m) => w \in DayFlyers \/ m.today < DailyCap
      BY <2>1, <2>2 DEF DayFlight, DayFlyers, DayRoom
    <3>2. m.today < DailyCap => Today < DailyCap
      BY <1>3, <2>1, CountsAhead
    <3> QED BY <2>2, <3>1, <3>2, FlyersStep
  <2> QED BY <1>1, <2>3, <2>4, RoomStep
<1>5. CASE CountWeek(w)
  <2> DEFINE m == [mem[w] EXCEPT !.week = SpawnedSince(mem[w].since - Week), !.since = 0]
  <2>1. m.last = mem[w].last /\ m.today = mem[w].today
        /\ m.week = SpawnedSince(mem[w].since - Week)
    BY <1>2 DEF Local
  <2>2. Goto(w, "decide") /\ Keep(w, m) /\ pc[w] = "week"
    BY <1>5 DEF CountWeek, At
  <2> HIDE DEF m
  <2>3. DayFlyers' \subseteq DayFlyers
    <3>1. DayFlight("decide", m) => w \in DayFlyers
      BY <2>1, <2>2 DEF DayFlight, DayFlyers, DayRoom
    <3> QED BY <2>2, <3>1, FlyersStep
  <2>4. ThisWeek < WeeklyCap \/ WeekFlyers' \subseteq WeekFlyers
    <3>1. WeekFlight("decide", m) => w \in WeekFlyers \/ m.week < WeeklyCap
      BY <2>1, <2>2 DEF WeekFlight, WeekFlyers, WeekRoom
    <3>2. m.week < WeeklyCap => ThisWeek < WeeklyCap
      BY <1>3, <2>1, CountsAhead
    <3> QED BY <2>2, <3>1, <3>2, FlyersStep
  <2> QED BY <1>1, <2>3, <2>4, RoomStep
<1> QED BY <1>4, <1>5

\* One row more, in a window that has not moved: at most one more counts.
LEMMA CountGrows ==
  ASSUME TypeInv, NEW row, shifts' = Append(shifts, row), NEW t
  PROVE  Cardinality({i \in Ids' : shifts'[i].at >= t}) <= SpawnedSince(t) + 1
<1> DEFINE A == {i \in Ids : shifts[i].at >= t}
           B == {i \in Ids' : shifts'[i].at >= t}
           n == Len(shifts) + 1
<1>1. /\ Ids' = Ids \cup {n} /\ \A i \in Ids : shifts'[i] = shifts[i]
  BY RowTyped DEF Ids
<1>2. B \in SUBSET (A \cup {n})
  BY <1>1
<1>3. TypeOK
  BY DEF TypeInv
<1>4. IsFiniteSet(A) /\ Cardinality(A) \in Nat
  BY <1>3, CountTyped, FS_CardinalityType
<1> HIDE DEF A, B, n
<1>5. IsFiniteSet(A \cup {n}) /\ Cardinality(A \cup {n}) <= Cardinality(A) + 1
  <2>1. /\ IsFiniteSet(A \cup {n})
        /\ Cardinality(A \cup {n}) = IF n \in A THEN Cardinality(A) ELSE Cardinality(A) + 1
    BY <1>4, FS_AddElement
  <2> QED BY <1>4, <2>1
<1>6. Cardinality(B) <= Cardinality(A \cup {n}) /\ Cardinality(B) \in Nat
      /\ Cardinality(A \cup {n}) \in Nat
  BY <1>2, <1>5, FS_Subset, FS_CardinalityType
<1>7. Cardinality(B) <= Cardinality(A) + 1
  BY <1>4, <1>5, <1>6
<1> QED BY <1>7 DEF A, B, SpawnedSince

\* An INSERT turns a tick on its way into a row.
LEMMA InsertCaps ==
  ASSUME TypeInv, TypeInv', CapsInv, NEW w \in Workers, Insert(w)
  PROVE  CapsInv'
<1>1. PICK row, m : shifts' = Append(shifts, row) /\ Keep(w, m)
  BY DEF Insert
<1>2. now' = now /\ Goto(w, "launch")
  BY DEF Insert, Env
<1>3. Today' <= Today + 1 /\ ThisWeek' <= ThisWeek + 1
  BY <1>1, <1>2, CountGrows DEF Today, ThisWeek, SpawnedSince, DayOf
<1>4. w \in DayFlyers /\ w \in WeekFlyers
  BY DEF Insert, At, DayFlyers, WeekFlyers, DayFlight, WeekFlight
<1>5. DayFlyers' \in SUBSET (DayFlyers \ {w}) /\ WeekFlyers' \in SUBSET (WeekFlyers \ {w})
  <2>1. Goto(w, "launch") /\ Keep(w, m)
    BY <1>1, <1>2
  <2>2. ~DayFlight("launch", m) /\ ~WeekFlight("launch", m)
    BY DEF DayFlight, WeekFlight
  <2> QED BY <2>1, <2>2, FlyersStep
<1>6. /\ IsFiniteSet(DayFlyers) /\ IsFiniteSet(WeekFlyers) /\ Processes \in Nat
      /\ Cardinality(DayFlyers) \in Nat /\ Cardinality(WeekFlyers) \in Nat
  BY FlyersTyped
<1>7. /\ IsFiniteSet(DayFlyers \ {w})
      /\ Cardinality(DayFlyers \ {w}) = Cardinality(DayFlyers) - 1
      /\ IsFiniteSet(WeekFlyers \ {w})
      /\ Cardinality(WeekFlyers \ {w}) = Cardinality(WeekFlyers) - 1
  BY <1>4, <1>6, FS_RemoveElement
<1>8. /\ Cardinality(DayFlyers') <= Cardinality(DayFlyers \ {w})
      /\ Cardinality(WeekFlyers') <= Cardinality(WeekFlyers \ {w})
  BY <1>5, <1>7, FS_Subset
<1>9. /\ Today \in Nat /\ ThisWeek \in Nat /\ DailyCap \in Nat /\ WeeklyCap \in Nat
  BY CapsNumbers, HeartbeatAssumption
<1>10. (Today \in Nat /\ ThisWeek \in Nat)'
  BY CapsNumbers, PTL
<1>11. (Cardinality(DayFlyers) \in Nat /\ Cardinality(WeekFlyers) \in Nat)'
  BY FlyersTyped, PTL
<1>12. Processes' = Processes
  BY DEF Processes
<1> QED BY <1>3, <1>6, <1>7, <1>8, <1>9, <1>10, <1>11, <1>12 DEF CapsInv

LEMMA CapsInit == Init => CapsInv
<1> SUFFICES ASSUME Init PROVE CapsInv
  OBVIOUS
<1>1. Today = 0 /\ ThisWeek = 0
  <2>1. Ids = {}
    BY DEF Init, Ids
  <2> QED BY <2>1, FS_EmptySet DEF Today, ThisWeek, SpawnedSince
<1>2. DayFlyers = {} /\ WeekFlyers = {}
  BY DEF Init, DayFlyers, WeekFlyers, DayFlight, WeekFlight
<1>3. Cardinality(DayFlyers) = 0 /\ Cardinality(WeekFlyers) = 0 /\ Processes \in Nat
  BY <1>2, FS_EmptySet, FlyersTyped
<1>4. DailyCap \in Nat \ {0} /\ WeeklyCap \in Nat \ {0}
  BY HeartbeatAssumption
<1> QED BY <1>1, <1>3, <1>4 DEF CapsInv

\* Steps that leave the rows of the windows, and who is on the way, as they are.
LEMMA CapsSame ==
  ASSUME TypeInv, TypeInv', CapsInv, UNCHANGED <<shifts, pc, mem>>, now' = now \/ now' = now + 1
  PROVE  CapsInv'
<1>1. Ids' = Ids /\ \A i \in Ids : shifts'[i].at = shifts[i].at
  BY DEF Ids
<1>2. DayFlyers' \subseteq DayFlyers /\ WeekFlyers' \subseteq WeekFlyers
  BY DEF DayFlyers, WeekFlyers, DayFlight, WeekFlight, DayRoom, WeekRoom
<1> QED BY <1>1, <1>2, CalmStep

LEMMA TaskCaps ==
  ASSUME TypeInv, TypeInv', Dated, CapsInv, NEW w \in Workers, heartbeat_tick(w) \/ Lose(w)
  PROVE  CapsInv'
<1>1. CASE Query(w) \/ CountToday(w) \/ CountWeek(w)
  BY <1>1, QueryCaps, CountCaps
<1>2. CASE Insert(w)
  BY <1>2, InsertCaps
<1>3. ASSUME now' = now, shifts' = shifts,
             DayFlyers' \subseteq DayFlyers, WeekFlyers' \subseteq WeekFlyers
      PROVE  CapsInv'
  <2>1. Ids' = Ids /\ \A i \in Ids : shifts'[i].at = shifts[i].at
    BY <1>3 DEF Ids
  <2> QED BY <1>3, <2>1, CalmStep
<1>4. CASE Decide(w)
  <2>1. now' = now /\ shifts' = shifts
    BY <1>4 DEF Decide, Tables, Env
  <2> QED BY <1>3, <1>4, <2>1, DecideCalm
<1>5. ASSUME NEW place, NEW m, Goto(w, place), Keep(w, m), now' = now, shifts' = shifts,
             place \notin {"today", "week", "decide"},
             place \in {"header", "insert"} => pc[w] \in {"header", "insert"}
      PROVE  CapsInv'
  <2>1. /\ DayFlight(place, m) => DayFlight(pc[w], mem[w])
        /\ WeekFlight(place, m) => WeekFlight(pc[w], mem[w])
    BY <1>5 DEF DayFlight, WeekFlight
  <2> QED BY <1>3, <1>5, <2>1, NoTakeOff
<1>6. CASE Skip(w) \/ LaunchRaises(w) \/ Lose(w) \/ Card(w)
  <2>1. Goto(w, "idle") /\ Keep(w, Blank) /\ now' = now /\ shifts' = shifts
    BY <1>6 DEF Skip, LaunchRaises, Lose, Card, Finish, Env, Tables
  <2> QED BY <1>5, <2>1
<1>7. CASE Header(w)
  <2>1. Goto(w, "insert") /\ mem' = mem /\ now' = now /\ shifts' = shifts /\ pc[w] = "header"
    BY <1>7 DEF Header, At, Env, Tables
  <2>2. Keep(w, mem[w])
    BY <2>1, MineKept
  <2> QED BY <1>5, <2>1, <2>2
<1>8. CASE Launch(w)
  <2>1. Goto(w, "wait") /\ mem' = mem /\ now' = now /\ shifts' = shifts
    BY <1>8 DEF Launch, Env, Tables
  <2>2. Keep(w, mem[w])
    BY <2>1, MineKept
  <2> QED BY <1>5, <2>1, <2>2
<1>9. ASSUME NEW exit, spawn_claude_shift(w, exit)
      PROVE  CapsInv'
  <2>1. Goto(w, "read") /\ Keep(w, [mem[w] EXCEPT !.exit = exit])
        /\ now' = now /\ shifts' = shifts
    BY <1>9 DEF spawn_claude_shift, Env, Tables
  <2> QED BY <1>5, <2>1
<1>10. CASE ReadState(w) \/ Snapshot(w)
  <2>1. PICK place, m : /\ place \in {"snap", "update"} /\ Goto(w, place) /\ Keep(w, m)
                        /\ now' = now /\ shifts' = shifts
    BY <1>10 DEF ReadState, Snapshot, Env, Tables
  <2> QED BY <1>5, <2>1
<1>11. CASE Update(w)
  <2>1. Goto(w, "card") /\ Keep(w, Blank) /\ now' = now
    BY <1>11 DEF Update, Env
  <2>2. DayFlyers' \subseteq DayFlyers /\ WeekFlyers' \subseteq WeekFlyers
    BY <2>1, NoTakeOff DEF DayFlight, WeekFlight
  <2> QED BY <1>11, <2>1, <2>2, UpdateTyped, CalmStep
<1> QED BY <1>1, <1>2, <1>4, <1>6, <1>7, <1>8, <1>9, <1>10, <1>11 DEF heartbeat_tick

LEMMA CapsStep == TypeInv /\ TypeInv' /\ Dated /\ CapsInv /\ [Next]_vars => CapsInv'
<1> SUFFICES ASSUME TypeInv, TypeInv', Dated, CapsInv, [Next]_vars PROVE CapsInv'
  OBVIOUS
<1>1. ASSUME NEW w \in Workers, heartbeat_tick(w) \/ Lose(w) PROVE CapsInv'
  BY <1>1, TaskCaps
<1>2. CASE (\E i \in alive : Call(i) \/ OrphanEnds(i)) \/ (\E c \in calls : Serve(c))
  <2>1. UNCHANGED <<now, shifts, pc, mem>>
    BY <1>2 DEF Call, OrphanEnds, Serve, write_state, WriteTo, append_diary, EntryTo, Tables
  <2> QED BY <2>1, CapsSame
<1>3. CASE Tick \/ UNCHANGED vars
  <2>1. UNCHANGED <<shifts, pc, mem>> /\ (now' = now \/ now' = now + 1)
    BY <1>3 DEF Tick, Tables, vars
  <2> QED BY <2>1, CapsSame
<1> QED BY <1>1, <1>2, <1>3 DEF Next

(***************************************************************************)
(* Whatever the number of workers and messages, the caps and the length of *)
(* their windows: the shifts heartbeat_tick starts in a day or a week pass *)
(* the cap by less than the number of worker processes.                    *)
(***************************************************************************)
THEOREM CapsHold == Spec => []CapsSlack
<1>1. TypeInv /\ CapsInv => CapsSlack
  <2> SUFFICES ASSUME TypeInv, CapsInv PROVE CapsSlack
    OBVIOUS
  <2>1. /\ Cardinality(DayFlyers) \in Nat /\ Cardinality(WeekFlyers) \in Nat
        /\ Processes \in Nat
    BY FlyersTyped
  <2>2. Today \in Nat /\ ThisWeek \in Nat /\ DailyCap \in Nat /\ WeeklyCap \in Nat
    BY CapsNumbers, HeartbeatAssumption
  <2>3. Today <= DailyCap + Processes - 1 /\ ThisWeek <= WeeklyCap + Processes - 1
    BY <2>1, <2>2 DEF CapsInv
  <2> QED BY <2>3 DEF CapsSlack, Today, ThisWeek
<1>2. Spec => []TypeInv
  BY TypeInit, TypeStep, PTL DEF Spec
<1>3. Init => Dated
  <2>1. Blank.since = 0
    BY DEF Blank
  <2> QED BY <2>1 DEF Init, Dated
<1>4. Spec => []Dated
  BY <1>2, <1>3, DatedStep, PTL DEF Spec
<1>5. Spec => []CapsInv
  BY <1>2, <1>4, CapsInit, CapsStep, PTL DEF Spec
<1> QED BY <1>1, <1>2, <1>5, PTL

-----------------------------------------------------------------------------
(***************************************************************************)
(* Two shifts at once.  Whoever holds a running shift started it less than *)
(* two units ago.  A later shift whose tick had seen its row came at least *)
(* Min units after it: every directive is 0 or at least Min, a verdict to  *)
(* spawn waits that long after the newest row, and rows seen before are no *)
(* newer.                                                                  *)
(***************************************************************************)
Directive == {0} \cup Min .. Max

\* No directive below the minimum is on its way, in STATE.md or in a row.
Accepted ==
  /\ file.next \in Directive
  /\ \A c \in calls : c.next \in Directive
  /\ \A i \in Ids : shifts[i].next \in Directive
  /\ \A w \in Workers : mem[w].req \in Directive /\ mem[w].fm.next \in Directive

\* A row comes Min units after every row its tick had seen.
Paced ==
  \A j \in Ids :
    /\ shifts[j].seen < j /\ shifts[j].at <= now
    /\ \A i \in 1 .. shifts[j].seen : shifts[i].at + Min <= shifts[j].at

\* What a tick on its way knows of the rows it has seen.
Informed(rows, t, place, m) ==
  /\ place \in {"today", "week", "decide"} =>
       /\ m.seen <= Len(rows)
       /\ \A i \in 1 .. m.seen : m.last # NoTime /\ rows[i].at <= m.last
  /\ place \in {"header", "insert"} =>
       /\ m.seen <= Len(rows)
       /\ \A i \in 1 .. m.seen : rows[i].at + Min <= t
OnTime == \A w \in Workers : Informed(shifts, now, pc[w], mem[w])

\* A shift that is supervised started at most one unit ago.
Fresh == \A w \in Workers : pc[w] \in {"launch", "wait"} => now <= shifts[mem[w].id].at + 1

\* A row is held by one task, which has stopped the shift when it reads on.
Sole == \A v, w \in Workers :
          pc[v] \in HasRow /\ pc[w] \in HasRow /\ v # w => mem[v].id # mem[w].id
Stopped == \A w \in Workers : pc[w] \in {"read", "snap", "update"} => mem[w].id \notin alive
Bare == \A w \in Workers : pc[w] \notin HasRow => mem[w].id = 0
Own == Sole /\ Stopped /\ Bare

PaceInv == Accepted /\ Paced /\ OnTime /\ Fresh /\ Own

\* The rows may be closed, but stay where and when they were.
SameRows ==
  /\ Len(shifts') = Len(shifts) /\ Ids' = Ids
  /\ \A i \in Ids : /\ shifts'[i].at = shifts[i].at /\ shifts'[i].seen = shifts[i].seen
                    /\ shifts'[i].next \in Directive

\* A step of one task that adds no row.
LEMMA TaskPace ==
  ASSUME TypeInv, PaceInv, NEW w \in Workers, NEW place \in Places, NEW m \in Local,
         Goto(w, place), Keep(w, m), now' = now, file' = file, calls' = calls, SameRows,
         m.req \in Directive, m.fm.next \in Directive, Informed(shifts, now, place, m),
         place \in {"launch", "wait"} => now <= shifts[m.id].at + 1,
         place \in HasRow => pc[w] \in HasRow /\ m.id = mem[w].id,
         place \in {"read", "snap", "update"} => m.id \notin alive',
         place \notin HasRow => m.id = 0,
         \A v \in Workers \ {w} : pc[v] \in {"read", "snap", "update"} => mem[v].id \notin alive'
  PROVE  PaceInv'
<1>1. pc' = [pc EXCEPT ![w] = place] /\ mem' = [mem EXCEPT ![w] = m]
      /\ pc \in [Workers -> Places] /\ mem \in [Workers -> Local]
  BY DEF TypeInv, TypeOK, Goto, Keep
<1>2. \A v \in Workers \ {w} : pc'[v] = pc[v] /\ mem'[v] = mem[v]
  BY <1>1
<1>3. pc'[w] = place /\ mem'[w] = m
  BY <1>1
<1>4. \A i \in Ids : /\ shifts'[i].at = shifts[i].at /\ shifts'[i].seen = shifts[i].seen
                    /\ shifts'[i].next \in Directive
  BY DEF SameRows
<1>5. Accepted'
  <2>1. \A v \in Workers : mem'[v].req \in Directive /\ mem'[v].fm.next \in Directive
    BY <1>2, <1>3 DEF PaceInv, Accepted
  <2>2. \A i \in Ids' : shifts'[i].next \in Directive
    BY <1>4 DEF SameRows
  <2>3. file'.next \in Directive /\ \A c \in calls' : c.next \in Directive
    BY DEF PaceInv, Accepted
  <2> QED BY <2>1, <2>2, <2>3 DEF Accepted, Directive
<1>6. Paced'
  <2> SUFFICES ASSUME NEW j \in Ids
               PROVE  /\ shifts'[j].seen < j /\ shifts'[j].at <= now
                      /\ \A i \in 1 .. shifts'[j].seen : shifts'[i].at + Min <= shifts'[j].at
    BY DEF Paced, SameRows
  <2>1. /\ shifts[j].seen < j /\ shifts[j].at <= now
        /\ \A i \in 1 .. shifts[j].seen : shifts[i].at + Min <= shifts[j].at
    BY DEF PaceInv, Paced
  <2>2. 1 .. shifts[j].seen \subseteq Ids
    <3>1. shifts[j].seen \in Nat /\ Len(shifts) \in Nat /\ Ids = 1 .. Len(shifts)
      BY RowTyped DEF Row
    <3> QED BY <2>1, <3>1
  <2> QED BY <1>4, <2>1, <2>2
<1>7. \A p \in Places, k \in Local :
        Informed(shifts, now, p, k) => Informed(shifts', now', p, k)
  <2> SUFFICES ASSUME NEW p \in Places, NEW k \in Local, Informed(shifts, now, p, k)
               PROVE  Informed(shifts', now', p, k)
    OBVIOUS
  <2>1. Len(shifts') = Len(shifts) /\ Len(shifts) \in Nat /\ Ids = 1 .. Len(shifts)
        /\ k.seen \in Nat
    BY RowTyped DEF SameRows, Local
  <2>2. k.seen <= Len(shifts) => 1 .. k.seen \subseteq Ids
    BY <2>1
  <2> QED BY <1>4, <2>1, <2>2 DEF Informed
<1>8. OnTime'
  <2> SUFFICES ASSUME NEW v \in Workers PROVE Informed(shifts', now', pc'[v], mem'[v])
    BY DEF OnTime
  <2>1. pc[v] \in Places /\ mem[v] \in Local /\ Informed(shifts, now, pc[v], mem[v])
    BY <1>1 DEF PaceInv, OnTime
  <2>2. CASE v = w
    BY <1>3, <1>7, <2>2
  <2>3. CASE v # w
    BY <1>2, <1>7, <2>1, <2>3
  <2> QED BY <2>2, <2>3
<1>9. Fresh'
  <2> SUFFICES ASSUME NEW v \in Workers, pc'[v] \in {"launch", "wait"}
               PROVE  now <= shifts'[mem'[v].id].at + 1
    BY DEF Fresh
  <2>1. CASE v = w
    <3>1. place \in {"launch", "wait"} /\ mem'[v] = m
      BY <1>3, <2>1
    <3>2. m.id \in Ids /\ now <= shifts[m.id].at + 1
      BY <3>1 DEF TypeInv, Held, HasRow
    <3> QED BY <1>4, <3>1, <3>2
  <2>2. CASE v # w
    <3>1. pc[v] \in {"launch", "wait"} /\ mem'[v] = mem[v]
      BY <1>2, <2>2
    <3>2. mem[v].id \in Ids /\ now <= shifts[mem[v].id].at + 1
      BY <3>1 DEF TypeInv, Held, HasRow, PaceInv, Fresh
    <3> QED BY <1>4, <3>1, <3>2
  <2> QED BY <2>1, <2>2
<1>10. Sole'
  <2> SUFFICES ASSUME NEW u \in Workers, NEW v \in Workers,
                      pc'[u] \in HasRow, pc'[v] \in HasRow, u # v
               PROVE  mem'[u].id # mem'[v].id
    BY DEF Sole
  <2>1. \A x \in Workers : pc'[x] \in HasRow => pc[x] \in HasRow /\ mem'[x].id = mem[x].id
    BY <1>2, <1>3
  <2> QED BY <2>1 DEF PaceInv, Own, Sole
<1>11. Stopped'
  <2> SUFFICES ASSUME NEW v \in Workers, pc'[v] \in {"read", "snap", "update"}
               PROVE  mem'[v].id \notin alive'
    BY DEF Stopped
  <2> QED BY <1>2, <1>3
<1>12. Bare'
  <2> SUFFICES ASSUME NEW v \in Workers, pc'[v] \notin HasRow PROVE mem'[v].id = 0
    BY DEF Bare
  <2> QED BY <1>2, <1>3 DEF PaceInv, Own, Bare
<1> QED BY <1>5, <1>6, <1>8, <1>9, <1>10, <1>11, <1>12 DEF PaceInv, Own

LEMMA RowsAreSame ==
  ASSUME TypeInv, PaceInv, shifts' = shifts
  PROVE  SameRows
  BY DEF PaceInv, Accepted, SameRows, Ids

\* When no shift starts, the tasks that have stopped theirs still have.
LEMMA StillStopped ==
  ASSUME PaceInv, alive' \subseteq alive
  PROVE  \A v \in Workers : pc[v] \in {"read", "snap", "update"} => mem[v].id \notin alive'
  BY DEF PaceInv, Own, Stopped

LEMMA BlankPaced ==
  /\ Blank.req \in Directive /\ Blank.fm.next \in Directive /\ Blank.id = 0
  BY DEF Blank, NoFile, Directive

\* A task with nothing left to write.
LEMMA EndPace ==
  ASSUME TypeInv, PaceInv, NEW w \in Workers, NEW place \in {"idle", "card"},
         Goto(w, place), Keep(w, Blank), now' = now, file' = file,
         calls' = calls, SameRows, alive' \subseteq alive
  PROVE  PaceInv'
<1>1. Blank \in Local /\ Informed(shifts, now, place, Blank)
  BY BlankTyped DEF Informed
<1>2. place \in Places /\ place \notin HasRow
      /\ place \notin {"launch", "wait"} /\ place \notin {"read", "snap", "update"}
  BY DEF Places, HasRow
<1> QED BY <1>1, <1>2, BlankPaced, StillStopped, TaskPace

LEMMA FinishPace ==
  ASSUME TypeInv, PaceInv, NEW w \in Workers, Finish(w), now' = now, file' = file,
         calls' = calls, SameRows, alive' \subseteq alive
  PROVE  PaceInv'
  BY EndPace DEF Finish

LEMMA QueryPace ==
  ASSUME TypeInv, PaceInv, NEW w \in Workers, Query(w)
  PROVE  PaceInv'
<1> DEFINE looked == [Blank EXCEPT !.since = now, !.seen = Len(shifts)]
<1>1. /\ looked \in Local /\ looked.req \in Directive /\ looked.fm.next \in Directive
      /\ looked.id = 0 /\ looked.seen = Len(shifts)
  <2>1. Len(shifts) \in Nat /\ now \in Nat
    BY RowTyped, HeartbeatAssumption DEF TypeInv, TypeOK
  <2>2. looked \in Local
    BY <2>1, BlankTyped DEF Local
  <2> QED BY <2>2, BlankPaced DEF Blank
<1> HIDE DEF looked
<1>2. PICK m \in Local : /\ Keep(w, m) /\ m.req \in Directive /\ m.fm.next \in Directive
                         /\ m.id = 0 /\ m.seen = Len(shifts)
                         /\ \A i \in Ids : m.last # NoTime /\ shifts[i].at <= m.last
  <2>1. CASE Ids = {} /\ Keep(w, looked)
    BY <1>1, <2>1
  <2>2. CASE \E i \in LastRows :
               Keep(w, [looked EXCEPT !.last = shifts[i].at, !.req = shifts[i].next])
    <3> PICK i \in LastRows :
               Keep(w, [looked EXCEPT !.last = shifts[i].at, !.req = shifts[i].next])
      BY <2>2
    <3> DEFINE m == [looked EXCEPT !.last = shifts[i].at, !.req = shifts[i].next]
    <3>1. i \in Ids /\ shifts[i].at \in Nat /\ shifts[i].next \in 0 .. Max
          /\ shifts[i].next \in Directive
      BY RowTyped DEF LastRows, Row, PaceInv, Accepted
    <3>2. m \in Local /\ m.last = shifts[i].at /\ m.req = shifts[i].next
          /\ m.fm.next \in Directive /\ m.id = 0 /\ m.seen = Len(shifts)
      BY <1>1, <3>1 DEF Local
    <3> HIDE DEF m
    <3>3. Keep(w, m)
      BY DEF m
    <3>4. NoTime \notin Nat
      BY DEF NoTime
    <3>5. \A j \in Ids : m.last # NoTime /\ shifts[j].at <= m.last
      BY <3>1, <3>2, <3>4 DEF LastRows
    <3> QED BY <3>1, <3>2, <3>3, <3>5
  <2> QED BY <2>1, <2>2 DEF Query, looked
<1>3. Informed(shifts, now, "today", m)
  BY <1>2, RowTyped DEF Informed
<1>4. /\ Goto(w, "today") /\ now' = now /\ file' = file /\ calls' = calls /\ alive' = alive
      /\ SameRows
  <2>1. shifts' = shifts
    BY DEF Query, Tables
  <2> QED BY <2>1, RowsAreSame DEF Query, Tables, Agent, Env
<1>5. "today" \in Places /\ "today" \notin HasRow
      /\ "today" \notin {"launch", "wait"} /\ "today" \notin {"read", "snap", "update"}
  BY DEF Places, HasRow
<1> QED BY <1>2, <1>3, <1>4, <1>5, StillStopped, TaskPace

\* The counts add nothing to what a task knows of the rows.
LEMMA CountPace ==
  ASSUME TypeInv, PaceInv, NEW w \in Workers, CountToday(w) \/ CountWeek(w)
  PROVE  PaceInv'
<1>1. PICK m \in Local : /\ Keep(w, m) /\ m.seen = mem[w].seen /\ m.last = mem[w].last
                         /\ m.req = mem[w].req /\ m.fm = mem[w].fm /\ m.id = mem[w].id
  BY CountedTyped
<1>2. PICK place \in {"week", "decide"} : Goto(w, place)
  BY DEF CountToday, CountWeek
<1>3. pc[w] \in {"today", "week"} /\ pc[w] \notin HasRow
  BY DEF CountToday, CountWeek, At, HasRow
<1>4. m.req \in Directive /\ m.fm.next \in Directive /\ m.id = 0
  BY <1>1, <1>3 DEF PaceInv, Accepted, Own, Bare
<1>5. Informed(shifts, now, place, m)
  <2>1. Informed(shifts, now, pc[w], mem[w])
    BY DEF PaceInv, OnTime
  <2> QED BY <1>1, <1>3, <2>1 DEF Informed
<1>6. /\ now' = now /\ file' = file /\ calls' = calls /\ alive' = alive /\ SameRows
  <2>1. shifts' = shifts
    BY DEF CountToday, CountWeek, Tables
  <2> QED BY <2>1, RowsAreSame DEF CountToday, CountWeek, Agent, Env
<1>7. place \in Places /\ place \notin HasRow
      /\ place \notin {"launch", "wait"} /\ place \notin {"read", "snap", "update"}
  BY DEF Places, HasRow
<1> QED BY <1>1, <1>2, <1>4, <1>5, <1>6, <1>7, StillStopped, TaskPace

LEMMA DecidePace ==
  ASSUME TypeInv, PaceInv, NEW w \in Workers, Decide(w)
  PROVE  PaceInv'
<1> DEFINE m == [Blank EXCEPT !.seen = mem[w].seen, !.day = DayOf(now),
                              !.clamped = Clamped(mem[w], now)]
           place == IF diary[DayOf(now)] = Absent THEN "header" ELSE "insert"
<1>1. mem[w].seen \in Nat /\ DayOf(now) \in Days /\ now \in Nat /\ mem[w] \in Local
  <2>1. mem[w] \in Local /\ now \in Nat /\ TypeOK
    BY MineKept, HeartbeatAssumption DEF TypeInv, TypeOK
  <2> QED BY <2>1, DayTyped DEF Local
<1>2. Clamped(mem[w], now) \in BOOLEAN
  BY DEF Clamped
<1>3. m \in Local
  BY <1>1, <1>2, BlankTyped DEF Local
<1>4. m.seen = mem[w].seen /\ m.req \in Directive /\ m.fm.next \in Directive /\ m.id = 0
  BY BlankPaced DEF Blank
<1>5. Goto(w, place) /\ Keep(w, m)
  BY DEF Decide
<1>6. place \in {"header", "insert"}
  OBVIOUS
<1> HIDE DEF m, place
<1>7. mem[w].seen <= Len(shifts)
      /\ \A i \in 1 .. mem[w].seen : mem[w].last # NoTime /\ shifts[i].at <= mem[w].last
  BY DEF Decide, At, PaceInv, OnTime, Informed
<1>8. ASSUME NEW i \in 1 .. mem[w].seen PROVE shifts[i].at + Min <= now
  <2>1. i \in Ids /\ shifts[i].at \in Nat
    <3>1. Len(shifts) \in Nat /\ Ids = 1 .. Len(shifts) /\ \A j \in Ids : shifts[j] \in Row
      BY RowTyped
    <3>2. i \in Ids
      BY <1>1, <1>7, <3>1
    <3> QED BY <3>1, <3>2 DEF Row
  <2>2. mem[w].last # NoTime /\ shifts[i].at <= mem[w].last /\ mem[w].last \in Nat
    BY <1>1, <1>7 DEF Local
  <2>3. ~TooSoon(mem[w], now)
    BY <2>2 DEF Decide, decide_whether_to_spawn
  <2>4. Requested(mem[w]) \in Nat /\ Requested(mem[w]) >= Min /\ Min \in Nat
    BY HeartbeatAssumption DEF Requested, PaceInv, Accepted, Directive
  <2>5. now - mem[w].last >= Requested(mem[w])
    BY <1>1, <2>2, <2>3, <2>4 DEF TooSoon
  <2> QED BY <1>1, <2>1, <2>2, <2>4, <2>5
<1>9. Informed(shifts, now, place, m)
  BY <1>4, <1>6, <1>7, <1>8 DEF Informed
<1>10. /\ now' = now /\ file' = file /\ calls' = calls /\ alive' = alive
       /\ SameRows
  <2>1. shifts' = shifts
    BY DEF Decide, Tables
  <2> QED BY <2>1, RowsAreSame DEF Decide, Tables, Agent, Env
<1>11. place \in Places /\ place \notin HasRow
       /\ place \notin {"launch", "wait"} /\ place \notin {"read", "snap", "update"}
  BY <1>6 DEF Places, HasRow
<1> QED BY <1>3, <1>4, <1>5, <1>9, <1>10, <1>11, StillStopped, TaskPace

LEMMA HeaderPace ==
  ASSUME TypeInv, PaceInv, NEW w \in Workers, Header(w)
  PROVE  PaceInv'
<1>1. mem[w] \in Local /\ Goto(w, "insert") /\ Keep(w, mem[w])
  BY MineKept DEF Header
<1>2. mem[w].req \in Directive /\ mem[w].fm.next \in Directive
  BY DEF PaceInv, Accepted
<1>3. Informed(shifts, now, "insert", mem[w]) /\ mem[w].id = 0
  BY DEF Header, At, PaceInv, OnTime, Informed, Own, Bare, HasRow
<1>4. /\ now' = now /\ file' = file /\ calls' = calls /\ alive' = alive
      /\ SameRows
  <2>1. shifts' = shifts
    BY DEF Header, Tables
  <2> QED BY <2>1, RowsAreSame DEF Header, Tables, Env
<1>5. "insert" \in Places /\ "insert" \notin HasRow
      /\ "insert" \notin {"launch", "wait"} /\ "insert" \notin {"read", "snap", "update"}
  BY DEF Places, HasRow
<1> QED BY <1>1, <1>2, <1>3, <1>4, <1>5, StillStopped, TaskPace

LEMMA LaunchPace ==
  ASSUME TypeInv, PaceInv, NEW w \in Workers, Launch(w)
  PROVE  PaceInv'
<1>1. mem[w] \in Local /\ Goto(w, "wait") /\ Keep(w, mem[w]) /\ pc[w] = "launch"
  BY MineKept DEF Launch, At
<1>2. mem[w].req \in Directive /\ mem[w].fm.next \in Directive
  BY DEF PaceInv, Accepted
<1>3. now <= shifts[mem[w].id].at + 1
  BY <1>1 DEF PaceInv, Fresh
<1>4. Informed(shifts, now, "wait", mem[w])
  BY DEF Informed
<1>5. /\ now' = now /\ file' = file /\ calls' = calls /\ alive' = alive \cup {mem[w].id}
      /\ SameRows
  <2>1. shifts' = shifts
    BY DEF Launch, Tables
  <2> QED BY <2>1, RowsAreSame DEF Launch, Tables, Env
<1>6. ASSUME NEW v \in Workers \ {w}, pc[v] \in {"read", "snap", "update"}
      PROVE  mem[v].id \notin alive'
  <2>1. mem[v].id \notin alive
    BY <1>6 DEF PaceInv, Own, Stopped
  <2>2. mem[v].id # mem[w].id
    BY <1>1, <1>6 DEF PaceInv, Own, Sole, HasRow
  <2> QED BY <1>5, <2>1, <2>2
<1>7. "wait" \in Places /\ "wait" \in HasRow /\ pc[w] \in HasRow
      /\ "wait" \notin {"read", "snap", "update"}
  BY <1>1 DEF Places, HasRow
<1> QED BY <1>1, <1>2, <1>3, <1>4, <1>5, <1>6, <1>7, TaskPace

LEMMA ShiftPace ==
  ASSUME TypeInv, PaceInv, NEW w \in Workers, NEW exit \in Exits, spawn_claude_shift(w, exit)
  PROVE  PaceInv'
<1> DEFINE m == [mem[w] EXCEPT !.exit = exit]
<1>1. m \in Local /\ m.id = mem[w].id /\ m.req = mem[w].req /\ m.fm = mem[w].fm
  BY MineKept DEF Local
<1>2. Goto(w, "read") /\ Keep(w, m) /\ pc[w] = "wait" /\ alive' = alive \ {mem[w].id}
  BY DEF spawn_claude_shift, At
<1> HIDE DEF m
<1>3. m.req \in Directive /\ m.fm.next \in Directive
  BY <1>1 DEF PaceInv, Accepted
<1>4. Informed(shifts, now, "read", m)
  BY DEF Informed
<1>5. now' = now /\ file' = file /\ calls' = calls /\ SameRows
  <2>1. shifts' = shifts
    BY DEF spawn_claude_shift, Tables
  <2> QED BY <2>1, RowsAreSame DEF spawn_claude_shift, Tables, Env
<1>6. m.id \notin alive' /\ alive' \subseteq alive
  BY <1>1, <1>2
<1>7. "read" \in Places /\ "read" \in HasRow /\ pc[w] \in HasRow
      /\ "read" \notin {"launch", "wait"}
  BY <1>2 DEF Places, HasRow
<1> QED BY <1>1, <1>2, <1>3, <1>4, <1>5, <1>6, <1>7, StillStopped, TaskPace

\* The two steps that read STATE.md.
LEMMA ReadPace ==
  ASSUME TypeInv, PaceInv, NEW w \in Workers, ReadState(w) \/ Snapshot(w)
  PROVE  PaceInv'
<1>1. PICK place \in {"snap", "update"}, m \in Local :
           /\ Goto(w, place) /\ Keep(w, m)
           /\ m.id = mem[w].id /\ m.req = mem[w].req /\ m.fm.next \in Directive
  <2>1. file \in File /\ file.by \in Nat /\ mem[w] \in Local
    BY MineKept DEF TypeInv, TypeOK, File
  <2>2. file.next \in Directive /\ mem[w].fm.next \in Directive
    BY DEF PaceInv, Accepted
  <2>3. CASE ReadState(w)
    <3> DEFINE m == [mem[w] EXCEPT !.fm = file]
               place == IF file.ok THEN "snap" ELSE "update"
    <3>1. m \in Local /\ m.id = mem[w].id /\ m.req = mem[w].req /\ m.fm.next \in Directive
      BY <2>1, <2>2 DEF Local
    <3>2. Goto(w, place) /\ Keep(w, m) /\ place \in {"snap", "update"}
      BY <2>3 DEF ReadState
    <3> HIDE DEF m, place
    <3> QED BY <3>1, <3>2
  <2>4. CASE Snapshot(w)
    <3> DEFINE m == [mem[w] EXCEPT !.snapBy = file.by]
    <3>1. m \in Local /\ m.id = mem[w].id /\ m.req = mem[w].req /\ m.fm.next \in Directive
      BY <2>1, <2>2 DEF Local
    <3>2. Goto(w, "update") /\ Keep(w, m)
      BY <2>4 DEF Snapshot
    <3> HIDE DEF m
    <3> QED BY <3>1, <3>2
  <2> QED BY <2>3, <2>4
<1>2. pc[w] \in {"read", "snap"}
  BY DEF ReadState, Snapshot, At
<1>3. m.req \in Directive
  BY <1>1 DEF PaceInv, Accepted
<1>4. Informed(shifts, now, place, m)
  BY DEF Informed
<1>5. now' = now /\ file' = file /\ calls' = calls /\ SameRows /\ alive' = alive
  <2>1. shifts' = shifts
    BY DEF ReadState, Snapshot, Tables
  <2> QED BY <2>1, RowsAreSame DEF ReadState, Snapshot, Tables, Agent, Env
<1>6. m.id \notin alive'
  BY <1>1, <1>2, <1>5 DEF PaceInv, Own, Stopped
<1>7. place \in Places /\ place \in HasRow /\ pc[w] \in HasRow
      /\ place \notin {"launch", "wait"}
  BY <1>2 DEF Places, HasRow
<1> QED BY <1>1, <1>3, <1>4, <1>5, <1>6, <1>7, StillStopped, TaskPace

LEMMA UpdatePace ==
  ASSUME TypeInv, PaceInv, NEW w \in Workers, Update(w)
  PROVE  PaceInv'
<1> DEFINE id == mem[w].id
           row == [shifts[id] EXCEPT
                     !.ended = TRUE, !.exit = mem[w].exit, !.next = mem[w].fm.next,
                     !.nextBy = mem[w].fm.by, !.snapBy = mem[w].snapBy]
<1>1. id \in Ids /\ shifts[id] \in Row
  BY RowTyped DEF Update, At, TypeInv, Held, HasRow
<1>2. row.at = shifts[id].at /\ row.seen = shifts[id].seen /\ row.next \in Directive
  <2>1. mem[w].fm.next \in Directive
    BY DEF PaceInv, Accepted
  <2> HIDE DEF id
  <2> QED BY <1>1, <2>1 DEF Row
<1>3. shifts' = [shifts EXCEPT ![id] = row]
  BY <1>1, RowTyped DEF Update
<1> HIDE DEF row, id
<1>4. SameRows
  <2>1. /\ Len(shifts') = Len(shifts) /\ Ids' = Ids
        /\ shifts'[id] = row /\ \A i \in Ids \ {id} : shifts'[i] = shifts[i]
    BY <1>1, <1>3, RowTyped DEF Ids
  <2>2. \A i \in Ids : shifts[i].next \in Directive
    BY DEF PaceInv, Accepted
  <2> QED BY <1>2, <2>1, <2>2 DEF SameRows
<1>5. /\ Goto(w, "card") /\ Keep(w, Blank)
      /\ now' = now /\ file' = file /\ calls' = calls /\ alive' = alive
  BY DEF Update, Agent, Env
<1> QED BY <1>4, <1>5, EndPace

\* A new row comes Min units after every row its tick had seen.
LEMMA InsertPace ==
  ASSUME TypeInv, PaceInv, NEW w \in Workers, Insert(w)
  PROVE  PaceInv'
<1> DEFINE row == [at |-> now, seen |-> mem[w].seen, clamped |-> mem[w].clamped,
                   ended |-> FALSE, exit |-> "", next |-> 0, nextBy |-> 0, snapBy |-> 0]
           n == Len(shifts) + 1
           m == [Blank EXCEPT !.id = n]
<1>1. Len(shifts) \in Nat /\ Ids = 1 .. Len(shifts) /\ \A i \in Ids : shifts[i] \in Row
  BY RowTyped
<1>2. row.at = now /\ row.seen = mem[w].seen /\ row.next = 0
  OBVIOUS
<1>3. m.id = n /\ m.req \in Directive /\ m.fm.next \in Directive
  BY BlankPaced DEF Blank
<1>4. shifts' = Append(shifts, row) /\ Goto(w, "launch") /\ Keep(w, m) /\ pc[w] = "insert"
  BY DEF Insert, At
<1> HIDE DEF row, m
<1>5. /\ Ids' = Ids \cup {n} /\ Len(shifts') = n /\ shifts'[n] = row
      /\ \A i \in Ids : shifts'[i] = shifts[i]
  BY <1>1, <1>4, RowTyped DEF Ids
<1>6. n \notin Ids /\ n \in Nat /\ Len(shifts) < n
  BY <1>1
<1> HIDE DEF n
<1>7. now' = now /\ file' = file /\ calls' = calls /\ alive' = alive
  BY DEF Insert, Agent, Env
<1>8. pc' = [pc EXCEPT ![w] = "launch"] /\ mem' = [mem EXCEPT ![w] = m]
      /\ pc \in [Workers -> Places] /\ mem \in [Workers -> Local]
  BY <1>4 DEF TypeInv, TypeOK, Goto, Keep
<1>9. /\ \A v \in Workers \ {w} : pc'[v] = pc[v] /\ mem'[v] = mem[v]
      /\ pc'[w] = "launch" /\ mem'[w] = m
  BY <1>8
<1>10. Accepted'
  <2>1. \A v \in Workers : mem'[v].req \in Directive /\ mem'[v].fm.next \in Directive
    BY <1>3, <1>9 DEF PaceInv, Accepted
  <2>2. \A i \in Ids' : shifts'[i].next \in Directive
    BY <1>2, <1>5 DEF PaceInv, Accepted, Directive
  <2>3. file'.next \in Directive /\ \A c \in calls' : c.next \in Directive
    BY <1>7 DEF PaceInv, Accepted
  <2> QED BY <2>1, <2>2, <2>3 DEF Accepted, Directive
<1>11. mem[w].seen \in Nat /\ mem[w].seen <= Len(shifts)
       /\ \A i \in 1 .. mem[w].seen : shifts[i].at + Min <= now
  <2>1. Informed(shifts, now, "insert", mem[w])
    BY <1>4 DEF PaceInv, OnTime
  <2> QED BY <1>8, <2>1 DEF Informed, Local
<1>12. Paced'
  <2> SUFFICES ASSUME NEW j \in Ids \cup {n}
               PROVE  /\ shifts'[j].seen < j /\ shifts'[j].at <= now
                      /\ \A i \in 1 .. shifts'[j].seen : shifts'[i].at + Min <= shifts'[j].at
    BY <1>5, <1>7 DEF Paced
  <2>1. CASE j \in Ids
    <3>1. /\ shifts[j].seen < j /\ shifts[j].at <= now
          /\ \A i \in 1 .. shifts[j].seen : shifts[i].at + Min <= shifts[j].at
      BY <2>1 DEF PaceInv, Paced
    <3>2. shifts[j].seen \in Nat
      BY <1>1, <2>1 DEF Row
    <3>3. 1 .. shifts[j].seen \subseteq Ids
      BY <1>1, <2>1, <3>1, <3>2
    <3> QED BY <1>5, <2>1, <3>1, <3>3
  <2>2. CASE j = n
    <3>1. now \in Nat
      BY HeartbeatAssumption DEF TypeInv, TypeOK
    <3>2. 1 .. mem[w].seen \subseteq Ids
      BY <1>1, <1>11
    <3> QED BY <1>1, <1>2, <1>5, <1>6, <1>11, <2>2, <3>1, <3>2
  <2> QED BY <2>1, <2>2
<1>13. OnTime'
  <2> SUFFICES ASSUME NEW v \in Workers PROVE Informed(shifts', now', pc'[v], mem'[v])
    BY DEF OnTime
  <2>1. CASE v = w
    BY <1>9, <2>1 DEF Informed
  <2>2. CASE v # w
    <3>1. mem[v].seen \in Nat /\ Informed(shifts, now, pc[v], mem[v])
      BY <1>8 DEF PaceInv, OnTime, Local
    <3>2. mem[v].seen <= Len(shifts) =>
            mem[v].seen <= Len(shifts') /\ 1 .. mem[v].seen \subseteq Ids
      BY <1>1, <1>5, <1>6, <3>1
    <3>3. Informed(shifts', now', pc[v], mem[v])
      BY <1>5, <1>7, <3>1, <3>2 DEF Informed
    <3> QED BY <1>9, <2>2, <3>3
  <2> QED BY <2>1, <2>2
<1>14. Fresh'
  <2> SUFFICES ASSUME NEW v \in Workers, pc'[v] \in {"launch", "wait"}
               PROVE  now <= shifts'[mem'[v].id].at + 1
    BY <1>7 DEF Fresh
  <2>1. CASE v = w
    <3>1. now \in Nat
      BY HeartbeatAssumption DEF TypeInv, TypeOK
    <3> QED BY <1>2, <1>3, <1>5, <1>9, <2>1, <3>1
  <2>2. CASE v # w
    <3>1. pc[v] \in {"launch", "wait"} /\ mem'[v] = mem[v]
      BY <1>9, <2>2
    <3>2. mem[v].id \in Ids /\ now <= shifts[mem[v].id].at + 1
      BY <3>1 DEF TypeInv, Held, HasRow, PaceInv, Fresh
    <3> QED BY <1>5, <3>1, <3>2
  <2> QED BY <2>1, <2>2
<1>15. Sole'
  <2> SUFFICES ASSUME NEW u \in Workers, NEW v \in Workers,
                      pc'[u] \in HasRow, pc'[v] \in HasRow, u # v
               PROVE  mem'[u].id # mem'[v].id
    BY DEF Sole
  <2>1. \A x \in Workers \ {w} : pc'[x] \in HasRow =>
          pc[x] \in HasRow /\ mem'[x].id = mem[x].id /\ mem[x].id # n
    BY <1>6, <1>9 DEF TypeInv, Held
  <2>2. mem'[w].id = n
    BY <1>3, <1>9
  <2> QED BY <2>1, <2>2 DEF PaceInv, Own, Sole
<1>16. Stopped'
  <2> SUFFICES ASSUME NEW v \in Workers, pc'[v] \in {"read", "snap", "update"}
               PROVE  mem'[v].id \notin alive
    BY <1>7 DEF Stopped
  <2> QED BY <1>9 DEF PaceInv, Own, Stopped
<1>17. Bare'
  <2> SUFFICES ASSUME NEW v \in Workers, pc'[v] \notin HasRow PROVE mem'[v].id = 0
    BY DEF Bare
  <2>1. v # w
    BY <1>9 DEF HasRow
  <2> QED BY <1>9, <2>1 DEF PaceInv, Own, Bare
<1> QED BY <1>10, <1>12, <1>13, <1>14, <1>15, <1>16, <1>17 DEF PaceInv, Own

\* Time passes a supervised shift only once.
LEMMA TickPace ==
  ASSUME TypeInv, PaceInv, Tick
  PROVE  PaceInv'
<1>1. now \in Nat /\ now' = now + 1 /\ UNCHANGED <<shifts, pc, mem, alive, calls, file>>
      /\ \A i \in Supervised : shifts[i].at = now
  BY HeartbeatAssumption DEF Tick, Tables, Agent, TypeInv, TypeOK
<1>2. \A i \in Ids : shifts[i].at \in Nat /\ shifts[i].seen \in Nat
  BY RowTyped DEF Row
<1>3. Ids' = Ids
  BY <1>1 DEF Ids
<1>4. Accepted' /\ Own'
  <2>1. Accepted'
    BY <1>1, <1>3 DEF PaceInv, Accepted, Directive
  <2>2. Sole' /\ Stopped' /\ Bare'
    BY <1>1 DEF PaceInv, Own, Sole, Stopped, Bare
  <2> QED BY <2>1, <2>2 DEF Own
<1>5. Paced'
  <2> SUFFICES ASSUME NEW j \in Ids
               PROVE  /\ shifts[j].seen < j /\ shifts[j].at <= now + 1
                      /\ \A i \in 1 .. shifts[j].seen : shifts[i].at + Min <= shifts[j].at
    BY <1>1, <1>3 DEF Paced
  <2> QED BY <1>1, <1>2 DEF PaceInv, Paced
<1>6. OnTime'
  <2> SUFFICES ASSUME NEW v \in Workers PROVE Informed(shifts, now + 1, pc[v], mem[v])
    BY <1>1 DEF OnTime
  <2>1. Informed(shifts, now, pc[v], mem[v])
    BY DEF PaceInv, OnTime
  <2>2. mem[v].seen <= Len(shifts) => \A i \in 1 .. mem[v].seen : shifts[i].at \in Nat
    <3>1. mem[v].seen \in Nat /\ Len(shifts) \in Nat /\ Ids = 1 .. Len(shifts)
      BY RowTyped, MineKept DEF Local
    <3> QED BY <1>2, <3>1
  <2>3. Min \in Nat
    BY HeartbeatAssumption
  <2> QED BY <1>1, <2>1, <2>2, <2>3 DEF Informed
<1>7. Fresh'
  <2> SUFFICES ASSUME NEW v \in Workers, pc[v] \in {"launch", "wait"}
               PROVE  now + 1 <= shifts[mem[v].id].at + 1
    BY <1>1 DEF Fresh
  <2>1. shifts[mem[v].id].at = now
    BY <1>1 DEF Supervised
  <2> QED BY <1>1, <2>1
<1> QED BY <1>4, <1>5, <1>6, <1>7 DEF PaceInv

\* Steps of the agent, of the MCP server and of no one.
LEMMA AgentPace ==
  ASSUME TypeInv, PaceInv, UNCHANGED <<now, shifts, pc, mem>>, alive' \subseteq alive,
         file'.next \in Directive, \A c \in calls' : c.next \in Directive
  PROVE  PaceInv'
<1>1. Ids' = Ids
  BY DEF Ids
<1>2. Accepted'
  BY <1>1 DEF PaceInv, Accepted, Directive
<1>3. Paced'
  BY <1>1 DEF PaceInv, Paced
<1>4. OnTime' /\ Fresh'
  BY DEF PaceInv, OnTime, Fresh, Informed
<1>5. Sole' /\ Stopped' /\ Bare'
  BY DEF PaceInv, Own, Sole, Stopped, Bare
<1> QED BY <1>2, <1>3, <1>4, <1>5 DEF PaceInv, Own

LEMMA PaceInit == Init => PaceInv
<1> SUFFICES ASSUME Init PROVE PaceInv
  OBVIOUS
<1>1. Ids = {} /\ calls = {} /\ \A w \in Workers : pc[w] = "idle" /\ mem[w] = Blank
  BY DEF Init, Ids
<1>2. file.next \in Directive
  BY DEF Init, NoFile, Directive
<1>3. Accepted
  BY <1>1, <1>2, BlankPaced DEF Accepted
<1>4. Paced /\ OnTime /\ Fresh
  BY <1>1 DEF Paced, OnTime, Informed, Fresh
<1>5. Own
  BY <1>1, BlankPaced DEF Own, Sole, Stopped, Bare, HasRow
<1> QED BY <1>3, <1>4, <1>5 DEF PaceInv

LEMMA PaceStep == TypeInv /\ PaceInv /\ [Next]_vars => PaceInv'
<1> SUFFICES ASSUME TypeInv, PaceInv, [Next]_vars PROVE PaceInv'
  OBVIOUS
<1>1. ASSUME NEW w \in Workers, heartbeat_tick(w) PROVE PaceInv'
  <2>1. PICK exit \in Exits \ {""} :
           \/ Query(w) \/ CountToday(w) \/ CountWeek(w) \/ Skip(w) \/ Decide(w)
           \/ Header(w) \/ Insert(w)
           \/ Launch(w) \/ LaunchRaises(w) \/ spawn_claude_shift(w, exit)
           \/ ReadState(w) \/ Snapshot(w) \/ Update(w) \/ Card(w)
    <3>1. "broken" \in Exits \ {""}
      BY DEF Exits
    <3> QED BY <1>1, <3>1 DEF heartbeat_tick
  <2>2. CASE Skip(w) \/ LaunchRaises(w) \/ Card(w)
    <3>1. Finish(w) /\ now' = now /\ file' = file /\ calls' = calls /\ alive' = alive
          /\ shifts' = shifts
      BY <2>2 DEF Skip, LaunchRaises, Card, Tables, Agent, Env
    <3> QED BY <3>1, RowsAreSame, FinishPace
  <2> QED BY <2>1, <2>2, QueryPace, CountPace, DecidePace, HeaderPace, InsertPace, LaunchPace,
             ShiftPace, ReadPace, UpdatePace
<1>2. ASSUME NEW w \in Workers, Lose(w) PROVE PaceInv'
  <2>1. Finish(w) /\ now' = now /\ file' = file /\ calls' = calls /\ alive' \subseteq alive
        /\ shifts' = shifts
    BY <1>2 DEF Lose, Tables
  <2> QED BY <2>1, RowsAreSame, FinishPace
<1>3. file.next \in Directive /\ \A c \in calls : c.next \in Directive
  BY DEF PaceInv, Accepted
<1>4. ASSUME NEW i \in alive, Call(i) PROVE PaceInv'
  <2>1. PICK c \in [by: {i}, tool: {"write_state"}, next: Directives]
                   \cup [by: {i}, tool: {"append_diary"}, next: {0}] :
             calls' = calls \cup {c}
    BY <1>4 DEF Call
  <2>2. c.next \in Directive
    BY HeartbeatAssumption DEF Directive
  <2>3. UNCHANGED <<now, shifts, pc, mem, alive, file>>
    BY <1>4 DEF Call, Tables
  <2> QED BY <1>3, <2>1, <2>2, <2>3, AgentPace
<1>5. ASSUME NEW c \in calls, Serve(c) PROVE PaceInv'
  <2>1. UNCHANGED <<now, shifts, pc, mem, alive>> /\ calls' = calls \ {c}
    BY <1>5 DEF Serve, write_state, WriteTo, append_diary, EntryTo, Tables
  <2>2. file'.next \in Directive
    <3>1. c.next \in Directive
      BY <1>3
    <3> QED BY <1>3, <1>5, <3>1 DEF Serve, write_state, WriteTo, Contents, append_diary, EntryTo
  <2> QED BY <1>3, <2>1, <2>2, AgentPace
<1>6. ASSUME NEW i \in alive, OrphanEnds(i) PROVE PaceInv'
  <2>1. UNCHANGED <<now, shifts, pc, mem, calls, file>> /\ alive' \subseteq alive
    BY <1>6 DEF OrphanEnds, Tables
  <2> QED BY <1>3, <2>1, AgentPace
<1>7. CASE UNCHANGED vars
  <2>1. UNCHANGED <<now, shifts, pc, mem, calls, file, alive>>
    BY <1>7 DEF vars
  <2> QED BY <1>3, <2>1, AgentPace
<1> QED BY <1>1, <1>2, <1>4, <1>5, <1>6, <1>7, TickPace DEF Next

(***************************************************************************)
(* Nothing locks the runtime directory, but for every number of workers    *)
(* and messages a second shift runs beside one whose tick still watches it *)
(* only if its own tick had read the history before the first one's row.   *)
(***************************************************************************)
THEOREM ExclusiveHolds == Spec => []Exclusive
<1>1. TypeInv /\ PaceInv => Exclusive
  <2> SUFFICES ASSUME TypeInv, PaceInv, NEW i \in alive, NEW j \in alive, i < j,
                      ~(shifts[j].seen < i), Holders(i) # {}
               PROVE  FALSE
    BY DEF Exclusive
  <2>1. PICK w \in Workers : pc[w] # "idle" /\ mem[w].id = i
    BY DEF Holders
  <2>2. i \in Ids /\ j \in Ids /\ i \in Nat /\ i > 0
    BY RowTyped DEF TypeInv, TypeOK
  <2>3. pc[w] \in {"launch", "wait"}
    BY <2>1, <2>2 DEF PaceInv, Own, Bare, Stopped, HasRow
  <2>4. now <= shifts[i].at + 1
    BY <2>1, <2>3 DEF PaceInv, Fresh
  <2>5. shifts[i].at \in Nat /\ shifts[j].at \in Nat /\ shifts[j].seen \in Nat /\ now \in Nat
    <3>1. shifts[i].at \in Nat /\ shifts[j].at \in Nat /\ shifts[j].seen \in Nat
      BY <2>2, RowTyped DEF Row
    <3>2. now \in Nat
      BY HeartbeatAssumption DEF TypeInv, TypeOK
    <3> QED BY <3>1, <3>2
  <2>6. shifts[j].at <= now /\ \A k \in 1 .. shifts[j].seen : shifts[k].at + Min <= shifts[j].at
    BY <2>2 DEF PaceInv, Paced
  <2>7. i \in 1 .. shifts[j].seen
    BY <2>2, <2>5
  <2>8. shifts[i].at + Min <= shifts[j].at
    BY <2>6, <2>7
  <2>9. Min \in Nat /\ Min > 1
    BY HeartbeatAssumption
  <2> QED BY <2>4, <2>5, <2>6, <2>8, <2>9
<1>2. Spec => []TypeInv
  BY TypeInit, TypeStep, PTL DEF Spec
<1>3. Spec => []PaceInv
  BY <1>2, PaceInit, PaceStep, PTL DEF Spec
<1> QED BY <1>1, <1>2, <1>3, PTL

-----------------------------------------------------------------------------
(***************************************************************************)
(* Rows left open.  Only a step that counts as a failure lets go of an     *)
(* open row, and of one only.                                              *)
(***************************************************************************)
LEMMA AbandonedFinite ==
  TypeInv => /\ IsFiniteSet(Abandoned) /\ Cardinality(Abandoned) \in Nat
             /\ failures \in Nat
<1> SUFFICES ASSUME TypeInv
             PROVE  /\ IsFiniteSet(Abandoned) /\ Cardinality(Abandoned) \in Nat
                    /\ failures \in Nat
  OBVIOUS
<1>1. IsFiniteSet(Ids)
  BY RowTyped, FS_Interval
<1>2. Abandoned \in SUBSET Ids
  BY DEF Abandoned
<1>3. failures \in Nat
  BY HeartbeatAssumption DEF TypeInv, TypeOK
<1> QED BY <1>1, <1>2, <1>3, FS_Subset, FS_CardinalityType

\* A step of one task can let go of the row it held, and of no other.
LEMMA AbandonedStep ==
  ASSUME TypeInv, NEW w \in Workers, NEW place, NEW m, Goto(w, place), Keep(w, m),
         \A i \in Ids : shifts[i].ended => shifts'[i].ended,
         \A i \in Ids' : i \in Ids \/ (i = m.id /\ place # "idle")
  PROVE  /\ Abandoned' \subseteq Abandoned \cup {mem[w].id}
         /\ ((mem[w].id \in Ids /\ ~shifts'[mem[w].id].ended)
               => (place # "idle" /\ m.id = mem[w].id))
             => Abandoned' \subseteq Abandoned
<1>1. pc' = [pc EXCEPT ![w] = place] /\ mem' = [mem EXCEPT ![w] = m]
      /\ pc \in [Workers -> Places] /\ mem \in [Workers -> Local]
  BY DEF TypeInv, TypeOK, Goto, Keep
<1>2. /\ \A v \in Workers \ {w} : pc'[v] = pc[v] /\ mem'[v] = mem[v]
      /\ pc'[w] = place /\ mem'[w] = m
  BY <1>1
<1>3. ASSUME NEW i \in Abandoned'
      PROVE  /\ i \in Ids /\ ~shifts[i].ended /\ ~shifts'[i].ended
             /\ place # "idle" => m.id # i
             /\ \A v \in Workers \ {w} : pc[v] # "idle" => mem[v].id # i
  <2>1. i \in Ids' /\ ~shifts'[i].ended
        /\ \A v \in Workers : pc'[v] # "idle" => mem'[v].id # i
    BY <1>3 DEF Abandoned, Holders
  <2>2. place # "idle" => m.id # i
    BY <1>2, <2>1
  <2>3. i \in Ids
    BY <2>1, <2>2
  <2>4. ~shifts[i].ended
    BY <2>1, <2>3
  <2>5. \A v \in Workers \ {w} : pc[v] # "idle" => mem[v].id # i
    BY <1>2, <2>1
  <2> QED BY <2>1, <2>2, <2>3, <2>4, <2>5
<1>4. ASSUME NEW i \in Abandoned', i # mem[w].id
      PROVE  i \in Abandoned
  BY <1>3, <1>4 DEF Abandoned, Holders
<1>5. ASSUME (mem[w].id \in Ids /\ ~shifts'[mem[w].id].ended)
               => (place # "idle" /\ m.id = mem[w].id)
      PROVE  mem[w].id \notin Abandoned'
  BY <1>3, <1>5
<1>6. Abandoned' \subseteq Abandoned \cup {mem[w].id}
  BY <1>4
<1>7. mem[w].id \notin Abandoned' => Abandoned' \subseteq Abandoned
  BY <1>4
<1> QED BY <1>5, <1>6, <1>7

LEMMA RowsNoWorse ==
  ASSUME TypeInv, TypeInv', RowsExplained, Abandoned' \subseteq Abandoned, failures <= failures'
  PROVE  RowsExplained'
<1>1. IsFiniteSet(Abandoned) /\ Cardinality(Abandoned) \in Nat /\ failures \in Nat
  BY AbandonedFinite
<1>2. (IsFiniteSet(Abandoned) /\ Cardinality(Abandoned) \in Nat /\ failures \in Nat)'
  BY AbandonedFinite, PTL
<1>3. Cardinality(Abandoned') <= Cardinality(Abandoned)
  BY <1>1, FS_Subset
<1> QED BY <1>1, <1>2, <1>3 DEF RowsExplained

LEMMA RowsOneMore ==
  ASSUME TypeInv, TypeInv', RowsExplained, NEW x, Abandoned' \subseteq Abandoned \cup {x},
         failures' = failures + 1
  PROVE  RowsExplained'
<1>1. IsFiniteSet(Abandoned) /\ Cardinality(Abandoned) \in Nat /\ failures \in Nat
  BY AbandonedFinite
<1>2. (IsFiniteSet(Abandoned) /\ Cardinality(Abandoned) \in Nat /\ failures \in Nat)'
  BY AbandonedFinite, PTL
<1>3. /\ IsFiniteSet(Abandoned \cup {x})
      /\ Cardinality(Abandoned \cup {x}) =
           IF x \in Abandoned THEN Cardinality(Abandoned) ELSE Cardinality(Abandoned) + 1
  BY <1>1, FS_AddElement
<1>4. Cardinality(Abandoned') <= Cardinality(Abandoned \cup {x})
  BY <1>3, FS_Subset
<1>5. Cardinality(Abandoned') <= Cardinality(Abandoned) + 1
  BY <1>1, <1>2, <1>3, <1>4
<1> QED BY <1>1, <1>2, <1>5 DEF RowsExplained

LEMMA RowsTask ==
  ASSUME TypeInv, TypeInv', PaceInv, RowsExplained, NEW w \in Workers, heartbeat_tick(w) \/ Lose(w)
  PROVE  RowsExplained'
<1>1. failures \in Nat
  BY AbandonedFinite
<1>2. pc[w] \notin HasRow => mem[w].id \notin Ids
  BY RowTyped DEF PaceInv, Own, Bare
\* The steps on the way to a row leave the rows alone and hold none.
<1>3. CASE BeforeInsert(w)
  <2>1. shifts' = shifts /\ failures' = failures /\ pc[w] \notin HasRow
    BY <1>3, BeforeRow DEF HasRow
  <2>2. PICK place, m : Goto(w, place) /\ Keep(w, m)
    BY <1>3, BeforeRow
  <2>3. Abandoned' \subseteq Abandoned
    BY <1>2, <2>1, <2>2, AbandonedStep DEF Ids
  <2> QED BY <1>1, <2>1, <2>3, RowsNoWorse
<1>4. CASE Insert(w)
  <2> DEFINE n == Len(shifts) + 1
             m == [Blank EXCEPT !.id = n]
  <2>1. m.id = n
    BY DEF Blank
  <2>2. Goto(w, "launch") /\ Keep(w, m) /\ failures' = failures /\ pc[w] \notin HasRow
    BY <1>4 DEF Insert, Env, At, HasRow
  <2> HIDE DEF m
  <2>3. Ids' = Ids \cup {n} /\ \A i \in Ids : shifts'[i] = shifts[i]
    <3>1. PICK row : shifts' = Append(shifts, row)
      BY <1>4 DEF Insert
    <3> QED BY <3>1, RowTyped DEF Ids
  <2> HIDE DEF n
  <2>4. Abandoned' \subseteq Abandoned
    BY <1>2, <2>1, <2>2, <2>3, AbandonedStep
  <2> QED BY <1>1, <2>2, <2>4, RowsNoWorse
\* The steps that hold a row and go on holding it.
<1>5. ASSUME NEW place, NEW m, Goto(w, place), Keep(w, m), place # "idle", m.id = mem[w].id,
             shifts' = shifts, failures' = failures
      PROVE  RowsExplained'
  <2>1. Abandoned' \subseteq Abandoned
    BY <1>5, AbandonedStep DEF Ids
  <2> QED BY <1>1, <1>5, <2>1, RowsNoWorse
<1>6. CASE Launch(w)
  <2>1. Goto(w, "wait") /\ Keep(w, mem[w]) /\ shifts' = shifts /\ failures' = failures
    BY <1>6, MineKept DEF Launch, Tables, Env
  <2> QED BY <1>5, <2>1
<1>7. ASSUME NEW exit \in Exits, spawn_claude_shift(w, exit) PROVE RowsExplained'
  <2> DEFINE m == [mem[w] EXCEPT !.exit = exit]
  <2>1. m.id = mem[w].id
    BY MineKept DEF Local
  <2>2. Goto(w, "read") /\ Keep(w, m) /\ shifts' = shifts /\ failures' = failures
    BY <1>7 DEF spawn_claude_shift, Tables, Env
  <2> HIDE DEF m
  <2> QED BY <1>5, <2>1, <2>2
<1>8. CASE ReadState(w)
  <2> DEFINE m == [mem[w] EXCEPT !.fm = file]
             place == IF file.ok THEN "snap" ELSE "update"
  <2>1. m.id = mem[w].id /\ place # "idle"
    BY MineKept DEF Local
  <2>2. Goto(w, place) /\ Keep(w, m) /\ shifts' = shifts /\ failures' = failures
    BY <1>8 DEF ReadState, Tables, Env
  <2> HIDE DEF m, place
  <2> QED BY <1>5, <2>1, <2>2
<1>9. CASE Snapshot(w)
  <2> DEFINE m == [mem[w] EXCEPT !.snapBy = file.by]
  <2>1. m.id = mem[w].id
    BY MineKept DEF Local
  <2>2. Goto(w, "update") /\ Keep(w, m) /\ shifts' = shifts /\ failures' = failures
    BY <1>9 DEF Snapshot, Tables, Env
  <2> HIDE DEF m
  <2> QED BY <1>5, <2>1, <2>2
<1>10. CASE Update(w)
  <2>1. Goto(w, "card") /\ Keep(w, Blank) /\ failures' = failures /\ Ids' = Ids
    BY <1>10, UpdateTyped DEF Update, Env
  <2>2. mem[w].id \in Ids /\ shifts[mem[w].id] \in Row
    BY <1>10, RowTyped DEF Update, At, TypeInv, Held, HasRow
  <2>3. shifts'[mem[w].id].ended /\ \A i \in Ids \ {mem[w].id} : shifts'[i] = shifts[i]
    <3> DEFINE id == mem[w].id
               row == [shifts[id] EXCEPT
                         !.ended = TRUE, !.exit = mem[w].exit, !.next = mem[w].fm.next,
                         !.nextBy = mem[w].fm.by, !.snapBy = mem[w].snapBy]
    <3>1. row.ended
      BY <2>2 DEF Row
    <3>2. shifts' = [shifts EXCEPT ![id] = row]
      BY <1>10, <2>2, RowTyped DEF Update
    <3> HIDE DEF row
    <3> QED BY <2>2, <3>1, <3>2, RowTyped
  <2>4. Abandoned' \subseteq Abandoned
    BY <2>1, <2>3, AbandonedStep
  <2> QED BY <1>1, <2>1, <2>4, RowsNoWorse
\* The two that count as a failure.
<1>11. CASE LaunchRaises(w) \/ Lose(w)
  <2>1. Goto(w, "idle") /\ Keep(w, Blank) /\ failures' = failures + 1 /\ shifts' = shifts
    BY <1>11 DEF LaunchRaises, Lose, Finish, Tables
  <2>2. Abandoned' \subseteq Abandoned \cup {mem[w].id}
    BY <2>1, AbandonedStep DEF Ids
  <2> QED BY <2>1, <2>2, RowsOneMore
<1> QED BY <1>3, <1>4, <1>6, <1>7, <1>8, <1>9, <1>10, <1>11
        DEF heartbeat_tick, BeforeInsert

LEMMA RowsStep == TypeInv /\ TypeInv' /\ PaceInv /\ RowsExplained /\ [Next]_vars => RowsExplained'
<1> SUFFICES ASSUME TypeInv, TypeInv', PaceInv, RowsExplained, [Next]_vars PROVE RowsExplained'
  OBVIOUS
<1>1. ASSUME NEW w \in Workers, heartbeat_tick(w) \/ Lose(w) PROVE RowsExplained'
  BY <1>1, RowsTask
<1>2. CASE (\E i \in alive : Call(i) \/ OrphanEnds(i)) \/ (\E c \in calls : Serve(c))
           \/ Tick \/ UNCHANGED vars
  <2>1. UNCHANGED <<shifts, pc, mem, failures>>
    BY <1>2 DEF Call, OrphanEnds, Serve, write_state, WriteTo, append_diary, EntryTo, Tables,
                Tick, vars
  <2>2. Abandoned' \subseteq Abandoned /\ failures <= failures'
    BY <2>1, AbandonedFinite DEF Abandoned, Holders, Ids
  <2> QED BY <2>2, RowsNoWorse
<1> QED BY <1>1, <1>2 DEF Next

(***************************************************************************)
(* Every spawned row heartbeat_tick leaves without an end stands for a     *)
(* process lost or a subprocess that could not be started, whatever the    *)
(* interleaving of ticks, redeliveries and tool calls.                     *)
(***************************************************************************)
THEOREM RowsHold == Spec => []RowsExplained
<1>1. Init => RowsExplained
  <2> SUFFICES ASSUME Init PROVE RowsExplained
    OBVIOUS
  <2>1. Abandoned = {} /\ failures = 0
    BY DEF Init, Abandoned, Ids
  <2> QED BY <2>1, FS_EmptySet DEF RowsExplained
<1>2. Spec => []TypeInv
  BY TypeInit, TypeStep, PTL DEF Spec
<1>3. Spec => []PaceInv
  BY <1>2, PaceInit, PaceStep, PTL DEF Spec
<1>4. Spec => []RowsExplained
  BY <1>1, <1>2, <1>3, RowsStep, PTL DEF Spec
<1> QED BY <1>4, PTL


-----------------------------------------------------------------------------
(***************************************************************************)
(* The diary.  While a tick is about to write the title of a day, no shift *)
(* of a row it had seen is supervised with an entry for that day: such a   *)
(* row is Min units old when the tick decides, and a supervised shift at   *)
(* most one.  A tick that decides later finds the entry.                   *)
(***************************************************************************)
Titled == \A e \in said : diary[e.day] # Absent
Unseen ==
  \A e \in said : \A w \in Workers :
    pc[w] = "header" /\ mem[w].day = e.day /\ ~e.late => mem[w].seen < e.by
DiaryInv == Titled /\ Unseen /\ DiaryKept

\* Steps that touch neither the diary nor what is on its way to a title.
LEMMA DiarySame ==
  ASSUME DiaryInv, UNCHANGED <<diary, said, wiped>>,
         \A v \in Workers : pc'[v] = "header" => pc[v] = "header" /\ mem'[v] = mem[v]
  PROVE  DiaryInv'
<1>1. Titled'
  BY DEF DiaryInv, Titled
<1>2. Unseen'
  BY DEF DiaryInv, Unseen
<1>3. DiaryKept'
  BY DEF DiaryInv, DiaryKept
<1> QED BY <1>1, <1>2, <1>3 DEF DiaryInv

\* What one task's step changes.
\* A tick that finds no file has no entry to lose.
LEMMA DecideDiary ==
  ASSUME TypeInv, DiaryInv, NEW w \in Workers, Decide(w)
  PROVE  DiaryInv'
<1>1. UNCHANGED <<diary, said, wiped>>
  BY DEF Decide, Agent
<1>2. PICK m, place : /\ Goto(w, place) /\ Keep(w, m) /\ m.day = DayOf(now)
                      /\ place = "header" => diary[DayOf(now)] = Absent
  <2> DEFINE m == [Blank EXCEPT !.seen = mem[w].seen, !.day = DayOf(now),
                                !.clamped = Clamped(mem[w], now)]
             place == IF diary[DayOf(now)] = Absent THEN "header" ELSE "insert"
  <2>1. m.day = DayOf(now)
    BY DEF Blank
  <2>2. place = "header" => diary[DayOf(now)] = Absent
    OBVIOUS
  <2>3. Goto(w, place) /\ Keep(w, m)
    BY DEF Decide
  <2> HIDE DEF m, place
  <2> QED BY <2>1, <2>2, <2>3
<1>3. /\ pc'[w] = place /\ mem'[w] = m
      /\ \A v \in Workers \ {w} : pc'[v] = pc[v] /\ mem'[v] = mem[v]
  BY <1>2, TaskStep
<1>4. ASSUME NEW e \in said, NEW v \in Workers,
             pc'[v] = "header", mem'[v].day = e.day, ~e.late
      PROVE  mem'[v].seen < e.by
  <2>1. diary[e.day] # Absent
    BY DEF DiaryInv, Titled
  <2>2. v # w
    BY <1>2, <1>3, <1>4, <2>1
  <2>3. pc[v] = "header" /\ mem'[v] = mem[v]
    BY <1>3, <1>4, <2>2
  <2> QED BY <1>4, <2>3 DEF DiaryInv, Unseen
<1>5. Unseen'
  BY <1>1, <1>4 DEF Unseen
<1>6. Titled' /\ DiaryKept'
  BY <1>1 DEF DiaryInv, Titled, DiaryKept
<1> QED BY <1>5, <1>6 DEF DiaryInv

\* The title: the entries it replaces are those of shifts it had not seen.
LEMMA HeaderDiary ==
  ASSUME TypeInv, DiaryInv, NEW w \in Workers, Header(w)
  PROVE  DiaryInv'
<1> DEFINE d == mem[w].day
<1>1. /\ diary' = [diary EXCEPT ![d] = {}] /\ said' = said
      /\ wiped' = wiped \cup {[by |-> i, seen |-> mem[w].seen] : i \in diary[d] \ Absent}
      /\ pc[w] = "header"
  BY DEF Header, At
<1>2. Goto(w, "insert") /\ Keep(w, mem[w])
  BY MineKept DEF Header
<1>3. /\ pc'[w] = "insert" /\ mem'[w] = mem[w]
      /\ \A v \in Workers \ {w} : pc'[v] = pc[v] /\ mem'[v] = mem[v]
  BY <1>2, TaskStep
<1>4. DOMAIN diary = Days /\ \A e \in said : e.day \in Days /\ e.by \in Nat \ {0}
  <2>1. said \subseteq [by: Ids, day: Days, late: BOOLEAN] /\ Ids \subseteq Nat \ {0}
    BY RowTyped DEF TypeInv, TypeOK
  <2> QED BY <2>1 DEF TypeInv, TypeOK
<1>5. \A e \in said : diary'[e.day] = IF e.day = d THEN {} ELSE diary[e.day]
  BY <1>1, <1>4
<1> HIDE DEF d
<1>6. Titled'
  <2>1. {} # Absent
    BY DEF Absent
  <2> QED BY <1>1, <1>5, <2>1 DEF DiaryInv, Titled
<1>7. Unseen'
  <2>1. \A v \in Workers : pc'[v] = "header" => pc[v] = "header" /\ mem'[v] = mem[v]
    BY <1>3
  <2> QED BY <1>1, <2>1 DEF DiaryInv, Unseen
<1>8. DiaryKept'
  <2> SUFFICES ASSUME NEW e \in said, ~e.late, e.by \notin diary'[e.day]
               PROVE  \E x \in wiped' : x.by = e.by /\ x.seen < e.by
    BY <1>1 DEF DiaryKept
  <2>1. CASE \E x \in wiped : x.by = e.by /\ x.seen < e.by
    BY <1>1, <2>1
  <2>2. CASE e.by \in diary[e.day]
    <3>1. e.day = d /\ e.by \in diary[d] \ Absent
      BY <1>4, <1>5, <2>2 DEF Absent
    <3>2. mem[w].seen < e.by
      BY <1>1, <3>1 DEF DiaryInv, Unseen, d
    <3>3. [by |-> e.by, seen |-> mem[w].seen] \in wiped'
      BY <1>1, <3>1
    <3> QED BY <3>2, <3>3
  <2> QED BY <2>1, <2>2 DEF DiaryInv, DiaryKept
<1> QED BY <1>6, <1>7, <1>8 DEF DiaryInv

\* An entry of a supervised shift: a tick about to write the title of the day
\* has not seen its row, which is too young.
LEMMA AppendDiary ==
  ASSUME TypeInv, PaceInv, DiaryInv, NEW c \in calls, append_diary(c)
  PROVE  DiaryInv'
<1> DEFINE today == DayOf(now)
           new == [by |-> c.by, day |-> today, late |-> c.by \notin Supervised]
           entries == (diary[today] \ Absent) \cup {c.by}
<1>1. /\ diary' = [diary EXCEPT ![today] = entries]
      /\ said' = said \cup {new}
      /\ UNCHANGED <<now, shifts, pc, mem, wiped>>
  BY DEF append_diary, EntryTo, Tables
<1>2. /\ new.by = c.by /\ new.day = today /\ (~new.late => c.by \in Supervised)
  OBVIOUS
<1>3. /\ c.by \in Ids /\ c.by \in Nat \ {0}
      /\ \A e \in said : e.day \in Days /\ e.by \in Nat \ {0}
  <2>1. said \subseteq [by: Ids, day: Days, late: BOOLEAN] /\ Ids \subseteq Nat \ {0}
        /\ calls \subseteq [by: Ids, tool: Tools, next: 0 .. Max]
    BY RowTyped DEF TypeInv, TypeOK
  <2> QED BY <2>1
<1>4. today \in Days /\ DOMAIN diary = Days
  <2>1. TypeOK
    BY DEF TypeInv
  <2> QED BY <2>1, DayTyped DEF TypeOK
<1>5. entries # Absent /\ c.by \in entries /\ diary[today] \ Absent \subseteq entries
  BY <1>3 DEF Absent
<1>6. \A d \in Days : diary'[d] = IF d = today THEN entries ELSE diary[d]
  BY <1>1, <1>4
<1> HIDE DEF new, entries, today
<1>7. Titled'
  <2> SUFFICES ASSUME NEW e \in said' PROVE diary'[e.day] # Absent
    BY DEF Titled
  <2>1. CASE e = new
    BY <1>2, <1>4, <1>5, <1>6, <2>1
  <2>2. CASE e \in said
    BY <1>3, <1>5, <1>6, <2>2 DEF DiaryInv, Titled
  <2> QED BY <1>1, <2>1, <2>2
<1>8. Unseen'
  <2> SUFFICES ASSUME NEW e \in said', NEW w \in Workers,
                      pc[w] = "header", mem[w].day = e.day, ~e.late
               PROVE  mem[w].seen < e.by
    BY <1>1 DEF Unseen
  <2>1. CASE e \in said
    BY <2>1 DEF DiaryInv, Unseen
  <2>2. CASE e = new
    <3>1. PICK v \in Workers : pc[v] \in {"launch", "wait"} /\ mem[v].id = c.by
      BY <1>2, <2>2 DEF Supervised
    <3>2. now <= shifts[c.by].at + 1
      BY <3>1 DEF PaceInv, Fresh
    <3>3. \A i \in 1 .. mem[w].seen : shifts[i].at + Min <= now
      BY DEF PaceInv, OnTime, Informed
    <3>4. mem[w].seen \in Nat /\ now \in Nat /\ shifts[c.by].at \in Nat /\ Min \in Nat /\ Min > 1
      <4>1. mem[w] \in Local /\ now \in Nat /\ shifts[c.by] \in Row
        BY <1>3, RowTyped, HeartbeatAssumption DEF TypeInv, TypeOK
      <4> QED BY <4>1, HeartbeatAssumption DEF Local, Row
    <3>5. SUFFICES ASSUME c.by <= mem[w].seen PROVE FALSE
      BY <1>2, <1>3, <2>2, <3>4
    <3>6. c.by \in 1 .. mem[w].seen
      BY <1>3, <3>4, <3>5
    <3>7. shifts[c.by].at + Min <= now
      BY <3>3, <3>6
    <3> QED BY <3>2, <3>4, <3>7
  <2> QED BY <1>1, <2>1, <2>2
<1>9. DiaryKept'
  <2> SUFFICES ASSUME NEW e \in said', ~e.late
               PROVE  e.by \in diary'[e.day] \/ \E x \in wiped : x.by = e.by /\ x.seen < e.by
    BY <1>1 DEF DiaryKept
  <2>1. CASE e = new
    BY <1>2, <1>4, <1>5, <1>6, <2>1
  <2>2. CASE e \in said
    <3>1. e.by \in diary[e.day] => e.by \in diary'[e.day]
      BY <1>3, <1>5, <1>6, <2>2 DEF Absent
    <3> QED BY <2>2, <3>1 DEF DiaryInv, DiaryKept
  <2> QED BY <1>1, <2>1, <2>2
<1> QED BY <1>7, <1>8, <1>9 DEF DiaryInv

LEMMA TaskDiary ==
  ASSUME TypeInv, DiaryInv, NEW w \in Workers, heartbeat_tick(w) \/ Lose(w)
  PROVE  DiaryInv'
<1>1. ASSUME NEW place, NEW m, place # "header", Goto(w, place), Keep(w, m),
             UNCHANGED <<diary, said, wiped>>
      PROVE  DiaryInv'
  <2>1. \A v \in Workers : pc'[v] = "header" => pc[v] = "header" /\ mem'[v] = mem[v]
    BY <1>1, TaskStep
  <2> QED BY <1>1, <2>1, DiarySame
<1>2. CASE Query(w) \/ CountToday(w) \/ CountWeek(w) \/ Skip(w) \/ Insert(w)
  <2>1. PICK place, m : place # "header" /\ Goto(w, place) /\ Keep(w, m)
    BY <1>2 DEF Query, CountToday, CountWeek, Skip, Insert, Finish
  <2>2. UNCHANGED <<diary, said, wiped>>
    BY <1>2 DEF Query, CountToday, CountWeek, Skip, Insert, Agent
  <2> QED BY <1>1, <2>1, <2>2
<1>3. CASE Launch(w) \/ LaunchRaises(w) \/ Lose(w)
  <2>1. PICK place, m : place # "header" /\ Goto(w, place) /\ Keep(w, m)
    BY <1>3, MineKept DEF Launch, LaunchRaises, Lose, Finish
  <2>2. UNCHANGED <<diary, said, wiped>>
    BY <1>3 DEF Launch, LaunchRaises, Lose, Agent
  <2> QED BY <1>1, <2>1, <2>2
<1>4. ASSUME NEW exit, spawn_claude_shift(w, exit) PROVE DiaryInv'
  <2>1. PICK m : Goto(w, "read") /\ Keep(w, m)
    BY <1>4 DEF spawn_claude_shift
  <2>2. UNCHANGED <<diary, said, wiped>>
    BY <1>4 DEF spawn_claude_shift
  <2> QED BY <1>1, <2>1, <2>2
<1>5. CASE ReadState(w) \/ Snapshot(w) \/ Update(w) \/ Card(w)
  <2>1. PICK place, m : place # "header" /\ Goto(w, place) /\ Keep(w, m)
    BY <1>5 DEF ReadState, Snapshot, Update, Card, Finish
  <2>2. UNCHANGED <<diary, said, wiped>>
    BY <1>5 DEF ReadState, Snapshot, Update, Card, Agent
  <2> QED BY <1>1, <2>1, <2>2
<1> QED BY <1>2, <1>3, <1>4, <1>5, DecideDiary, HeaderDiary DEF heartbeat_tick

LEMMA DiaryStep == TypeInv /\ PaceInv /\ DiaryInv /\ [Next]_vars => DiaryInv'
<1> SUFFICES ASSUME TypeInv, PaceInv, DiaryInv, [Next]_vars PROVE DiaryInv'
  OBVIOUS
<1>1. ASSUME NEW w \in Workers, heartbeat_tick(w) \/ Lose(w) PROVE DiaryInv'
  BY <1>1, TaskDiary
<1>2. ASSUME NEW c \in calls, append_diary(c) PROVE DiaryInv'
  BY <1>2, AppendDiary
<1>3. CASE (\E i \in alive : Call(i) \/ OrphanEnds(i)) \/ (\E c \in calls : write_state(c))
           \/ Tick \/ UNCHANGED vars
  <2>1. UNCHANGED <<pc, mem, diary, said, wiped>>
    BY <1>3 DEF Call, OrphanEnds, write_state, WriteTo, Tick, Agent, vars
  <2> QED BY <2>1, DiarySame
<1> QED BY <1>1, <1>2, <1>3 DEF Next, Serve

(***************************************************************************)
(* Whatever the bounds, the midnights, the redeliveries and the processes  *)
(* lost: an entry append_diary acknowledged while a tick supervised its    *)
(* shift goes only with the title of a tick that had read the history      *)
(* before the shift's row was there.                                       *)
(***************************************************************************)
THEOREM DiaryHolds == Spec => []DiaryKept
<1>1. Init => DiaryInv
  BY DEF Init, DiaryInv, Titled, Unseen, DiaryKept
<1>2. Spec => []TypeInv
  BY TypeInit, TypeStep, PTL DEF Spec
<1>3. Spec => []PaceInv
  BY <1>2, PaceInit, PaceStep, PTL DEF Spec
<1>4. Spec => []DiaryInv
  BY <1>1, <1>2, <1>3, DiaryStep, PTL DEF Spec
<1>5. DiaryInv => DiaryKept
  BY DEF DiaryInv
<1> QED BY <1>4, <1>5, PTL

-----------------------------------------------------------------------------
(***************************************************************************)
(* Directives.  STATE.md is shared and nothing locks it, but whoever can   *)
(* write it while a shift is supervised has met that shift, the later of   *)
(* the two at its launch.  From the end of a shift that completed to the   *)
(* second read of its tick the text is its own or one of a shift it met.   *)
(***************************************************************************)
Owners(i) == {i} \cup Partners(i)

Introduced == \A i \in Active : \A k \in Active : i # k => {i, k} \in met
Closed == \A i \in Ids : shifts[i].ended => i \notin alive
Written == ~file.ok => file.by = 0

\* What a tick that holds a row knows of its shift, its row and STATE.md.
Unheard(w) == pc[w] = "launch" => mem[w].id \notin heard \cup alive
Open(w) == pc[w] \in HasRow => ~shifts[mem[w].id].ended
Heeded(w) == mem[w].id \in heard =>
  /\ pc[w] \in {"wait", "read"} => file.by \in Owners(mem[w].id)
  /\ pc[w] \in {"snap", "update"} => mem[w].fm.by \in Owners(mem[w].id)
Quiet(w) == pc[w] \in {"read", "snap", "update"} /\ mem[w].exit = "completed" =>
  /\ Waiting(mem[w].id) = {}
  /\ Partners(mem[w].id) = {} =>
       /\ pc[w] = "snap" => mem[w].fm.by = file.by
       /\ pc[w] = "update" => mem[w].snapBy = mem[w].fm.by
Unread(w) == pc[w] \in {"launch", "wait", "read"} => mem[w].snapBy = 0
Watch(w) == Unheard(w) /\ Open(w) /\ Heeded(w) /\ Quiet(w) /\ Unread(w)

OwnedInv ==
  Introduced /\ Closed /\ Written /\ (\A w \in Workers : Watch(w)) /\ DirectiveOwned

LEMMA PartnersGrow ==
  ASSUME met \subseteq met', NEW i
  PROVE  Partners(i) \subseteq UNION {p \in met' : i \in p}
  BY DEF Partners

\* Whoever can act has been introduced when it was launched.
LEMMA MetSame ==
  ASSUME Introduced, Active' \subseteq Active, met \subseteq met'
  PROVE  Introduced'
  BY DEF Introduced

\* The steps before the row is inserted, and where they take the task.
LEMMA ActiveTask ==
  ASSUME TypeInv, NEW w \in Workers, NEW place, NEW m, Goto(w, place), Keep(w, m),
         alive' \subseteq alive, calls' = calls,
         place \in {"wait", "read", "snap"} =>
           pc[w] \in {"wait", "read", "snap"} /\ m.id = mem[w].id
  PROVE  Active' \subseteq Active
<1>1. /\ pc'[w] = place /\ mem'[w] = m
      /\ \A v \in Workers \ {w} : pc'[v] = pc[v] /\ mem'[v] = mem[v]
  BY TaskStep
<1>2. ASSUME NEW v \in Workers, pc'[v] \in {"wait", "read", "snap"}
      PROVE  pc[v] \in {"wait", "read", "snap"} /\ mem'[v].id = mem[v].id
  BY <1>1, <1>2
<1> QED BY <1>2 DEF Active

LEMMA MetLaunch ==
  ASSUME TypeInv, Introduced, NEW w \in Workers, Launch(w)
  PROVE  Introduced'
<1> DEFINE id == mem[w].id
<1>1. Goto(w, "wait") /\ Keep(w, mem[w])
  BY MineKept DEF Launch
<1>2. /\ pc'[w] = "wait" /\ mem'[w] = mem[w]
      /\ \A v \in Workers \ {w} : pc'[v] = pc[v] /\ mem'[v] = mem[v]
  BY <1>1, TaskStep
<1>3. /\ alive' = alive \cup {id} /\ calls' = calls
      /\ met' = met \cup {{i, id} : i \in Active}
  BY DEF Launch
<1>4. Active' \subseteq Active \cup {id}
  <2>1. ASSUME NEW v \in Workers, pc'[v] \in {"wait", "read", "snap"}
        PROVE  mem'[v].id \in Active \cup {id}
    <3>1. CASE v = w
      BY <1>2, <3>1
    <3>2. CASE v # w
      BY <1>2, <2>1, <3>2 DEF Active
    <3> QED BY <3>1, <3>2
  <2>2. alive' \cup {c.by : c \in calls'} \subseteq Active \cup {id}
    BY <1>3 DEF Active
  <2> QED BY <2>1, <2>2 DEF Active
<1> HIDE DEF id
<1>5. SUFFICES ASSUME NEW i \in Active \cup {id}, NEW k \in Active \cup {id}, i # k
               PROVE  {i, k} \in met'
  BY <1>4 DEF Introduced
<1>6. CASE i \in Active /\ k \in Active
  BY <1>3, <1>5, <1>6 DEF Introduced
<1>7. CASE k = id /\ i \in Active
  BY <1>3, <1>7
<1>8. CASE i = id /\ k \in Active
  <2>1. {i, k} = {k, id}
    BY <1>8
  <2> QED BY <1>3, <1>8, <2>1
<1> QED BY <1>5, <1>6, <1>7, <1>8

LEMMA MetStep == TypeInv /\ Introduced /\ [Next]_vars => Introduced'
<1> SUFFICES ASSUME TypeInv, Introduced, [Next]_vars PROVE Introduced'
  OBVIOUS
<1>1. ASSUME NEW w \in Workers, NEW place, NEW m, Goto(w, place), Keep(w, m),
             alive' \subseteq alive, calls' = calls, met' = met,
             place \in {"wait", "read", "snap"} =>
               pc[w] \in {"wait", "read", "snap"} /\ m.id = mem[w].id
      PROVE  Introduced'
  BY <1>1, ActiveTask, MetSame
<1>2. ASSUME NEW w \in Workers, heartbeat_tick(w) \/ Lose(w) PROVE Introduced'
  <2>1. CASE BeforeInsert(w) \/ Insert(w)
    <3>1. PICK place, m : Goto(w, place) /\ Keep(w, m) /\ place \notin {"wait", "read", "snap"}
      <4>1. CASE Insert(w)
        <5>1. \E m : Goto(w, "launch") /\ Keep(w, m)
          BY <4>1 DEF Insert
        <5> QED BY <5>1
      <4> QED BY <2>1, <4>1, BeforeRow
    <3>2. alive' = alive /\ calls' = calls /\ met' = met
      BY <2>1, BeforeRow DEF Insert, Agent
    <3> QED BY <1>1, <3>1, <3>2
  <2>2. CASE LaunchRaises(w) \/ Lose(w) \/ Update(w)
    <3>1. Keep(w, Blank) /\ (Goto(w, "idle") \/ Goto(w, "card"))
      BY <2>2 DEF LaunchRaises, Lose, Update, Finish
    <3>2. alive' \subseteq alive /\ calls' = calls /\ met' = met
      BY <2>2 DEF LaunchRaises, Lose, Update, Agent
    <3> QED BY <1>1, <3>1, <3>2
  <2>3. ASSUME NEW exit, spawn_claude_shift(w, exit) PROVE Introduced'
    <3> DEFINE m == [mem[w] EXCEPT !.exit = exit]
    <3>1. m.id = mem[w].id
      BY MineKept DEF Local
    <3>2. Goto(w, "read") /\ Keep(w, m) /\ pc[w] = "wait"
          /\ alive' \subseteq alive /\ calls' = calls /\ met' = met
      BY <2>3 DEF spawn_claude_shift, At
    <3> HIDE DEF m
    <3> QED BY <1>1, <3>1, <3>2
  <2>4. CASE ReadState(w)
    <3> DEFINE m == [mem[w] EXCEPT !.fm = file]
    <3>1. m.id = mem[w].id
      BY MineKept DEF Local
    <3>2. Goto(w, IF file.ok THEN "snap" ELSE "update") /\ Keep(w, m) /\ pc[w] = "read"
          /\ alive' \subseteq alive /\ calls' = calls /\ met' = met
      BY <2>4 DEF ReadState, At, Agent
    <3> HIDE DEF m
    <3> QED BY <1>1, <3>1, <3>2
  <2>5. CASE Snapshot(w)
    <3>1. PICK m : Goto(w, "update") /\ Keep(w, m)
      BY <2>5 DEF Snapshot
    <3>2. alive' = alive /\ calls' = calls /\ met' = met
      BY <2>5 DEF Snapshot, Agent
    <3> QED BY <1>1, <3>1, <3>2
  <2> QED BY <1>2, <2>1, <2>2, <2>3, <2>4, <2>5, MetLaunch DEF heartbeat_tick, BeforeInsert
<1>3. ASSUME NEW i \in alive, Call(i) PROVE Introduced'
  <2>1. PICK c \in [by: {i}, tool: {"write_state"}, next: Directives]
                   \cup [by: {i}, tool: {"append_diary"}, next: {0}] :
             calls' = calls \cup {c}
    BY <1>3 DEF Call
  <2>2. c.by = i
    OBVIOUS
  <2>3. UNCHANGED <<pc, mem, alive, met>>
    BY <1>3 DEF Call
  <2>4. Active' \subseteq Active
    BY <2>1, <2>2, <2>3 DEF Active
  <2> QED BY <2>3, <2>4, MetSame
<1>4. CASE (\E i \in alive : OrphanEnds(i)) \/ (\E c \in calls : Serve(c))
           \/ Tick \/ UNCHANGED vars
  <2>1. UNCHANGED <<pc, mem, met>> /\ alive' \subseteq alive /\ calls' \subseteq calls
    BY <1>4 DEF OrphanEnds, Serve, write_state, WriteTo, append_diary, EntryTo, Tick, Agent, vars
  <2>2. Active' \subseteq Active
    BY <2>1 DEF Active
  <2> QED BY <2>1, <2>2, MetSame
<1> QED BY <1>2, <1>3, <1>4 DEF Next


\* The tasks a step leaves alone, when STATE.md stays as it is.
LEMMA OthersWatch ==
  ASSUME OwnedInv, NEW v \in Workers, pc'[v] = pc[v], mem'[v] = mem[v],
         file' = file, heard' = heard, met \subseteq met',
         pc[v] = "launch" => mem[v].id \notin alive',
         pc[v] \in HasRow => ~shifts'[mem[v].id].ended,
         pc[v] \in {"read", "snap", "update"} /\ Waiting(mem[v].id) = {}
           => {c \in calls' : c.by = mem[v].id} = {}
  PROVE  Watch(v)'
<1>1. Watch(v)
  BY DEF OwnedInv
<1>2. Partners(mem[v].id) \subseteq UNION {p \in met' : mem[v].id \in p}
  BY PartnersGrow
<1>3. Unheard(v)' /\ Open(v)' /\ Unread(v)'
  BY <1>1 DEF Watch, Unheard, Open, Unread
<1>4. Heeded(v)'
  BY <1>1, <1>2 DEF Watch, Heeded, Owners, Partners
<1>5. Quiet(v)'
  BY <1>1, <1>2 DEF Watch, Quiet, Waiting, Partners
<1> QED BY <1>3, <1>4, <1>5 DEF Watch

\* A task without a row has nothing to watch.
LEMMA NothingToWatch ==
  ASSUME NEW w \in Workers, pc'[w] \notin HasRow
  PROVE  Watch(w)'
  BY DEF HasRow, Watch, Unheard, Open, Heeded, Quiet, Unread

\* Closed rows keep what they say, and whom their shifts met only grows.
LEMMA OwnedSame ==
  ASSUME DirectiveOwned, shifts' = shifts, met \subseteq met',
         \A i \in Ids : shifts[i].ended /\ i \in heard' => i \in heard
  PROVE  DirectiveOwned'
<1> SUFFICES ASSUME NEW i \in Ids, shifts[i].ended
             PROVE  /\ i \in heard' => shifts[i].nextBy \in {i} \cup Partners(i)'
                    /\ shifts[i].exit = "completed" /\ Partners(i)' = {} =>
                         shifts[i].snapBy = shifts[i].nextBy
  BY DEF DirectiveOwned, Ids
<1>1. Partners(i) \subseteq Partners(i)'
  BY DEF Partners
<1> QED BY <1>1 DEF DirectiveOwned

LEMMA TaskOwned ==
  ASSUME TypeInv, PaceInv, OwnedInv, Introduced', NEW w \in Workers, NEW place, NEW m,
         Goto(w, place), Keep(w, m), UNCHANGED <<shifts, file, heard, met, calls>>,
         alive' \subseteq alive, place \in HasRow => Watch(w)'
  PROVE  OwnedInv'
<1>1. /\ pc'[w] = place /\ mem'[w] = m
      /\ \A v \in Workers \ {w} : pc'[v] = pc[v] /\ mem'[v] = mem[v]
  BY TaskStep
<1>2. ASSUME NEW v \in Workers PROVE Watch(v)'
  <2>1. CASE v = w
    BY <1>1, <2>1, NothingToWatch
  <2>2. CASE v # w
    <3>1. Watch(v)
      BY DEF OwnedInv
    <3>2. /\ pc[v] = "launch" => mem[v].id \notin alive'
          /\ pc[v] \in HasRow => ~shifts'[mem[v].id].ended
      BY <3>1 DEF Watch, Unheard, Open
    <3>3. pc[v] \in {"read", "snap", "update"} /\ Waiting(mem[v].id) = {}
           => {c \in calls' : c.by = mem[v].id} = {}
      BY DEF Waiting
    <3> QED BY <1>1, <2>2, <3>2, <3>3, OthersWatch
  <2> QED BY <2>1, <2>2
<1>3. Closed' /\ Written'
  BY DEF OwnedInv, Closed, Written, Ids
<1>4. DirectiveOwned'
  BY OwnedSame DEF OwnedInv
<1> QED BY <1>2, <1>3, <1>4 DEF OwnedInv

\* The end of the subprocess: a shift that completed waits for no call.
LEMMA ShiftOwned ==
  ASSUME TypeInv, PaceInv, OwnedInv, Introduced', NEW w \in Workers, NEW exit \in Exits,
         spawn_claude_shift(w, exit)
  PROVE  OwnedInv'
<1> DEFINE m == [mem[w] EXCEPT !.exit = exit]
<1>1. m.id = mem[w].id /\ m.exit = exit /\ m.snapBy = mem[w].snapBy
  BY MineKept DEF Local
<1>2. /\ Goto(w, "read") /\ Keep(w, m) /\ pc[w] = "wait"
      /\ exit = "completed" => Waiting(mem[w].id) = {}
      /\ UNCHANGED <<shifts, file, heard, met, calls>> /\ alive' \subseteq alive
  BY DEF spawn_claude_shift, At, Tables
<1> HIDE DEF m
<1>3. pc'[w] = "read" /\ mem'[w] = m
  BY <1>2, TaskStep
<1>4. Watch(w)
  BY DEF OwnedInv
<1>5. Unheard(w)' /\ Open(w)' /\ Unread(w)'
  BY <1>1, <1>2, <1>3, <1>4 DEF Watch, Unheard, Open, Unread, HasRow
<1>6. Heeded(w)'
  BY <1>1, <1>2, <1>3, <1>4 DEF Watch, Heeded, Owners, Partners
<1>7. Quiet(w)'
  BY <1>1, <1>2, <1>3 DEF Quiet, Waiting
<1>8. Watch(w)'
  BY <1>5, <1>6, <1>7 DEF Watch
<1> QED BY <1>2, <1>8, TaskOwned

LEMMA ReadOwned ==
  ASSUME TypeInv, PaceInv, OwnedInv, Introduced', NEW w \in Workers, ReadState(w)
  PROVE  OwnedInv'
<1> DEFINE m == [mem[w] EXCEPT !.fm = file]
           place == IF file.ok THEN "snap" ELSE "update"
<1>1. /\ m.id = mem[w].id /\ m.exit = mem[w].exit /\ m.snapBy = mem[w].snapBy
      /\ m.fm = file
  BY MineKept DEF Local
<1>2. /\ Goto(w, place) /\ Keep(w, m) /\ pc[w] = "read"
      /\ UNCHANGED <<shifts, file, heard, met, calls>> /\ alive' \subseteq alive
  BY DEF ReadState, At, Tables, Agent
<1>3. place \in {"snap", "update"} /\ (place = "update" => ~file.ok)
  OBVIOUS
<1> HIDE DEF m, place
<1>4. pc'[w] = place /\ mem'[w] = m
  BY <1>2, TaskStep
<1>5. Watch(w) /\ Written
  BY DEF OwnedInv
<1>6. Unheard(w)' /\ Open(w)' /\ Unread(w)'
  BY <1>1, <1>2, <1>3, <1>4, <1>5 DEF Watch, Unheard, Open, Unread, HasRow
<1>7. Heeded(w)'
  BY <1>1, <1>2, <1>3, <1>4, <1>5 DEF Watch, Heeded, Owners, Partners
<1>8. Quiet(w)'
  <2>1. mem[w].snapBy = 0 /\ (~file.ok => file.by = 0)
    BY <1>2, <1>5 DEF Watch, Unread, Written
  <2>2. mem[w].exit = "completed" => Waiting(mem[w].id) = {}
    BY <1>2, <1>5 DEF Watch, Quiet
  <2>3. Waiting(mem[w].id)' = Waiting(m.id)
    BY <1>2, <1>4 DEF Waiting
  <2> QED BY <1>1, <1>2, <1>3, <1>4, <2>1, <2>2, <2>3 DEF Quiet
<1>9. Watch(w)'
  BY <1>6, <1>7, <1>8 DEF Watch
<1> QED BY <1>2, <1>9, TaskOwned

LEMMA SnapshotOwned ==
  ASSUME TypeInv, PaceInv, OwnedInv, Introduced', NEW w \in Workers, Snapshot(w)
  PROVE  OwnedInv'
<1> DEFINE m == [mem[w] EXCEPT !.snapBy = file.by]
<1>1. /\ m.id = mem[w].id /\ m.exit = mem[w].exit /\ m.fm = mem[w].fm
      /\ m.snapBy = file.by
  BY MineKept DEF Local
<1>2. /\ Goto(w, "update") /\ Keep(w, m) /\ pc[w] = "snap"
      /\ UNCHANGED <<shifts, file, heard, met, calls>> /\ alive' \subseteq alive
  BY DEF Snapshot, At, Tables, Agent
<1> HIDE DEF m
<1>3. pc'[w] = "update" /\ mem'[w] = m
  BY <1>2, TaskStep
<1>4. Watch(w)
  BY DEF OwnedInv
<1>5. Unheard(w)' /\ Open(w)' /\ Unread(w)'
  BY <1>1, <1>2, <1>3, <1>4 DEF Watch, Unheard, Open, Unread, HasRow
<1>6. Heeded(w)'
  BY <1>1, <1>2, <1>3, <1>4 DEF Watch, Heeded, Owners, Partners
<1>7. Quiet(w)'
  <2>1. Quiet(w)
    BY <1>4 DEF Watch
  <2>2. Waiting(mem[w].id)' = Waiting(m.id) /\ Partners(mem[w].id)' = Partners(m.id)
    BY <1>2, <1>3 DEF Waiting, Partners
  <2> QED BY <1>1, <1>2, <1>3, <2>1, <2>2 DEF Quiet
<1>8. Watch(w)'
  BY <1>5, <1>6, <1>7 DEF Watch
<1> QED BY <1>2, <1>8, TaskOwned

LEMMA InsertOwned ==
  ASSUME TypeInv, PaceInv, OwnedInv, Introduced', NEW w \in Workers, Insert(w)
  PROVE  OwnedInv'
<1> DEFINE row == [at |-> now, seen |-> mem[w].seen, clamped |-> mem[w].clamped,
                   ended |-> FALSE, exit |-> "", next |-> 0, nextBy |-> 0, snapBy |-> 0]
           n == Len(shifts) + 1
           m == [Blank EXCEPT !.id = n]
<1>1. m.id = n /\ m.snapBy = 0 /\ ~row.ended
  BY DEF Blank
<1>2. /\ shifts' = Append(shifts, row) /\ Goto(w, "launch") /\ Keep(w, m)
      /\ UNCHANGED <<file, heard, met, calls, alive>>
  BY DEF Insert, Agent
<1> HIDE DEF row, m
<1>3. /\ Ids' = Ids \cup {n} /\ shifts'[n] = row /\ n \notin Ids
      /\ \A i \in Ids : shifts'[i] = shifts[i]
  BY <1>2, RowTyped DEF Ids
<1> HIDE DEF n
<1>4. /\ pc'[w] = "launch" /\ mem'[w] = m
      /\ \A v \in Workers \ {w} : pc'[v] = pc[v] /\ mem'[v] = mem[v]
  BY <1>2, TaskStep
<1>5. heard \subseteq Ids /\ alive \subseteq Ids
  BY DEF TypeInv, TypeOK
<1>6. Watch(w)'
  <2>1. n \notin heard \cup alive
    BY <1>3, <1>5
  <2>2. Unheard(w)' /\ Open(w)' /\ Unread(w)'
    BY <1>1, <1>2, <1>3, <1>4, <2>1 DEF Unheard, Open, Unread
  <2>3. Heeded(w)' /\ Quiet(w)'
    BY <1>4 DEF Heeded, Quiet
  <2> QED BY <2>2, <2>3 DEF Watch
<1>7. ASSUME NEW v \in Workers \ {w} PROVE Watch(v)'
  <2>1. Watch(v)
    BY DEF OwnedInv
  <2>2. pc[v] = "launch" => mem[v].id \notin alive'
    BY <1>2, <2>1 DEF Watch, Unheard
  <2>3. pc[v] \in HasRow => ~shifts'[mem[v].id].ended
    BY <1>3, <2>1 DEF Watch, Open, TypeInv, Held
  <2>4. pc[v] \in {"read", "snap", "update"} /\ Waiting(mem[v].id) = {}
         => {c \in calls' : c.by = mem[v].id} = {}
    BY <1>2 DEF Waiting
  <2> QED BY <1>2, <1>4, <2>2, <2>3, <2>4, OthersWatch
<1>8. Closed'
  BY <1>1, <1>2, <1>3 DEF OwnedInv, Closed
<1>9. Written'
  BY <1>2 DEF OwnedInv, Written
<1>10. DirectiveOwned'
  <2> SUFFICES ASSUME NEW i \in Ids', shifts'[i].ended
               PROVE  /\ i \in heard => shifts'[i].nextBy \in {i} \cup Partners(i)
                      /\ shifts'[i].exit = "completed" /\ Partners(i) = {} =>
                           shifts'[i].snapBy = shifts'[i].nextBy
    BY <1>2 DEF DirectiveOwned, Partners
  <2>1. i \in Ids /\ shifts'[i] = shifts[i]
    BY <1>1, <1>3
  <2> QED BY <2>1 DEF OwnedInv, DirectiveOwned
<1> QED BY <1>6, <1>7, <1>8, <1>9, <1>10 DEF OwnedInv

LEMMA LaunchOwned ==
  ASSUME TypeInv, PaceInv, OwnedInv, Introduced', NEW w \in Workers, Launch(w)
  PROVE  OwnedInv'
<1> DEFINE id == mem[w].id
<1>1. Goto(w, "wait") /\ Keep(w, mem[w]) /\ pc[w] = "launch"
  BY MineKept DEF Launch, At
<1>2. /\ pc'[w] = "wait" /\ mem'[w] = mem[w]
      /\ \A v \in Workers \ {w} : pc'[v] = pc[v] /\ mem'[v] = mem[v]
  BY <1>1, TaskStep
<1>3. /\ alive' = alive \cup {id} /\ met \subseteq met'
      /\ UNCHANGED <<shifts, file, heard, calls>>
  BY DEF Launch, Tables
<1>4. Watch(w) /\ id \in Ids /\ ~shifts[id].ended /\ id \notin heard
  BY <1>1 DEF OwnedInv, Watch, Open, Unheard, HasRow, TypeInv, Held
<1>5. Watch(w)'
  <2>1. Unheard(w)' /\ Open(w)' /\ Quiet(w)'
    BY <1>2, <1>3, <1>4 DEF Unheard, Open, Quiet
  <2>2. Heeded(w)'
    BY <1>2, <1>3, <1>4 DEF Heeded
  <2>3. Unread(w)'
    BY <1>1, <1>2, <1>4 DEF Watch, Unread
  <2> QED BY <2>1, <2>2, <2>3 DEF Watch
<1>6. ASSUME NEW v \in Workers \ {w} PROVE Watch(v)'
  <2>1. Watch(v)
    BY DEF OwnedInv
  <2>2. pc[v] = "launch" => mem[v].id \notin alive'
    <3>1. pc[v] = "launch" => mem[v].id # id
      BY <1>1 DEF PaceInv, Own, Sole, HasRow
    <3> QED BY <1>3, <2>1, <3>1 DEF Watch, Unheard
  <2>3. pc[v] \in HasRow => ~shifts'[mem[v].id].ended
    BY <1>3, <2>1 DEF Watch, Open
  <2>4. pc[v] \in {"read", "snap", "update"} /\ Waiting(mem[v].id) = {}
         => {c \in calls' : c.by = mem[v].id} = {}
    BY <1>3 DEF Waiting
  <2> QED BY <1>2, <1>3, <2>2, <2>3, <2>4, OthersWatch
<1>7. Closed'
  BY <1>3, <1>4 DEF OwnedInv, Closed, Ids
<1>8. Written'
  BY <1>3 DEF OwnedInv, Written
<1>9. DirectiveOwned'
  BY <1>3, OwnedSame DEF OwnedInv
<1> QED BY <1>5, <1>6, <1>7, <1>8, <1>9 DEF OwnedInv

\* The row is closed with what the two reads found.
LEMMA UpdateOwned ==
  ASSUME TypeInv, PaceInv, OwnedInv, Introduced', NEW w \in Workers, Update(w)
  PROVE  OwnedInv'
<1> DEFINE id == mem[w].id
           row == [shifts[id] EXCEPT
                     !.ended = TRUE, !.exit = mem[w].exit, !.next = mem[w].fm.next,
                     !.nextBy = mem[w].fm.by, !.snapBy = mem[w].snapBy]
<1>1. id \in Ids /\ shifts[id] \in Row /\ pc[w] = "update"
  BY RowTyped DEF Update, At, TypeInv, Held, HasRow
<1>2. row.exit = mem[w].exit /\ row.nextBy = mem[w].fm.by /\ row.snapBy = mem[w].snapBy
  BY <1>1 DEF Row
<1>3. shifts' = [shifts EXCEPT ![id] = row]
  BY <1>1, RowTyped DEF Update
<1>4. /\ Goto(w, "card") /\ Keep(w, Blank) /\ UNCHANGED <<file, heard, met, calls, alive>>
  BY DEF Update, Agent
<1> HIDE DEF row
<1>5. /\ Ids' = Ids /\ shifts'[id] = row /\ \A i \in Ids \ {id} : shifts'[i] = shifts[i]
  BY <1>1, <1>3, RowTyped DEF Ids
<1>6. /\ pc'[w] = "card"
      /\ \A v \in Workers \ {w} : pc'[v] = pc[v] /\ mem'[v] = mem[v]
  BY <1>4, TaskStep
<1>7. id \notin alive
  BY <1>1 DEF PaceInv, Own, Stopped
<1>8. ASSUME NEW v \in Workers PROVE Watch(v)'
  <2>1. CASE v = w
    <3>1. pc'[v] \notin HasRow
      BY <1>6, <2>1 DEF HasRow
    <3> QED BY <3>1, NothingToWatch
  <2>2. CASE v # w
    <3>1. Watch(v)
      BY DEF OwnedInv
    <3>2. pc[v] \in HasRow => mem[v].id \in Ids \ {id}
      BY <1>1, <2>2 DEF PaceInv, Own, Sole, HasRow, TypeInv, Held
    <3>3. pc[v] = "launch" => mem[v].id \notin alive'
      BY <1>4, <3>1 DEF Watch, Unheard
    <3>4. pc[v] \in HasRow => ~shifts'[mem[v].id].ended
      BY <1>5, <3>1, <3>2 DEF Watch, Open
    <3>5. pc[v] \in {"read", "snap", "update"} /\ Waiting(mem[v].id) = {}
           => {c \in calls' : c.by = mem[v].id} = {}
      BY <1>4 DEF Waiting
    <3> QED BY <1>4, <1>6, <2>2, <3>3, <3>4, <3>5, OthersWatch
  <2> QED BY <2>1, <2>2
<1>9. Closed'
  BY <1>4, <1>5, <1>7 DEF OwnedInv, Closed
<1>10. Written'
  BY <1>4 DEF OwnedInv, Written
<1>11. DirectiveOwned'
  <2> SUFFICES ASSUME NEW i \in Ids, shifts'[i].ended
               PROVE  /\ i \in heard => shifts'[i].nextBy \in {i} \cup Partners(i)
                      /\ shifts'[i].exit = "completed" /\ Partners(i) = {} =>
                           shifts'[i].snapBy = shifts'[i].nextBy
    BY <1>4, <1>5 DEF DirectiveOwned, Partners
  <2>1. CASE i = id
    <3>1. Heeded(w) /\ Quiet(w)
      BY DEF OwnedInv, Watch
    <3> QED BY <1>1, <1>2, <1>5, <2>1, <3>1 DEF Heeded, Quiet, Owners
  <2>2. CASE i # id
    BY <1>5, <2>2 DEF OwnedInv, DirectiveOwned
  <2> QED BY <2>1, <2>2
<1> QED BY <1>8, <1>9, <1>10, <1>11 DEF OwnedInv


\* The agent and the clock, when STATE.md stays as it is.
LEMMA AgentOwned ==
  ASSUME OwnedInv, Introduced', UNCHANGED <<shifts, pc, mem, file, heard, met>>,
         alive' \subseteq alive,
         \A v \in Workers : pc[v] \in {"read", "snap", "update"} /\ Waiting(mem[v].id) = {}
           => {c \in calls' : c.by = mem[v].id} = {}
  PROVE  OwnedInv'
<1>1. ASSUME NEW v \in Workers PROVE Watch(v)'
  <2>1. Watch(v)
    BY DEF OwnedInv
  <2>2. /\ pc[v] = "launch" => mem[v].id \notin alive'
        /\ pc[v] \in HasRow => ~shifts'[mem[v].id].ended
    BY <2>1 DEF Watch, Unheard, Open
  <2> QED BY <2>2, OthersWatch
<1>2. Closed' /\ Written'
  BY DEF OwnedInv, Closed, Written, Ids
<1>3. DirectiveOwned'
  BY OwnedSame DEF OwnedInv
<1> QED BY <1>1, <1>2, <1>3 DEF OwnedInv

LEMMA CallOwned ==
  ASSUME TypeInv, PaceInv, OwnedInv, Introduced', NEW i \in alive, Call(i)
  PROVE  OwnedInv'
<1>1. PICK c \in [by: {i}, tool: {"write_state"}, next: Directives]
                 \cup [by: {i}, tool: {"append_diary"}, next: {0}] :
           calls' = calls \cup {c}
  BY DEF Call
<1>2. c.by = i
  OBVIOUS
<1>3. UNCHANGED <<shifts, pc, mem, file, heard, met, alive>>
  BY DEF Call, Tables
<1>4. ASSUME NEW v \in Workers, pc[v] \in {"read", "snap", "update"}, Waiting(mem[v].id) = {}
      PROVE  {k \in calls' : k.by = mem[v].id} = {}
  <2>1. mem[v].id # i
    BY <1>4 DEF PaceInv, Own, Stopped
  <2> QED BY <1>1, <1>2, <1>4, <2>1 DEF Waiting
<1> QED BY <1>3, <1>4, AgentOwned

\* A directive lands: its shift is the one supervised, or has met it.
LEMMA WriteOwned ==
  ASSUME TypeInv, PaceInv, OwnedInv, Introduced', NEW c \in calls, write_state(c)
  PROVE  OwnedInv'
<1>1. /\ file' = Contents(c) /\ heard' = heard \cup ({c.by} \cap alive)
      /\ calls' = calls \ {c} /\ UNCHANGED <<shifts, pc, mem, alive, met>>
  BY DEF write_state, WriteTo, Tables
<1>2. file'.by = c.by /\ file'.ok
  BY <1>1 DEF Contents
<1>3. c.by \in Active
  BY DEF Active
<1>4. ASSUME NEW v \in Workers, pc[v] \in {"wait", "read", "snap"}, c.by # mem[v].id
      PROVE  c.by \in Partners(mem[v].id)
  <2>1. mem[v].id \in Active
    BY <1>4 DEF Active
  <2>2. {c.by, mem[v].id} \in met
    BY <1>3, <1>4, <2>1 DEF OwnedInv, Introduced
  <2> QED BY <2>2 DEF Partners
<1>5. ASSUME NEW v \in Workers PROVE Watch(v)'
  <2> DEFINE id == mem[v].id
  <2>1. Watch(v)
    BY DEF OwnedInv
  <2>2. Partners(id)' = Partners(id) /\ Waiting(id)' \subseteq Waiting(id)
    BY <1>1 DEF Partners, Waiting
  <2>3. Unheard(v)' /\ Open(v)' /\ Unread(v)'
    BY <1>1, <2>1 DEF Watch, Unheard, Open, Unread
  <2>4. Heeded(v)'
    <3>1. ASSUME id \in heard', pc[v] \in {"wait", "read"} PROVE c.by \in Owners(id)
      BY <1>4, <3>1 DEF Owners
    <3>2. ASSUME id \in heard', pc[v] \in {"snap", "update"} PROVE mem[v].fm.by \in Owners(id)
      <4>1. id \notin alive
        BY <3>2 DEF PaceInv, Own, Stopped
      <4>2. id \in heard
        BY <1>1, <3>2, <4>1
      <4> QED BY <2>1, <3>2, <4>2 DEF Watch, Heeded
    <3> QED BY <1>1, <1>2, <2>2, <3>1, <3>2 DEF Heeded, Owners
  <2>5. Quiet(v)'
    <3> SUFFICES ASSUME pc[v] \in {"read", "snap", "update"}, mem[v].exit = "completed"
                 PROVE  /\ Waiting(id)' = {}
                        /\ Partners(id) = {} =>
                             /\ pc[v] = "snap" => mem[v].fm.by = file'.by
                             /\ pc[v] = "update" => mem[v].snapBy = mem[v].fm.by
      BY <1>1, <2>2 DEF Quiet
    <3>1. Waiting(id) = {}
      BY <2>1 DEF Watch, Quiet
    <3>2. c.by # id
      BY <3>1 DEF Waiting
    <3>3. pc[v] = "snap" => Partners(id) # {}
      BY <1>4, <3>2
    <3> QED BY <2>1, <2>2, <3>1, <3>3 DEF Watch, Quiet
  <2> QED BY <2>3, <2>4, <2>5 DEF Watch
<1>6. Closed'
  BY <1>1 DEF OwnedInv, Closed, Ids
<1>7. Written'
  BY <1>2 DEF Written
<1>8. DirectiveOwned'
  <2>1. \A i \in Ids : shifts[i].ended /\ i \in heard' => i \in heard
    BY <1>1 DEF OwnedInv, Closed
  <2> QED BY <1>1, <2>1, OwnedSame DEF OwnedInv
<1> QED BY <1>5, <1>6, <1>7, <1>8 DEF OwnedInv

LEMMA TickOwned ==
  ASSUME TypeInv, PaceInv, OwnedInv, Introduced', NEW w \in Workers, heartbeat_tick(w) \/ Lose(w)
  PROVE  OwnedInv'
\* Steps on the way to a row, and the ends of a task that holds one.
<1>1. CASE BeforeInsert(w)
  <2>1. PICK place, m : Goto(w, place) /\ Keep(w, m) /\ place \notin HasRow
    BY <1>1, BeforeRow DEF HasRow
  <2>2. UNCHANGED <<shifts, file, heard, met, calls, alive>>
    BY <1>1, BeforeRow
  <2> QED BY <2>1, <2>2, TaskOwned
<1>2. CASE LaunchRaises(w) \/ Lose(w)
  <2>1. Goto(w, "idle") /\ Keep(w, Blank)
    BY <1>2 DEF LaunchRaises, Lose, Finish
  <2>2. UNCHANGED <<shifts, file, heard, met, calls>> /\ alive' \subseteq alive
    BY <1>2 DEF LaunchRaises, Lose, Tables, Agent
  <2>3. "idle" \notin HasRow
    BY DEF HasRow
  <2> QED BY <2>1, <2>2, <2>3, TaskOwned
<1>3. ASSUME NEW exit \in Exits \ {""}, spawn_claude_shift(w, exit) PROVE OwnedInv'
  BY <1>3, ShiftOwned
<1>4. CASE Insert(w) \/ Launch(w)
  BY <1>4, InsertOwned, LaunchOwned
<1>5. CASE ReadState(w) \/ Snapshot(w) \/ Update(w)
  BY <1>5, ReadOwned, SnapshotOwned, UpdateOwned
<1> QED BY <1>1, <1>2, <1>3, <1>4, <1>5 DEF heartbeat_tick, BeforeInsert

LEMMA OwnedStep == TypeInv /\ PaceInv /\ OwnedInv /\ [Next]_vars => OwnedInv'
<1> SUFFICES ASSUME TypeInv, PaceInv, OwnedInv, [Next]_vars PROVE OwnedInv'
  OBVIOUS
<1>1. Introduced'
  BY MetStep DEF OwnedInv
<1>2. ASSUME NEW w \in Workers, heartbeat_tick(w) \/ Lose(w) PROVE OwnedInv'
  BY <1>1, <1>2, TickOwned
<1>3. ASSUME NEW i \in alive, Call(i) PROVE OwnedInv'
  BY <1>1, <1>3, CallOwned
<1>4. ASSUME NEW c \in calls, write_state(c) PROVE OwnedInv'
  BY <1>1, <1>4, WriteOwned
<1>5. CASE (\E i \in alive : OrphanEnds(i)) \/ (\E c \in calls : append_diary(c))
           \/ Tick \/ UNCHANGED vars
  <2>1. UNCHANGED <<shifts, pc, mem, file, heard, met>> /\ alive' \subseteq alive
        /\ calls' \subseteq calls
    BY <1>5 DEF OrphanEnds, append_diary, EntryTo, Tick, Tables, Agent, vars
  <2>2. \A v \in Workers : pc[v] \in {"read", "snap", "update"} /\ Waiting(mem[v].id) = {}
          => {c \in calls' : c.by = mem[v].id} = {}
    BY <2>1 DEF Waiting
  <2> QED BY <1>1, <2>1, <2>2, AgentOwned
<1> QED BY <1>2, <1>3, <1>4, <1>5 DEF Next, Serve

LEMMA OwnedInit == Init => OwnedInv
<1> SUFFICES ASSUME Init PROVE OwnedInv
  OBVIOUS
<1>1. Ids = {} /\ Active = {}
  BY DEF Init, Ids, Active
<1>2. ASSUME NEW w \in Workers PROVE Watch(w)
  BY DEF Init, Watch, Unheard, Open, Heeded, Quiet, Unread, HasRow
<1>3. Written
  BY DEF Init, Written, NoFile
<1> QED BY <1>1, <1>2, <1>3 DEF OwnedInv, Introduced, Closed, DirectiveOwned

(***************************************************************************)
(* For every number of workers, messages and tool calls: a closed row      *)
(* holds the directive of its own shift, or of one that ran beside it, and *)
(* its snapshot is the text the directive was read from unless such a      *)
(* shift, or a call that outlived it, wrote between the two reads.         *)
(***************************************************************************)
THEOREM OwnedHolds == Spec => []DirectiveOwned
<1>1. Spec => []TypeInv
  BY TypeInit, TypeStep, PTL DEF Spec
<1>2. Spec => []PaceInv
  BY <1>1, PaceInit, PaceStep, PTL DEF Spec
<1>3. Spec => []OwnedInv
  BY <1>1, <1>2, OwnedInit, OwnedStep, PTL DEF Spec
<1>4. OwnedInv => DirectiveOwned
  BY DEF OwnedInv
<1> QED BY <1>3, <1>4, PTL
=============================================================================
