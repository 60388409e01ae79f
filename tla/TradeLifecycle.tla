--------------------------- MODULE TradeLifecycle ---------------------------
(***************************************************************************)
(* A trade proposal from its insert to the order it becomes.  Four kinds   *)
(* of process share the database, the Celery broker and the exchange:      *)
(*                                                                         *)
(*   Sweepers  triage-worker processes running proposal_sweeper.sweep      *)
(*   Handlers  Discord button callbacks (discord/approval.py)              *)
(*   Workers   execution-worker processes running submit_order             *)
(*   the operator's CLI and the watchdog, which move the kill switch       *)
(*                                                                         *)
(* One action is one database transaction, one broker call or one exchange *)
(* call: whatever lies between two of them can be interleaved with every   *)
(* other process, and a process can be lost there.                         *)
(*                                                                         *)
(* Failures covered: loss of any process at any step (Celery's acks_late   *)
(* and reject_on_worker_lost put the message back), an exchange call that  *)
(* fails before or after the exchange acted, a stop order that fails after *)
(* its entry was accepted, an exception outside the adapter's try block.   *)
(* Not covered: loss of the database or of the broker's contents.          *)
(***************************************************************************)
EXTENDS Integers, FiniteSets

CONSTANTS
  Proposals,       \* ids of trade_proposals rows
  NoProposal,      \* "no proposal in hand"
  Sweepers,        \* processes that can run sweep at the same time
  Handlers,        \* concurrent Discord callbacks; {} when the listener is off
  Workers,         \* execution-worker processes
  Fallible,        \* the processes that can be lost
  MaxCrashes,      \* bound: how many losses a behaviour has
  Mode,            \* policy.yaml execution_mode: "paper" or "live"
  AutoApprove,     \* TRUE iff AUTO_APPROVE_AFTER_SECONDS is set to a number >= 0
  AutoAfter,       \* AUTO_APPROVE_AFTER_SECONDS, in clock ticks
  TTL,             \* proposal_ttl_minutes, in clock ticks
  MaxOrdersPerDay, \* policy.yaml max_orders_per_day
  Large,           \* proposals above max_order_usd * first_trade_size_multiplier
  Admitted         \* proposals that pass the rails reading only policy.yaml

ASSUME ConstantsAssumption ==
  /\ NoProposal \notin Proposals
  /\ IsFiniteSet(Sweepers) /\ IsFiniteSet(Handlers) /\ IsFiniteSet(Workers)
  /\ MaxCrashes \in Nat /\ AutoAfter \in Nat /\ TTL \in Nat \ {0}
  /\ MaxOrdersPerDay \in Nat
  /\ Mode \in {"paper", "live"} /\ AutoApprove \in BOOLEAN
  /\ Large \subseteq Proposals /\ Admitted \subseteq Proposals

VARIABLES
  status,      \* trade_proposals.status; "none" before the insert
  age,         \* now - proposed_at, up to TTL + 1
  orders,      \* orders.status of the one row client_order_id allows
  today,       \* proposals whose order row was submitted since midnight UTC
  riskEvents,  \* proposals with a risk_events row of severity "block"
  killed,      \* kill_switch_state.active
  decisions,   \* history: how often the row was approved, expired or rejected
  queue,       \* submit_order messages in the broker, per proposal
  spc, batch,         \* a sweep: where it is, the rows it selected
  hpc, hprop, hlate,  \* callbacks: where, which row; those whose `now` is too late
  wpc, wprop, wfill,  \* a task: where, which row, the status of its receipt
  entries,     \* entry orders the exchange accepted, per proposal
  resting,     \* proposals with an entry open on the exchange's book
  stopped,     \* proposals with a stop order on the exchange
  slipped,     \* history: adapter calls since the kill switch was tripped
  crashes      \* processes lost so far

dbVars       == <<status, age, orders, today, riskEvents, killed, decisions>>
sweepVars    == <<spc, batch>>
handlerVars  == <<hpc, hprop, hlate>>
workerVars   == <<wpc, wprop, wfill>>
exchangeVars == <<entries, resting, stopped>>
vars == <<dbVars, queue, sweepVars, handlerVars, workerVars, exchangeVars,
          slipped, crashes>>

Statuses == {"none", "pending", "approved", "rejected", "expired",
             "executed", "failed"}
Terminal == {"rejected", "expired", "executed", "failed"}
Fills    == {"open", "filled", "rejected"}   \* OrderReceipt.status

TypeOK ==
  /\ status \in [Proposals -> Statuses]
  /\ age \in [Proposals -> 0..TTL + 1]
  /\ orders \in [Proposals -> Fills \cup {"none"}]
  /\ today \subseteq Proposals /\ riskEvents \subseteq Proposals
  /\ killed \in BOOLEAN
  /\ decisions \in [Proposals -> Nat]
  /\ queue \in [Proposals -> Nat]
  /\ spc \in [Sweepers -> {"idle", "approve", "enqueue", "scan", "expire"}]
  /\ batch \in [Sweepers -> SUBSET Proposals]
  /\ hpc \in [Handlers -> {"idle", "lock", "enqueue"}]
  /\ hprop \in [Handlers -> Proposals \cup {NoProposal}]
  /\ \A h \in Handlers : hpc[h] # "idle" => hprop[h] \in Proposals
  /\ hlate \subseteq Handlers
  /\ wpc \in [Workers -> {"idle", "switch", "count", "first", "submit", "stop",
                          "persist", "block", "fail", "ack"}]
  /\ wprop \in [Workers -> Proposals \cup {NoProposal}]
  /\ \A w \in Workers : wpc[w] # "idle" => wprop[w] \in Proposals
  /\ wfill \in [Workers -> Fills \cup {"none"}]
  /\ \A w \in Workers : wpc[w] = "persist" => wfill[w] \in Fills
  /\ \A w \in Workers : wpc[w] = "stop" => wfill[w] \in {"open", "filled"}
  /\ entries \in [Proposals -> Nat]
  /\ resting \subseteq Proposals /\ stopped \subseteq Proposals
  /\ slipped \in Nat /\ crashes \in 0..MaxCrashes

Init ==
  /\ status = [p \in Proposals |-> "none"]
  /\ age = [p \in Proposals |-> 0]
  /\ orders = [p \in Proposals |-> "none"]
  /\ today = {} /\ riskEvents = {} /\ killed = FALSE
  /\ decisions = [p \in Proposals |-> 0]
  /\ queue = [p \in Proposals |-> 0]
  /\ spc = [s \in Sweepers |-> "idle"] /\ batch = [s \in Sweepers |-> {}]
  /\ hpc = [h \in Handlers |-> "idle"]
  /\ hprop = [h \in Handlers |-> NoProposal]
  /\ hlate = {}
  /\ wpc = [w \in Workers |-> "idle"]
  /\ wprop = [w \in Workers |-> NoProposal]
  /\ wfill = [w \in Workers |-> "none"]
  /\ entries = [p \in Proposals |-> 0]
  /\ resting = {} /\ stopped = {}
  /\ slipped = 0 /\ crashes = 0

-----------------------------------------------------------------------------
(* propose_trade's insert, and the clock.                                  *)

\* The cross-checks before the insert only decide which rows come to exist.
Propose(p) ==
  /\ status[p] = "none"
  /\ status' = [status EXCEPT ![p] = "pending"]
  /\ UNCHANGED <<age, orders, today, riskEvents, killed, decisions, queue, sweepVars,
                 handlerVars, workerVars, exchangeVars, slipped, crashes>>

\* proposed_at and expires_at are read of pending rows only, so the age of a
\* row stops mattering, and is left alone, once the row has moved on.
Ageing(p) == status[p] = "pending" /\ age[p] <= TTL

Tick ==
  /\ \E p \in Proposals : Ageing(p)
  /\ age' = [p \in Proposals |-> IF Ageing(p) THEN age[p] + 1 ELSE age[p]]
  /\ UNCHANGED <<status, orders, today, riskEvents, killed, decisions, queue, sweepVars,
                 handlerVars, workerVars, exchangeVars, slipped, crashes>>

\* Midnight UTC: no order row is of today any more.
NewDay ==
  /\ today # {}
  /\ today' = {}
  /\ UNCHANGED <<status, age, orders, riskEvents, killed, decisions, queue, sweepVars,
                 handlerVars, workerVars, exchangeVars, slipped, crashes>>

-----------------------------------------------------------------------------
(* proposal_sweeper.sweep: auto_approve_pending, then                      *)
(* expire_stale_proposals.  Each pass selects rows, without a lock, in one *)
(* statement and updates them by id in a later one.                        *)

Expired(p) == age[p] > TTL                          \* expires_at < now
Ripe(p) == status[p] = "pending" /\ age[p] >= AutoAfter /\ age[p] < TTL
StaleAnyStatus(p) == Expired(p)
Stale(p) == status[p] = "pending" /\ Expired(p)

\* The rows an UPDATE ... WHERE proposal_id IN (ids) leaves behind, whatever
\* their status is by then.
Moved(S, to) == [p \in Proposals |-> IF p \in S THEN to ELSE status[p]]
Decided(S) == [p \in Proposals |-> IF p \in S THEN decisions[p] + 1 ELSE decisions[p]]

SelectRipe(s) ==
  /\ spc[s] = "idle"
  /\ LET ripe == IF AutoApprove THEN {p \in Proposals : Ripe(p)} ELSE {}
     IN  /\ batch' = [batch EXCEPT ![s] = ripe]
         /\ spc' = [spc EXCEPT ![s] = IF ripe = {} THEN "scan" ELSE "approve"]
  /\ UNCHANGED <<dbVars, queue, handlerVars, workerVars, exchangeVars,
                 slipped, crashes>>

ApproveBatch(s) ==
  /\ spc[s] = "approve"
  /\ status' = Moved(batch[s], "approved")
  /\ decisions' = Decided(batch[s])
  /\ spc' = [spc EXCEPT ![s] = "enqueue"]
  /\ UNCHANGED <<age, orders, today, riskEvents, killed, queue, batch,
                 handlerVars, workerVars, exchangeVars, slipped, crashes>>

\* submit_order.delay, one message per approved row, after the commit.
Published(p) == [queue EXCEPT ![p] = @ + 1]

EnqueueOne(s) ==
  /\ spc[s] = "enqueue"
  /\ \E p \in batch[s] :
       /\ queue' = Published(p)
       /\ batch' = [batch EXCEPT ![s] = @ \ {p}]
       /\ spc' = [spc EXCEPT ![s] = IF batch[s] = {p} THEN "scan" ELSE "enqueue"]
  /\ UNCHANGED <<dbVars, handlerVars, workerVars, exchangeVars, slipped,
                 crashes>>

SelectStale(s) ==
  /\ spc[s] = "scan"
  /\ LET stale == {p \in Proposals : Stale(p)}
     IN  /\ batch' = [batch EXCEPT ![s] = stale]
         /\ spc' = [spc EXCEPT ![s] = IF stale = {} THEN "idle" ELSE "expire"]
  /\ UNCHANGED <<dbVars, queue, handlerVars, workerVars, exchangeVars,
                 slipped, crashes>>

ExpireBatch(s) ==
  /\ spc[s] = "expire"
  /\ status' = Moved(batch[s], "expired")
  /\ decisions' = Decided(batch[s])
  /\ spc' = [spc EXCEPT ![s] = "idle"]
  /\ batch' = [batch EXCEPT ![s] = {}]
  /\ UNCHANGED <<age, orders, today, riskEvents, killed, queue, handlerVars,
                 workerVars, exchangeVars, slipped, crashes>>

Sweep(s) == SelectRipe(s) \/ ApproveBatch(s) \/ EnqueueOne(s)
            \/ SelectStale(s) \/ ExpireBatch(s)

-----------------------------------------------------------------------------
(* discord/approval.py.  `now` is read before the row lock is waited for;  *)
(* from the lock to the commit no other writer of the row can step in.     *)

DecidableAlways(p) == status[p] # "none"
Decidable(p) == status[p] = "pending"

ClickApprove(h, p) ==
  /\ hpc[h] = "idle" /\ status[p] # "none"
  /\ hpc' = [hpc EXCEPT ![h] = "lock"]
  /\ hprop' = [hprop EXCEPT ![h] = p]
  /\ hlate' = IF Expired(p) THEN hlate \cup {h} ELSE hlate
  /\ UNCHANGED <<dbVars, queue, sweepVars, workerVars, exchangeVars, slipped,
                 crashes>>

Done(h) ==
  /\ hpc' = [hpc EXCEPT ![h] = "idle"]
  /\ hprop' = [hprop EXCEPT ![h] = NoProposal]
  /\ hlate' = hlate \ {h}

ApproveTx(h) ==
  /\ hpc[h] = "lock" /\ Decidable(hprop[h]) /\ h \notin hlate
  /\ status' = [status EXCEPT ![hprop[h]] = "approved"]
  /\ decisions' = Decided({hprop[h]})
  /\ hpc' = [hpc EXCEPT ![h] = "enqueue"]
  /\ UNCHANGED <<age, orders, today, riskEvents, killed, queue, sweepVars,
                 hprop, hlate, workerVars, exchangeVars, slipped, crashes>>

\* ProposalExpired.
ExpireTx(h) ==
  /\ hpc[h] = "lock" /\ Decidable(hprop[h]) /\ h \in hlate
  /\ status' = [status EXCEPT ![hprop[h]] = "expired"]
  /\ decisions' = Decided({hprop[h]})
  /\ Done(h)
  /\ UNCHANGED <<age, orders, today, riskEvents, killed, queue, sweepVars,
                 workerVars, exchangeVars, slipped, crashes>>

\* ProposalNotPending.
RefuseTx(h) ==
  /\ hpc[h] = "lock" /\ ~Decidable(hprop[h])
  /\ Done(h)
  /\ UNCHANGED <<dbVars, queue, sweepVars, workerVars, exchangeVars, slipped,
                 crashes>>

EnqueueApproved(h) ==
  /\ hpc[h] = "enqueue"
  /\ queue' = Published(hprop[h])
  /\ Done(h)
  /\ UNCHANGED <<dbVars, sweepVars, workerVars, exchangeVars, slipped, crashes>>

\* Nothing precedes or follows the transaction of a rejecting callback, so it
\* needs no place: it runs whatever the approving ones are doing.
RejectTx(h, p) ==
  /\ status[p] # "none" /\ Decidable(p)
  /\ status' = [status EXCEPT ![p] = "rejected"]
  /\ decisions' = Decided({p})
  /\ UNCHANGED <<age, orders, today, riskEvents, killed, queue, sweepVars,
                 handlerVars, workerVars, exchangeVars, slipped, crashes>>

Approval(h) == ApproveTx(h) \/ ExpireTx(h) \/ RefuseTx(h)
               \/ EnqueueApproved(h)

-----------------------------------------------------------------------------
(* execution/worker.py submit_order: take the message, load the row, run   *)
(* the rails one query after another, call the adapter, persist.           *)

Goto(w, pc) == wpc' = [wpc EXCEPT ![w] = pc]

ActionableAlways(p) == TRUE
Actionable(p) == status[p] = "approved"

\* A message taken from the broker stays unacknowledged until Ack.
Take(w, p) ==
  /\ wpc[w] = "idle" /\ queue[p] > 0
  /\ queue' = [queue EXCEPT ![p] = @ - 1]
  /\ wprop' = [wprop EXCEPT ![w] = p]
  /\ Goto(w, IF Actionable(p) THEN "switch" ELSE "ack")
  /\ UNCHANGED <<dbVars, sweepVars, handlerVars, wfill, exchangeVars, slipped,
                 crashes>>

\* evaluate_policy stops at the first rail that blocks; the block is recorded
\* as a risk event before the proposal is failed.
VerdictUnrecorded(ok, next) == IF ok THEN next ELSE "fail"
Verdict(ok, next) == IF ok THEN next ELSE "block"

SwitchIgnored == TRUE
SwitchOff == ~killed
DayHasRoomLoose == Cardinality(today) <= MaxOrdersPerDay
DayHasRoom == Cardinality(today) < MaxOrdersPerDay
SizeAllowedLoose(p) == Cardinality(today) >= 0 \/ p \notin Large
SizeAllowed(p) == Cardinality(today) > 0 \/ p \notin Large

Rail(w, from, ok, next) ==
  /\ wpc[w] = from
  /\ Goto(w, Verdict(ok, next))
  /\ UNCHANGED <<dbVars, queue, sweepVars, handlerVars, wprop, wfill,
                 exchangeVars, slipped, crashes>>

RailSwitch(w) == Rail(w, "switch", SwitchOff, "count")

\* max_orders_per_day, with the rails whose answer policy.yaml alone decides.
\* The positions table is never written, so its three rails are among them.
RailCount(w) == Rail(w, "count", DayHasRoom /\ wprop[w] \in Admitted, "first")

\* first_trade_of_day_cap, then account_state_sanity: the wallet's free
\* balance is the exchange's to say, the paper account's is policy.yaml's.
RailFirst(w) ==
  \E funded \in IF Mode = "live" THEN BOOLEAN ELSE {TRUE} :
    Rail(w, "first", SizeAllowed(wprop[w]) /\ funded, "submit")

RecordBlock(w) ==
  /\ wpc[w] = "block"
  /\ riskEvents' = riskEvents \cup {wprop[w]}
  /\ Goto(w, "fail")
  /\ UNCHANGED <<status, age, orders, today, killed, decisions, queue, sweepVars,
                 handlerVars, wprop, wfill, exchangeVars, slipped, crashes>>

FailProposal(w) ==
  /\ wpc[w] = "fail"
  /\ status' = [status EXCEPT ![wprop[w]] = "failed"]
  /\ Goto(w, "ack")
  /\ UNCHANGED <<age, orders, today, riskEvents, killed, decisions, queue, sweepVars,
                 handlerVars, wprop, wfill, exchangeVars, slipped, crashes>>

\* Calls of an adapter since the kill switch was tripped.
Slip == slipped' = IF killed THEN slipped + 1 ELSE slipped

Receipt(w, fill) == wfill' = [wfill EXCEPT ![w] = fill]

\* PaperAdapter: filled at the last close, open, or no price to fill at.
SubmitPaper(w) ==
  /\ Mode = "paper" /\ wpc[w] = "submit"
  /\ \E fill \in Fills : Receipt(w, fill)
  /\ Goto(w, "persist") /\ Slip
  /\ UNCHANGED <<dbVars, queue, sweepVars, handlerVars, wprop, exchangeVars,
                 crashes>>

\* CCXTSpotAdapter's entry.  Binance refuses a newClientOrderId that is open on
\* its book and takes one whose order has filled.  The call can also raise
\* after the exchange has accepted the order.
AcceptedRetried(p) == [entries EXCEPT ![p] = @ + 2]
Accepted(p) == [entries EXCEPT ![p] = @ + 1]

SubmitEntry(w) ==
  LET p == wprop[w]
  IN  /\ Mode = "live" /\ wpc[w] = "submit"
      /\ p \notin resting
      /\ entries' = Accepted(p)
      /\ \/ resting' = resting \cup {p} /\ Receipt(w, "open") /\ Goto(w, "stop")
         \/ resting' = resting /\ Receipt(w, "filled") /\ Goto(w, "stop")
         \/ /\ resting' \in {resting, resting \cup {p}}
            /\ Receipt(w, "rejected") /\ Goto(w, "persist")
      /\ Slip
      /\ UNCHANGED <<dbVars, queue, sweepVars, handlerVars, wprop, stopped,
                     crashes>>

\* A short, or an entry the exchange did not take.
EntryRefused(w) ==
  /\ Mode = "live" /\ wpc[w] = "submit"
  /\ Receipt(w, "rejected") /\ Goto(w, "persist")
  /\ UNCHANGED <<dbVars, queue, sweepVars, handlerVars, wprop, exchangeVars,
                 slipped, crashes>>

\* fetch_ticker, or the KeyError of order_type "stop": outside the adapter's
\* try, so the task ends with an exception, and Celery acknowledges it.
SubmitRaises(w) ==
  /\ Mode = "live" /\ wpc[w] = "submit"
  /\ Goto(w, "ack")
  /\ UNCHANGED <<dbVars, queue, sweepVars, handlerVars, wprop, wfill,
                 exchangeVars, slipped, crashes>>

\* The stop goes out in a second call, under its own client id.  Any exception
\* makes the whole receipt "rejected".
AfterStopUnset(w, ok) == IF ok THEN wfill[w] ELSE "none"
AfterStopKept(w, ok) == wfill[w]
AfterStop(w, ok) == IF ok THEN wfill[w] ELSE "rejected"

AttachStop(w) ==
  /\ wpc[w] = "stop"
  /\ \E ok \in BOOLEAN :
       /\ ok => wprop[w] \notin stopped
       /\ stopped' = IF ok THEN stopped \cup {wprop[w]} ELSE stopped
       /\ Receipt(w, AfterStop(w, ok))
  /\ Goto(w, "persist")
  /\ UNCHANGED <<dbVars, queue, sweepVars, handlerVars, wprop, entries,
                 resting, slipped, crashes>>

OutcomeOptimistic(fill) == "executed"
Outcome(fill) == IF fill \in {"filled", "open"} THEN "executed" ELSE "failed"

\* One transaction: the row and the proposal's outcome, whatever its status is
\* by now.  A second row with the same client_order_id aborts it.
Persist(w) ==
  LET p == wprop[w]
      fresh == orders[p] = "none"
  IN  /\ wpc[w] = "persist"
      /\ orders' = IF fresh THEN [orders EXCEPT ![p] = wfill[w]] ELSE orders
      /\ today' = IF fresh THEN today \cup {p} ELSE today
      /\ status' = IF fresh THEN [status EXCEPT ![p] = Outcome(wfill[w])]
                            ELSE status
      /\ Goto(w, "ack") /\ Receipt(w, "none")
      /\ UNCHANGED <<age, riskEvents, killed, decisions, queue, sweepVars, handlerVars,
                     wprop, exchangeVars, slipped, crashes>>

Ack(w) ==
  /\ wpc[w] = "ack"
  /\ Goto(w, "idle")
  /\ wprop' = [wprop EXCEPT ![w] = NoProposal]
  /\ UNCHANGED <<dbVars, queue, sweepVars, handlerVars, wfill, exchangeVars,
                 slipped, crashes>>

Task(w) == RailSwitch(w) \/ RailCount(w) \/ RailFirst(w) \/ RecordBlock(w)
           \/ FailProposal(w) \/ SubmitPaper(w) \/ SubmitEntry(w)
           \/ EntryRefused(w) \/ SubmitRaises(w) \/ AttachStop(w)
           \/ Persist(w) \/ Ack(w)

-----------------------------------------------------------------------------
(* Everything else that moves this state.                                  *)

\* paper_match.match: a later 5m candle crosses the limit price.  Live orders
\* recorded "open" are never updated.
PaperMatch(p) ==
  /\ Mode = "paper" /\ orders[p] = "open"
  /\ orders' = [orders EXCEPT ![p] = "filled"]
  /\ UNCHANGED <<status, age, today, riskEvents, killed, decisions, queue, sweepVars,
                 handlerVars, workerVars, exchangeVars, slipped, crashes>>

\* The exchange fills an entry on its book.
ExchangeFill(p) ==
  /\ p \in resting
  /\ resting' = resting \ {p}
  /\ UNCHANGED <<dbVars, queue, sweepVars, handlerVars, workerVars, entries,
                 stopped, slipped, crashes>>

SetSwitch(active) ==
  /\ killed' = active
  /\ slipped' = 0
  /\ UNCHANGED <<status, age, orders, today, riskEvents, decisions, queue, sweepVars,
                 handlerVars, workerVars, exchangeVars, crashes>>

\* The operator's `trading pause` and `trading resume`.
Pause == ~killed /\ SetSwitch(TRUE)
Resume == killed /\ SetSwitch(FALSE)

\* watchdog.reconcile: the wallet holds what an entry bought, the positions
\* table, which nothing writes, does not; tolerance 0 trips the switch.
InWallet(p) == entries[p] > IF p \in resting THEN 1 ELSE 0
Reconcile ==
  /\ Mode = "live" /\ ~killed
  /\ \E p \in Proposals : InWallet(p)
  /\ SetSwitch(TRUE)

\* A lost process forgets what it was doing.  The sweep will be run again by
\* the beat, the callback is gone, the task's message returns to the broker.
RequeuedEarlyAck(p) == queue
Requeued(p) == [queue EXCEPT ![p] = @ + 1]

Lose(x) == x \in Fallible /\ crashes < MaxCrashes /\ crashes' = crashes + 1

LoseSweeper(s) ==
  /\ spc[s] # "idle" /\ Lose(s)
  /\ spc' = [spc EXCEPT ![s] = "idle"] /\ batch' = [batch EXCEPT ![s] = {}]
  /\ UNCHANGED <<dbVars, queue, handlerVars, workerVars, exchangeVars, slipped>>

LoseHandler(h) ==
  /\ hpc[h] # "idle" /\ Lose(h) /\ Done(h)
  /\ UNCHANGED <<dbVars, queue, sweepVars, workerVars, exchangeVars, slipped>>

LoseWorker(w) ==
  /\ wpc[w] # "idle" /\ Lose(w)
  /\ queue' = Requeued(wprop[w])
  /\ Goto(w, "idle") /\ Receipt(w, "none")
  /\ wprop' = [wprop EXCEPT ![w] = NoProposal]
  /\ UNCHANGED <<dbVars, sweepVars, handlerVars, exchangeVars, slipped>>

-----------------------------------------------------------------------------
Next ==
  \/ \E p \in Proposals : Propose(p) \/ PaperMatch(p) \/ ExchangeFill(p)
  \/ Tick \/ NewDay \/ Pause \/ Resume \/ Reconcile
  \/ \E s \in Sweepers : Sweep(s) \/ LoseSweeper(s)
  \/ \E h \in Handlers :
       \/ Approval(h) \/ LoseHandler(h)
       \/ \E p \in Proposals : ClickApprove(h, p) \/ RejectTx(h, p)
  \/ \E w \in Workers :
       \/ Task(w) \/ LoseWorker(w)
       \/ \E p \in Proposals : Take(w, p)

Spec == Init /\ [][Next]_vars

\* The clock runs, the beat keeps sending sweeps, a callback that holds its row
\* and a task that was taken run on, and a worker with nothing in hand takes
\* what is queued.  Nothing is assumed of the operator, of new proposals, of
\* the market or of losses.
Fairness ==
  /\ WF_vars(Tick)
  /\ \A s \in Sweepers : WF_vars(Sweep(s))
  /\ \A h \in Handlers : WF_vars(Approval(h))
  /\ \A w \in Workers : WF_vars(Task(w)) /\ WF_vars(\E p \in Proposals : Take(w, p))

FairSpec == Spec /\ Fairness

-----------------------------------------------------------------------------
(* Properties of every deployment.                                         *)

OnTask(p) == {w \in Workers : wprop[w] = p /\ wpc[w] # "idle"}

\* While the operator's rejection stands in the database no message, no task
\* and no order of that proposal exists: approval and rejection exclude each
\* other through the row lock and the status check (approval.py 36-44, 66-74).
RejectedNeverTraded ==
  \A p \in Proposals : status[p] \in {"none", "pending", "rejected"} =>
    /\ queue[p] = 0 /\ OnTask(p) = {}
    /\ entries[p] = 0 /\ orders[p] = "none"

\* A live order is recorded open or filled only if its stop order is on the
\* exchange too: a stop that fails makes the receipt "rejected"
\* (ccxt_spot.py 79-112, worker.py 59-103).
RecordedOrderProtected ==
  Mode = "live" => \A p \in Proposals :
    orders[p] \in {"open", "filled"} => entries[p] > 0 /\ p \in stopped

\* A proposal marked executed has an order row that is open or filled, however
\* late sweeps, duplicated tasks and losses interleave (worker.py 66-101).
ExecutedHasOrder ==
  \A p \in Proposals : status[p] = "executed" => orders[p] \in {"open", "filled"}

\* A failed proposal has a reason on record: a risk event of the rail that
\* blocked it, or an order row the exchange rejected (worker.py 113-124, 97).
FailedExplained ==
  \A p \in Proposals : status[p] = "failed" =>
    p \in riskEvents \/ orders[p] = "rejected"

\* The rails count order rows before the adapter is called and the row is
\* inserted after it, so each further worker process can add one order to the
\* day's cap, and no more than one (policy_rails.py 130-134).
DailyCapSlack ==
  today # {} =>
    Cardinality(today) < MaxOrdersPerDay + Cardinality(Workers)

\* Once the kill switch is tripped at most one adapter call per worker process
\* still happens, however many proposals are approved or redelivered
\* (policy_rails.py 90-93 reads the switch first, and only once).
KillSwitchSlack == killed => slipped <= Cardinality(Workers)

\* A proposal above the first-trade cap reaches an adapter, paper or live, only
\* after a smaller one has left an order row (policy_rails.py 178-184).
FirstTradeSmall ==
  \A p \in Large : entries[p] > 0 \/ orders[p] # "none" =>
    \E q \in Proposals \ Large : orders[q] # "none"

\* Every entry order needs an approval of its own, of which there are at most
\* one per sweeper process and one for all callbacks together, or a loss that
\* put the message back.  In particular clicking Approve twice, or in two
\* places, does not trade twice (approval.py 36-59).  A loss between the adapter's
\* call and the insert does: the system design (line 138) promises more, that
\* "re-delivery is safe", and this is what is left of it.
Approvers == (IF AutoApprove THEN Cardinality(Sweepers) ELSE 0)
             + (IF Handlers = {} THEN 0 ELSE 1)
EntriesBounded == \A p \in Proposals : entries[p] <= Approvers + crashes

\* The order row and the proposal's status say the same, however often the task
\* was delivered, unless the proposal was decided more than once: then a sweep or
\* a callback acted on a row that was no longer what it had read, and may have
\* overwritten the outcome, or a second task has (worker.py 65-102,
\* proposal_sweeper.py 62-71).
TablesAgree ==
  \A p \in Proposals :
    orders[p] # "none" /\ decisions[p] <= 1 => status[p] = Outcome(orders[p])

\* What is left of the one-way state machine when sweeps and tasks overlap.  A
\* sweep that has selected a row but not updated it, and a task that has loaded
\* it, may still overwrite what the row says.  Read as undecided and as approved
\* while they are at work, a proposal goes one way: what it says when nobody is
\* any more, it says for ever.
Contested(p) == \E s \in Sweepers : spc[s] \in {"approve", "expire"} /\ p \in batch[s]
Working == {"switch", "count", "first", "submit", "stop", "persist", "block", "fail"}
AtWork(p) == \E w \in Workers : wpc[w] \in Working /\ wprop[w] = p
Standing(p) ==
  IF Contested(p) THEN "pending" ELSE IF AtWork(p) THEN "approved" ELSE status[p]

Book == INSTANCE ProposalBook
          WITH Proposals <- Proposals, standing <- [p \in Proposals |-> Standing(p)]
OneWay == Book!Spec

\* In paper mode, with every process running on or its task redelivered, each
\* proposal ends executed, failed or expired: none stays pending or approved.
EveryProposalResolves ==
  \A p \in Proposals : status[p] = "pending" ~> status[p] \in Terminal
-----------------------------------------------------------------------------
(* What the design says of this program and the code does not do.          *)

\* "State machine (one-way)" (Phase 2 design, line 308): a rejection stands.
\* The sweeper updates by id the rows it selected before the click.
RejectionStands ==
  [][\A p \in Proposals : status[p] = "rejected" => status'[p] = "rejected"]_status

\* "failed (policy-rail block or exchange error after approval)" (Phase 2
\* design, line 315): an approved proposal is executed or failed.  An error of
\* fetch_ticker ends the task before it has recorded anything.
ApprovedResolves ==
  \A p \in Proposals : status[p] = "approved" ~> status[p] \in Terminal
=============================================================================
