# Trading Sandwich: a TLA+ model of the trading core

The program is a set of Celery workers around one Postgres database: candles
are ingested, features and signals computed from them, a scheduled agent (the
"heartbeat") looks at signals and proposes trades, and proposals are approved,
passed through policy rails and sent to an exchange. This directory models the
path of a decision, from the candle to the order, and checks it with TLC; what
matters most is also proved with TLAPS. Paths below are relative to `src/trading_sandwich/`.

## Inventory

| Component | State it keeps | Operations | Correct when |
|---|---|---|---|
| Proposal tool `mcp/tools/proposals.py` | `trade_proposals` rows | `propose_trade` | one proposal per decision, sized within policy |
| Proposal sweeper `execution/proposal_sweeper.py` | `trade_proposals.status` | `auto_approve_pending`, `expire_stale_proposals`, beat every 60 s | it decides pending rows only |
| Discord approval `discord/approval.py` | the same rows | approve, reject, details buttons | approve and reject exclude each other |
| Execution worker `execution/worker.py` | `orders`, status | `submit_order` | one order per proposal, outcome recorded |
| Policy rails `execution/policy_rails.py`, `_policy.py` | none; reads `orders`, `positions`, the switch, `policy.yaml` | `evaluate_policy`, `record_risk_event` | nothing past a limit |
| Adapters `execution/adapters/` | the exchange's books | `submit_order`, balances | a recorded order is a protected order |
| Kill switch, watchdog | `kill_switch_state` | `trip`, `resume`, `reconcile` | no order once tripped |
| Paper matcher `execution/paper_match.py` | `orders.status` | `match`, every 15 s | fills open paper orders |
| Heartbeat `triage/heartbeat.py`, `pacing.py`, `state_io.py` | `heartbeat_shifts`, `STATE.md`, diary | `heartbeat_tick` | one shift at a time, within caps |
| Universe `triage/universe_policy.py`, `mcp/tools/universe.py` | `policy.yaml`, `universe_events` | `mutate_universe` | hard limits hold, each change recorded |
| Detectors `signals/detectors/`, `regime/classifier.py`, `indicators/` | none: functions of features rows | eight detectors, labels | stop and target lie on their sides of the entry |
| Signals `signals/worker.py`, `signals/gating.py` | `signals`, a Redis counter | `detect_signals`, five gates | gates hold between concurrent detectors, slots are accounted for |
| Outcomes `outcomes/` | `signal_outcomes` | `measure_outcome` at six horizons | measured on the candles of its window |
| Ingestion `ingestor/` | `raw_candles` and its partitions | stream, gap scan, backfill, one-shot backfill | a completed scan leaves no closed candle out, one row to a candle |
| Features `features/` | `features` | `compute_features`, backfill | a row is computed from its own candle and earlier ones |
| Decisions and alerts `mcp/tools/` | `claude_decisions`, `alerts` | upsert, insert | the verdict a proposal rests on stays; an alert is shown once |
| Reading tools, viewers, CLI listings | none | queries | they change nothing |

Interaction is by database rows and by Celery messages; no component calls
another directly, except a worker its rails and its adapter. Hard behaviours:
rows read in one transaction and written by id in another; a commit followed by
a message that may never be sent; an exchange call that no transaction covers;
`task_acks_late` with `task_reject_on_worker_lost`, so that a lost process's
task runs again; several prefork processes per container taking tasks of one
queue. `PROJECT.json` lists the hazards at their lines.

## Modules

Along the path of a decision:

* `Market.tla` – candles from stream and REST, gap scans, features rows,
  outcomes, for one symbol and timeframe.
* `Detectors.tla` – the detectors and what they need of a features row, as
  operators; `SignalFlow.tla` extends it with `detect_signals` and its gates.
* `Heartbeat.tla` – the beat, the shifts it starts, STATE.md and the diary.
* `Proposing.tla` – `save_decision`, `propose_trade`, `send_alert`.
* `Universe.tla` – `mutate_universe`, the tiered `policy.yaml`, its audit rows
  and the Discord feed of them.
* `ProposalBook.tla` – abstract: the one-way state machine of what stands of a
  proposal.
* `TradeLifecycle.tla` – the detailed system behind it: sweeper, Discord
  callbacks, execution worker, rails, adapters, kill switch, watchdog, paper
  matcher.

`MC*.tla` and the `.cfg` files are the instances TLC checks; each module but
`Detectors` and `ProposalBook` has its theorems in a `*_proofs.tla` beside it.
What the detectors need of their helpers is proved in `SignalFlow_proofs`;
`TradeBook_proofs` extends `TradeLifecycle_proofs` with the agreement of the
tables and the refinement of `ProposalBook`.

The systems meet in tables only, and each module takes what it reads of another
from a small set: the features of SignalFlow are any of `Scenarios`, `Fire` in
Market is a signal at any time, a shift of Heartbeat calls any tool at any
time, Proposing makes rows that TradeLifecycle starts with. A property of one
holds whatever the others do; they are not composed.

### How TradeLifecycle corresponds to the code

One action is one database transaction, one broker call or one exchange call.
Everything between two of them can be interleaved, and a process can be lost
there (`LoseSweeper`, `LoseHandler`, `LoseWorker`, at most `MaxCrashes` times).

* `status`, `orders`, `riskEvents`, `killed` are the tables. `orders[p]` is one
  value because `orders.client_order_id`, the proposal's id, is UNIQUE.
* `age` stands for `now - proposed_at`; it stops mattering, and is left alone,
  when the row is no longer pending. `today` is what `_executed_today_count`
  counts; `NewDay` is midnight UTC.
* A sweep (`spc`, `batch`) selects, updates by id, enqueues one message after
  the other, selects again and updates again. Nothing is locked in between, and
  nothing keeps two sweeps apart: the triage worker of `docker-compose.yml` is a
  pool of processes and the beat sends a sweep every 60 seconds, whether or not
  the last one has ended. `Sweepers` are the sweeps that run at the same time.
* A callback (`hpc`, `hprop`, `hlate`) reads its `now` first and waits for the
  row lock afterwards. From the lock to the commit it is one action: whoever
  else writes the row waits. The sweeper's UPDATE too waits for that lock, and
  then writes by id: READ COMMITTED re-checks only the id, not the status.
* A task (`wpc`, `wprop`, `wfill`) loads the row, runs the rails in order,
  calls the adapter and persists. Rails that read shared state (kill switch,
  orders per day, first trade of the day) are steps. Rails that read only
  `policy.yaml` are the constant `Admitted`; so are the open-position and
  exposure rails, because nothing in the program writes the `positions` table.
  The balance rail is a nondeterministic answer in live mode. The daily loss
  rail cannot block: both adapters report a realized result of zero.
* The live adapter places the entry, then the stop, in two calls. An exception
  in either makes the receipt "rejected", also after the exchange has accepted
  the entry; an exception outside the `try` ends the task. The exchange refuses
  a client id that is open on its book and takes it again once it has filled:
  that is how the spot venue treats `newClientOrderId`, and the code in
  `ccxt_spot.py` does not look before it retries.
* `entries`, `resting`, `stopped` are the exchange. `slipped`, `crashes` and
  `decisions` are history: adapter calls since the switch was tripped, processes
  lost, and how often a row was approved, expired or rejected.
* The design calls the state machine one-way. The column `status` is not: a
  second sweep's UPDATE writes "approved" over "executed", and `trade_rejected`
  shows it written over "rejected". What is one-way is `Standing`: a row that a
  sweep has selected and not yet updated counts as undecided, one that a task has
  loaded and not yet left counts as approved, and any other stands as it says.
  `ProposalBook` is the machine of that, and `OneWay` says that TradeLifecycle
  implements it in every deployment. `TablesAgree` says when the order row may
  contradict the status: after a second decision only.
* `Admitted` is not empty in the runs, as in the unit tests. With the tiered
  `policy.yaml` of this repository it would be: `get_universe_symbols()` in
  `_policy.py` returns the keys `tiers` and `hard_limits` of the `universe`
  mapping, so `rail_universe_allowlist` refuses every symbol. The tests replace
  that function. The model keeps what the rest of the code does once a proposal
  passes.

### How Universe corresponds to the code

* `tiers` is the tiers section of `policy.yaml`. Reading the file, checking the
  limits and replacing it have no `await` between them and one MCP server runs
  all calls, so they are the one action `Mutate`. After it each `await` ends an
  action: the commit of the row (`Record`), the card (`Post`), the UPDATE of
  `discord_posted` (`Mark`). `ServerCrash` loses every call under way.
* `Refused`, `apply_mutation`, `tier_of`, `total_size`, `RemoveFromAll` and
  `AddTo` are the functions of `universe_policy.py`. `Requests` are arguments
  that passed `UniverseMutationRequest`; one that does not changes nothing. A
  `to_tier` that is no tier raises in `_add_to`, before the file is written. An
  `event_type` of `hard_limit_blocked` is accepted and changes nothing.
* `events[c]` is the row of call `c`; `Orphans` are calls whose `shift_id`
  violates the foreign key. `applied` is a history variable: the calls that
  replaced the file, in the order of their `occurred_at`.
* `cards` is what Discord shows. `post_card` answers with an id, or with None,
  although Discord may have taken the card (`FailedCard`).
* A sweep (`todo`, `held`) is one run of `retry_unposted_events`: it reads the
  unposted rows of 24 hours, then posts and marks one after the other. Celery
  starts one every 15 minutes whether or not the last one has ended. `Age`
  lets a row pass out of the 24 hours.

### How Heartbeat corresponds to the code

* A unit of `now` is longer than the timeout of a shift, and `Min` units are
  the shortest interval. A subprocess under its tick's supervision therefore
  sees the clock move once at most (`Tick`); one whose worker was lost may run
  as long as it likes (`OrphanEnds`).
* `Query`, `CountToday` and `CountWeek` are the three SELECTs of pacing: each
  sees what is committed by then, and the windows of the counts are those of
  the first (`since`). `Decide` is `decide_whether_to_spawn`, with the look for
  the diary; `Header` writes its title; `Insert` commits the row; `Launch`,
  `wait` and the reads of STATE.md follow, each on its own, to the UPDATE of the
  row, and `Card` to the end of the task: a process lost there has closed its row
  and its message is delivered again.
* `Call` and `Serve` are a shift's tool calls: asked while the shift runs and
  served by the MCP server afterwards, also when the shift has been killed.
  `write_state` replaces the file in one step; a frontmatter it refuses changes
  nothing and is left out. `append_diary` takes the local date where the tick
  takes the UTC one; the containers run in UTC and the model has one date.
* Exit "timeout" and "error" are recorded and announced alike and are merged
  into "broken". `said`, `wiped`, `heard`, `met` are history variables: the
  entries `append_diary` answered "appended" to (`late` if no tick supervised the
  shift any more), the entries a title replaced, with the history its tick had
  read, the shifts whose directive landed while they ran, the pairs of shifts
  one of which could act on the files of the other.
* `detect_state_drift` and `post_daily_summary` only read; nothing calls
  `rotate_if_new_day`.

### How Detectors and SignalFlow correspond to the code

* A candle of a scenario is high, low, close and a `mood`: whatever of a
  features row is computed from averages, oscillators or bands. Swings, the
  Donchian channel, the prior day and the trend label are computed from the
  candles as in `indicators/` and `regime/classifier.py`.
* The eight detectors are the members of `REGISTRY`, in its order; confidences
  are reduced to whether they reach their threshold (`Weak`). With the
  thresholds of `policy.yaml` every archetype does.
* `swing_high` and `swing_low` are the last confirmed fractal, carried forward.
  The docstrings of `liquidity_sweep_daily.py` and `range_rejection.py` speak of
  the current candle's wick; the code fires again at every close that stays
  beyond an old swing, and takes its stop from it.
* A task keeps what the detectors returned as a set (`found`) and takes them in
  the order of the registry (`Sig`): no detector fires twice on one row.
  `Candles` are prices in order, `Moods` whatever the indicators can make of
  them, and `SignalFlowAssumption` lets any history of them be a scenario.
* One gate is one session and is one action; `fired_at` is taken before the
  first. `seen` is history: the rows that were there at the first gate.
* `detects` are messages and not rows: `compute_features` sends one each time it
  runs, so two may name the same row, and `copy` tells them apart.
* `Lose` delivers the message again. The signal then found is new, with a new
  id; the row inserted before the loss suppresses it by its own cooldown, and
  its outcomes are never scheduled.

### How Market corresponds to the code

* Prices are left out: a row says which candle it is (`open`), who brought it
  (`from`) and at what minute its price was taken (`taken`).
* The stream stores the candle that is open now at its first tick; ON CONFLICT
  DO NOTHING keeps that price for ever, although the head of
  `binance_stream.py` says it yields candles on close. A REST row closes one
  millisecond earlier than a stream row, hence two keys for one candle.
* `backfill_candles` commits all its rows (`Insert`) and then sends their messages
  one by one (`Send`). An error of the database or of the broker ends the task,
  which is acknowledged; a lost process has it run again from the fetch. In both
  cases rows may stay stored without a message, and later scans find them there.
* Two messages of the same key are one in `computes`: the second would compute
  what the first did or, if rows came between them, what the first would have
  computed later.
* A scan's grid starts where its lookback does. Between two opens it meets no
  stored candle, takes all as missing and has them computed again.
* Inserts fail for a month without a partition; only the operator's
  `run_backfill` adds partitions after the migration.
* The upsert of `run_features_backfill` writes what it computed from an older
  snapshot over newer rows.
* `measure_outcome` keeps which candles were read; the six figures are
  functions of those. Without a candle in the window nothing is written and
  nothing is tried again. Its read and its upsert are one action: what is
  written was read at some moment, and a later upsert only repeats it. A
  countdown longer than the visibility timeout of Redis is delivered twice. The
  "15m" outcome of a signal on 1h candles has no close in its window and is
  never written.

### How Proposing corresponds to the code

* A call of a tool is a sequence of steps (`pc`): the exchange's answer, the
  session that reads the decision, `find_similar_signals` once more, the
  insert, the two cards. `Restart` loses all calls at once, because one server
  runs them. Calls refused on their arguments alone change nothing.
* Money is in cents and rounded where the code rounds: `round(..., 2)` of a
  float goes to the nearest cent, either way at a tie (`Nearest`, a set: the
  binary fraction decides), `Decimal.quantize` to the even one (`HalfEven`). A
  computed size can therefore pass the exact share by half a cent, and a loss its
  tolerance. `size_pct` is in hundredths of a percent and multipliers in
  hundredths, cut off at that, where the code multiplies floats: that moves the
  share that was asked for, never the ceiling. `RawPct`, `Position`, `LossAt` and
  `LossAccepted` keep the order of operations and the caps of `_policy.py` and
  `proposals.py`.
* `write` counts the writes of a decision row: it tells a verdict that was
  replaced from one that stands.
* `similar` moves by one either way when an outcome is measured, because
  `LIMIT k` is applied before the regime filter.
* Nothing compares the proposal's symbol or side with the signal's; a market
  order without an entry price may name any positive loss; the agent's own
  `size_usd` passes by the sizing; `is_first_trade` is never set. `Sized` says
  what is left.

## Runs

| Run | Instance | Question |
|---|---|---|
| `trade_live` | live, 1 proposal, 2 overlapping sweeps, 1 approving callback and any that reject, 2 workers, 1 lost callback or worker | What may the processes do to one proposal: does an entry need an approver or a loss of its own, is a recorded order protected, when may the tables disagree (`TablesAgree`), and does what stands of it go one way (`OneWay`, a refinement of `ProposalBook`)? |
| `trade_paper` | paper, 3 proposals (1 large), cap of 1 order a day, 2 workers, 1 lost sweep | How far do concurrent tasks overshoot the cap and outrun the switch, and does a large proposal wait for a small one? |
| `trade_resolves` | paper, 2 proposals, 2 workers, 1 lost worker, fair | Is every proposal resolved? |
| `universe_limits` | 3 mutations out of 17 requests, the third call's row refused by the database, one loss of the server, no webhook | Which limits hold over every sequence, how are the others passed, and do the audit rows replay to the file? |
| `universe_feed` | 2 calls, 2 sweeps, 1 loss, 1 card without an answer, fair | Is every recorded change announced, only when recorded, and how often? |
| `heartbeat` | 2 workers, 2 messages, interval 2 to 3 units, days of 2, 1 failure, 1 call of each shift | When do two shifts run at once, and whose words do the row, STATE.md and the diary hold? |
| `heartbeat_caps` | 2 workers, 4 messages, cap 1 a day (3 units) and 2 a week (5), 1 failure, no tool calls | How far do overlapping ticks pass the two caps? |
| `signal_flow` | every history of 5 candles of 4 shapes, trends, bursts on 3 streams of 2 symbols, 2 workers, 1 failure | Are brackets in order, what do the gates still keep apart, where do slots and outcomes go? |
| `market` | candles of 2 minutes, 4 minutes, 1 scan, 1 one-shot backfill, 1 signal with a horizon of 3 minutes, 2 workers, 1 failure, a second month without a partition | Which candles are stored, computed on and measured, and what does a failure cost? |
| `proposing` | 2 shifts, 2 signals, 5 calls, 2 failures, requests of each kind of order, of computed and given size | What does a proposal rest on, is its size right, is an alert seen once? |
| `trade_rejected` | live, 1 proposal, 1 sweep, 2 callbacks, no loss | Violated: a rejection is overwritten by a sweep that had selected the row. |
| `trade_stuck` | live, 1 proposal, no loss, fair | Violated: an exchange error leaves the proposal approved for ever. |

Bounds. Two workers are the fewest that race; the bounds that depend on their
number (`DailyCapSlack`, `KillSwitchSlack`) are proved for any number. The
cap's overshoot needs three proposals: one order within the cap, one beside it,
and one that must be stopped. Time is three ages: below the auto-approval window,
inside it, past the TTL; `TTL = 1` with `AutoAfter = 0` still has the instant at
which neither pass takes the row. `MaxCrashes` bounds losses; each loss is a
redelivery. `EntriesBounded` in `trade_live` says how often a redelivered task
enters again: once for each loss. Two sweeps are the fewest that overlap; one
proposal is enough for them, because each property of `trade_live` is of one
proposal. The callback beside them approves between their SELECT and their UPDATE;
a rejecting one is a single transaction, so any number of them can run at any time
(`RejectTx`). A second approving one could only be refused, which the second
click of the first shows as well. A sweep is lost in `trade_paper`; in
`trade_live` a lost one would differ from one that stands still only in that
another may start in its place. Symmetry exchanges proposals of the same size,
sweepers, callbacks and workers, and is left out where liveness is checked.

Fairness. The clock runs; the beat sends sweeps without end; a callback that
has its row and a task that was taken run on unless lost; a worker with nothing
in hand takes what is queued. Nothing is assumed about new proposals, the
operator, the market, or losses. `trade_resolves` loses workers only: a sweep
or a callback lost between its commit and its message leaves a proposal
approved with nobody to submit it, which is the stuck state of `trade_stuck` by
another road.

The Trade runs keep the deadlock check: the clock, the sweeps or the operator
can always step. The Universe runs switch it off, because once every call has
ended and every row is posted or old nothing is left to happen.

Bounds of the other runs. Heartbeat: two messages and two processes are the
fewest ticks that overlap; days of two units put one midnight between any two
steps of a tick or of a shift's calls. One call of each shift is enough to land
before, between and after the two reads of STATE.md, or after the next shift's
start. The run reaches two shifts at once both by a stale read and by a lost
supervisor, a row with another shift's directive, a snapshot of another text than
its directive, and an entry lost to a title. The caps have a run of their own,
because the bound of the week is met by a third row on a second day: four messages
are one for each of the two rows the week allows, one beside them, and one that
must be stopped; it reaches both caps' verdicts and a week with one shift too many.
SignalFlow: five candles are the fewest that hold a confirmed swing (two
candles on either side shrink to one, `Half`), a sweep of it and a return; the
bursts have a backlog of two rows of one stream, so that a cooldown, the higher
timeframe, another symbol and a second message for the same row each meet a
concurrent detector. The gap and the
dedup window are those of `policy.yaml` in proportion (30 minutes each): as long
as the gap is not the shorter one, whatever the dedup gate would stop the gap
stops too. Market: with `MinHistory` 1 a backfilled key of the second candle is
computed from the first when the stream has stored the second, the case
`FeatureOfItsCandle` is about; a backfill brings two rows, so that one failure
before it sends leaves both without features, where one of the stream's costs one
row; four minutes of lookback on two minute candles meet the grid or miss it;
candles from the fourth minute on lie in a month that only the operator's backfill
makes. A signal can fire while the first candle forms, with two closes in its
window, and a scan that completes when its outcome is measured has to find both
candles: one the stream stored unfinished, and one it missed. That no price but one
is older than the signal (`OutcomeFresh`) needs a signal on the second candle, a
minute more than the run has: it is proved, not checked. Proposing: five calls are two verdicts, two proposals
and a verdict changed in between; the requests pass and fail each check once, the
two given losses being the last that is accepted and the first that is not, and one
of the equities gives a share of no whole cents.
`SYMMETRY` exchanges processes, and in Proposing signals too. None of these four
systems is bound to make progress, so their runs switch the deadlock check off.

Bounds of the Universe runs. Each active tier starts with room for one more
symbol or for none, so that one call fills it and the next meets the cap; the
requests have each event type for a symbol of each tier, a locked one, a target
with room, a full one and one that does not exist. Three calls are the fewest
that reach a state by two legal steps and check a third against it; the total
and the locks are passed within two. Duplicate cards need one call and two
sweeps; the second call shows that a sweep goes on after a failed card.
Fairness: the beat sends sweeps without end and a sweep with rows in hand goes
on unless lost. Nothing is assumed of the calls, of Discord (which answers once
the bounded failures are used up) or of the server: `EventuallyAnnounced` rests
on the sweeps alone.

## Theorems

`TradeLifecycle_proofs.tla` proves, for every value of the constants that
`ConstantsAssumption` admits (finite sets of processes, natural bounds; the set
of proposals may be infinite):

* `TypeCorrect`: `TypeOK`, which is inductive as it stands.
* `OrdersProtected`, `ExecutionsRecorded`, `FailuresExplained`, from
  `RecordInv`. The properties relate tables; they are not inductive because a
  task writes a table from what it did some steps ago. `TaskFacts` says what a
  task at "fail", "stop" and "persist" has behind it.
* `RejectionsRespected`, from `RejectInv`. No step leads from an approved,
  expired, executed or failed row back to an undecided one, so what a sweep or
  a callback is about to enqueue is decided (`ApprovedFirst`), although not
  necessarily still approved.
* `SwitchHolds`, from `SwitchInv`: while the switch is tripped, the calls made
  since and the tasks that were past the switch when it tripped are together at
  most the workers. No task joins them (`NoneSlips`), each call takes one away
  (`SlipStep`).
* `CapHolds`, from `CapInv`: orders of the day and tasks past the count are
  together below the cap plus the number of workers. A task passes the count
  only below the cap, and then all workers together are one more at most each.
* `FirstTradeIsSmall`, from `FirstInv`: by induction over the steps, the first
  row of all is a small proposal's, because a large one needs a row of today.
* `EntriesHold`, from `CreditInv`: an approval under way is held by exactly one
  of a sweep that has selected the row, a callback that has decided it, a
  message, a task that has not called the exchange yet, and an entry
  (`Sweeping`, `Publishing`, `queue`, `Trading`, `entries`; together `Credit`).
  A step hands it on (`CreditPublished`, `CreditWorked`) or drops it
  (`CreditSteady`); only a lost worker makes one more, and counts as a loss. The
  bound is about the moment the proposal is decided (`CreditOpened`): nothing is
  on its way by then (`RejectInv`), each sweep has selected it once at most, and
  the row lock lets one callback decide. It is therefore stated of decided
  proposals only. Sweeps select for approval only where automatic approval is
  configured (`AutoOnly`).

`TradeBook_proofs.tla` proves two more, for the same constants, that is for any
number of overlapping sweeps, callbacks, workers and losses:

* `TablesHold`: `TablesAgree`, from `OnceInv`: a proposal decided once has at
  most one carrier, a message, a task, or the sweep or callback about to send the
  message (`OneCarrier`); so a task at work finds the row as it was when the task
  was taken (`TaskCurrent`), and what it writes last agrees (`RowCurrent`).
* `BookImplemented`: `Spec => OneWay`, that is TradeLifecycle implements
  ProposalBook under the mapping of `Book`. Initial states map to initial states,
  and each step is a step of the book or leaves it alone: `MovesStep` says how a
  step may change the status and who has the row in hand, `HeldRows` that a row in
  a sweep's hands was inserted, and `ArrowStep` that the reading of the two goes
  along an arrow. Who overwrites a row that stands must have had it in hand before
  it stood, so it did not stand.

`Heartbeat_proofs.tla`, for any processes, messages, caps and windows:

* `TypeCorrect`: `TypeOK`, from `TypeInv`.
* `CapsHold`, from `CapsInv`: the rows of a window and the ticks that have found
  it below its cap and have no row yet (`DayFlyers`, `WeekFlyers`) are together at
  most the cap plus the other processes. A tick joins them only on a count below
  the cap, or on no rows at all; a window that moves forward only loses rows, and
  the window it counted was not a later one (`Dated`).
* `ExclusiveHolds`, from `PaceInv`: no directive below `Min` is on its way
  anywhere (`Accepted`), so a row comes `Min` units after every row its tick had
  seen (`OnTime`, `Paced`); a supervised shift is younger (`Fresh`), and each row
  has one tick, which has stopped its shift when it reads on (`Own`).
* `RowsHold`: a row is abandoned only by a step that counts a failure, so the
  abandoned rows are at most the failures. It says nothing of closed rows.
* `DiaryHolds`, from `DiaryInv`: a tick about to write a title has not seen the
  row of a supervised shift with an entry in that day's diary (`Unseen`), because
  a row it has seen is `Min` units old when it decides, and a supervised shift is
  at most one (`PaceInv`); a tick that looks later finds the file (`Titled`).
* `OwnedHolds`, from `OwnedInv`: whoever can write STATE.md while a shift is
  supervised has met it, the later of the two at its launch (`Introduced`); so
  from the moment a shift's directive lands to the second read of its tick the
  text is its own or a partner's (`Heeded`), and without partners and calls that
  wait both reads see the same text (`Quiet`).

`Proposing_proofs.tla`, for any shifts, requests, policy and equity:

* `NearestWithin`, `HalfEvenWithin`, `PositionWithin` and `LossWithin` are lemmas
  on the arithmetic: rounding to the nearest is off by half a unit at most, so a
  computed size is at most `MaxPct` of the equity and half a cent, and a loss that
  passes the check is within two percent and a cent and a half of the exact one.
* `TypeCorrect` and `ProposalsHold`, from `ProposingInv`: what a call has in
  hand is what `Sized` will ask of its proposal (`Proposed`); the decision it
  rests on keeps its id and signal, and is written again only with a higher
  count (`FoundedIn`, `SavedKeeps`). Since every proposal has a decision of its
  own, and every decision a signal of its own, no signal has two proposals.
* `AlertsHold`, from `AlertInv`: two calls never work on one alert (`AlertWork`),
  and alerts or proposals that are still to be shown or marked, without a call
  at work on them (`Owed`, `Due`), are together at most the failures times the
  shifts (`DebtInv`). A failed post leaves one of them, a restart one for each
  shift. The union of the two, rather than each, is bounded, because a shift has
  one call in hand.

`Universe_proofs.tla` does the same for Universe, for any tiers' contents, any
limits and any number of calls and sweeps:

* Lemmas say what the file operations do: `RemoveFirstFacts`, `TierOfFacts`,
  `RemoveFromAllFacts`, `AddToFacts`, and from them `ApplyFacts`: only the
  tier of the request grows, by its symbol, and the total changes by the weight
  of the tier that was left and of the one that was entered.
* `TypeCorrect`, from `TypeInv`, which adds that a call in the history has
  begun and so has arguments that no later step changes.
* `TierCapsCorrect`, `BarredCorrect` and `TotalCorrect` each follow from
  `TypeInv` and `ChangeStep`: a step leaves the file and the history alone, or
  it is one mutation that was not refused, by a call new to the history. For
  the total, that call is a new member of the counted set exactly when its
  promotion or demotion brought a symbol in.
* `AnnouncedCorrect`, from `FeedInv`: what is in a sweep's hands is a row, and
  what awaits its UPDATE has been shown.
* `CardsCorrect`, from `CardInv`: until a row is marked, each of its cards has a
  call or a sweep about to mark the row, or a loss behind it; afterwards only
  sweeps that had read it before, and the tool if it has yet to post, can show it
  again. Adding up over the sweeps needs them to be finite, which is an
  assumption, and a sweep not to hold and to await the same row (`OneRow`).
* `AuditCorrect`, from `AuditInv`. That a reader's `Redo` of a row does what
  `apply_mutation` did is `RedoIsApply`; rows are written once and say what their
  call read (`Logged`). The invariant states the replay without a fold: there is
  a run of files from the operator's to the present one, each read from the one
  before (`Leads`). `FoldLeft` is a recursion over sets of indices. That it has a
  solution (`Solvable`) and that the solution follows the run (`LeadsReplays`) is
  proved by the least index at which it would not, because the library's
  induction theorems take an operator as a parameter and cannot be used here.

`Market_proofs.tla`, for any timeframe, lookback, window, horizon and partition,
and any number of workers, scans and failures. `MarketInv` consists of predicates
of the rows stored so far, and rows are only added, so each part holds on
(`Grows`, `PartsKept`):

* `TypeCorrect`: one row to a candle, one features row to a key.
* `ScansHold`: what a scan's message asks for and the rows stored cover the
  lookback (`GapOK`), then the answer and the rows do (`AnswerOK`). `GridCovers`
  is the arithmetic: whatever the offset of the grid, every closed candle of the
  lookback that is not stored lies between two opens it takes as missing.
* `FeaturesHold`: a message's candle is stored, and under an even key by the
  stream (`KeyOK`); what is computed is of earlier candles (`FeatureOK`).
* `ComputedHold`: what is counted is where candles without features come from
  (`Origin`: a candle of the stream, one fetch of a backfill), because one failure
  while a backfill sends costs all it had stored. `Explained` says that a step which
  is no failure adds no origin, `OneMore` that a failure adds one: rows of one task
  were fetched at one time (`OneFetch`).
* `OutcomesHold` and `PricesFresh`: what a scan completed before the measurement
  had to find is among the rows read, and of those priced no later than the signal
  only the one that was forming then closes after it (`MeasuredSound`).

`SignalFlow_proofs.tla`, for any streams, histories of candles, processes, caps,
windows and failures, from `FlowInv`:

* `TypeCorrect`, and with it `BracketsHold`: lemmas say what the indicators
  return (`DonchianFacts`, `SwingTyped`, `FeaturesRowOK`), and `SignalFacts` goes
  through the eight detectors; a channel holds its close, so entry, stop and
  target are in order.
* `BurstsHold`, from `BurstInv`: for each stretch of time in which a gate should
  let one signal through (`Bursts`), the rows in it and the tasks that may still
  add one (`MayAdd`: past the gate, or fired before every row there is) are at
  most the processes. Taking the earliest row of the stretch makes it the bound
  of `BurstSlack`.
* `DedupHolds`, `SlotsHold`, `OutcomesHold` count rows, tasks and failures and
  are inductive given the types; a task past the second gate has met no row that
  keeps it out among those it had `seen` (`Deduped`).

Both modules, too, find least and greatest elements by `LeastNatural`, a
well-founded minimum, in the place of induction.

Every invariant that a run checks, and the refinement `OneWay`, is a theorem.
Liveness (`EveryProposalResolves`, `EventuallyAnnounced`) and the two properties
the program violates are only model-checked: fairness and ENABLED are out of
the prover's reach.

## What the runs found

See `findings` in `PROJECT.json`: a rejection overwritten by the sweeper, and a
proposal approved for ever after an exchange error. Of the others a property
that holds says how bad it can get: a redelivered task enters again
(`EntriesBounded`), a row that was decided twice may contradict its order
(`TablesAgree`), an order can follow a trip of the kill switch by one per
worker (`KillSwitchSlack`), and the day's cap is overshot (`DailyCapSlack`).
An entry whose stop is refused is recorded as rejected and stays on the
exchange unprotected (`RecordedOrderProtected` speaks of recorded orders only).

In Universe the locks hold for one event type each: a locked symbol becomes
active through add, promote or demote, core is filled through add, demote or
unexclude, and promotions and demotions from the excluded tier or from none
pass the total. `BarredExplained` and `TotalExplained` state that this is all.
Section 8.1 of `docs/superpowers/specs/2026-04-26-heartbeat-trader-design.md`
gives the locks in the same narrow form ("cannot unexclude these", "cannot
promote into core") and the total without any restriction. It also inserts the
row before the file is written, in one transaction; the code replaces the file
first, so a call whose row is refused, or that is lost in between, changes the
file and leaves no row. `AuditReplays` names the calls whose row can be missing.

In Heartbeat, overlapping ticks pass the caps by the number of processes less
one (`CapsSlack`) and run two shifts at once (`Exclusive`), because nothing locks:
`docs/superpowers/specs/2026-04-26-heartbeat-trader-design.md` (785-786) has a
SETNX lock, and hence at most one active shift; the code has no lock. The row of a shift may carry the directive of a
shift it ran beside (`DirectiveOwned`).

In SignalFlow, "at most one triage every 30 minutes"
(`docs/superpowers/HANDOFF-2026-04-25-phase-2-operational.md`:44) is one for each process
(`BurstSlack`); a slot of the day can be used up without a row (`SlotsExplained`),
and a triaged signal can stay without outcomes (`OutcomesExplained`). In Market
a features row can rest on the candle before its own (`FeatureOfItsCandle`), one
failure of a backfill can leave all it stored without features
(`FeaturesExplained`), and the price of a candle from the stream is the first of
its life, which an outcome then rests on (`OutcomeFresh` says of how many). The size of a proposal
can pass `max_position_pct` by half a cent. The
loss of a market order is not checked, although the head of `proposals.py` (3-8)
says it is within two percent, and an alert whose post failed is answered as
sent by every later call (`AlertsExplained`).

## Plan

Modelled and checked: every part that writes what another part decides on.
Proved: every safety property the runs check. What is left:

1. Action properties that say what each writer of a shared table may never do,
   as theorems: rows of `raw_candles`, `orders` and `signals` are never replaced,
   a closed `heartbeat_shifts` row and a Discord card stand.
2. The steps the liveness runs rest on, as far as they are safety: a sweep's list
   shrinks, a task's place only advances, a message is taken or kept.
3. The policy cache of `_policy.py`: workers of one deployment with two versions
   of the limits; the rails that decide on `policy.yaml` alone as operators.

## Not modelled

* Moving averages, oscillators, bands and order book figures: functions of real
  numbers, without a protocol. Detectors takes them from the scenario.
* The pollers of funding, open interest and depth: they append rows that no step
  reads before it writes.
* The reading tools of the agent, the terminal viewers and scripts, CLI
  listings: they change nothing. `find_similar_signals` is the count that
  Proposing compares.
* The wording of Discord cards, metrics, logging, configuration.
* The deprecated signal-driven triage (nothing enqueues it) and the margin
  adapter (not routed).
* The policy cache, and the rails that decide on `policy.yaml` alone: they are
  the constant `Admitted`.
* Loss of the database or of the broker's contents: the program has no answer to
  either.
