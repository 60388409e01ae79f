------------------------------ MODULE Proposing ------------------------------
(***************************************************************************)
(* The agent's tools that write: save_decision records a verdict on a      *)
(* signal, propose_trade turns a verdict into a trade proposal, send_alert *)
(* tells the operator.  Several shifts may call them at once; they share   *)
(* one MCP server and the database.                                        *)
(*                                                                         *)
(* A database transaction, a call of the exchange or of Discord is one     *)
(* action.  Calls that a tool refuses on its arguments alone change        *)
(* nothing and are left out.  Money is in cents, rounded where and as the  *)
(* code rounds; prices are natural numbers, 0 for None.  Multipliers are   *)
(* in hundredths and size_pct in hundredths of a percent, both cut off at  *)
(* that; the code multiplies floats.                                       *)
(*                                                                         *)
(* Covered: overlapping calls, repeated calls, a verdict that changes, a   *)
(* restart of the MCP server, a webhook that fails before or after Discord *)
(* has the message.                                                        *)
(***************************************************************************)
EXTENDS Integers, FiniteSets, FiniteSetsExt

CONSTANTS
  Agents,        \* shifts that call tools, each one call at a time
  Signals,
  Requests,      \* arguments of propose_trade
  Equities,      \* what the exchange may answer
  Atr,           \* atr_14 in the features snapshot of the signal, 0 for none
  Trigger,       \* trigger_price of the signal
  RrMinimum, MinStopAtr, MaxStopAtr,        \* policy.yaml
  BasePct, MinPct, MaxPct, MinUsd, MinEquity,
  WinAnchor, WinCap, RrAnchor, RrCap, SampleAnchor, SampleCap, SampleFloor,
  Webhook,       \* discord_webhook_url is set
  MaxCalls, MaxSimilar, MaxFailures         \* bounds

ASSUME ProposingAssumption ==
  /\ IsFiniteSet(Agents)
  /\ Requests \subseteq [order: {"market", "limit", "stop"}, entry: Nat, stop: Nat,
                         rr: Nat, loss: Nat, count: Nat, win: Nat, size: Nat, regime: Nat]
  /\ Equities \subseteq Nat /\ Atr \in Nat /\ Trigger \in Nat \ {0}
  /\ {RrMinimum, MinStopAtr, MaxStopAtr, BasePct, MinPct, MaxPct, MinUsd, MinEquity,
      WinCap, RrCap, SampleCap, SampleFloor} \subseteq Nat
  /\ {WinAnchor, RrAnchor, SampleAnchor} \subseteq Nat \ {0}
  /\ Webhook \in BOOLEAN
  /\ {MaxCalls, MaxSimilar, MaxFailures} \subseteq Nat

Verdicts == {"alert", "paper_trade", "ignore", "research_more"}

VARIABLES
  decisions,   \* claude_decisions rows of mode "triage"
  proposals,   \* trade_proposals rows
  alerts,      \* alerts rows
  similar,     \* measured signals like this one, among the last k
  pc,          \* pc[a]: where the call of a stands
  mem,         \* mem[a]: its local variables
  shown,       \* how often Discord showed the alert of a signal
  cards,       \* proposals whose card Discord has
  calls,       \* tool calls so far
  failures     \* restarts and failed posts so far

vars == <<decisions, proposals, alerts, similar, pc, mem, shown, cards, calls, failures>>

Blank == [signal |-> "", id |-> 0, write |-> 0, size |-> 0, loss |-> 0, equity |-> 0,
          req |-> {}, delivered |-> FALSE]

Init ==
  /\ decisions = {} /\ proposals = {} /\ alerts = {}
  /\ similar = 0
  /\ pc = [a \in Agents |-> "idle"]
  /\ mem = [a \in Agents |-> Blank]
  /\ shown = [s \in Signals |-> 0]
  /\ cards = {}
  /\ calls = 0 /\ failures = 0

At(a, place) == pc[a] = place
Goto(a, place) == pc' = [pc EXCEPT ![a] = place]
Keep(a, m) == mem' = [mem EXCEPT ![a] = m]
Finish(a) == Goto(a, "idle") /\ Keep(a, Blank)
Call(a) == At(a, "idle") /\ calls < MaxCalls /\ calls' = calls + 1
Failed == failures < MaxFailures /\ failures' = failures + 1

-----------------------------------------------------------------------------
(* save_decision.                                                          *)

RowOf(s) == {d \in decisions : d.signal = s}
NextId == Cardinality(decisions) + 1

\* INSERT ... ON CONFLICT (signal_id, invocation_mode) DO UPDATE: the verdict is
\* replaced and the id stays.  write counts the writes of a row.
SavedFresh(s, v) ==                           \* mutant: the id is updated as well
  (decisions \ RowOf(s))
    \cup {[id |-> Max({d.id : d \in decisions} \cup {0}) + 1, signal |-> s, verdict |-> v,
           write |-> 1]}
SavedPlain(s, v) ==                           \* mutant: no conflict clause
  decisions \cup {[id |-> NextId, signal |-> s, verdict |-> v, write |-> 1]}
Saved(s, v) ==
  IF RowOf(s) = {}
  THEN decisions \cup {[id |-> NextId, signal |-> s, verdict |-> v, write |-> 1]}
  ELSE (decisions \ RowOf(s))
         \cup {[d EXCEPT !.verdict = v, !.write = @ + 1] : d \in RowOf(s)}

save_decision(a, s, v) ==
  /\ Call(a)
  /\ decisions' = Saved(s, v)
  /\ UNCHANGED <<proposals, alerts, similar, pc, mem, shown, cards, failures>>

-----------------------------------------------------------------------------
(* propose_trade: the size, the checks, the row, the cards.                *)

Scaled(x, m) == (x * m) \div 100
Mult(x, anchor, cap) == Min({(100 * x) \div anchor, cap})

\* size_pct before it is held to the ceiling.
RawPct(q) ==
  Scaled(Scaled(Scaled(Scaled(BasePct, Mult(q.win, WinAnchor, WinCap)),
                       Mult(q.rr, RrAnchor, RrCap)),
                Max({Mult(q.count, SampleAnchor, SampleCap), SampleFloor})),
         q.regime)

\* round(x / d): the integers nearest to the quotient, both of them at a tie, which
\* the binary fraction decides; and Decimal.quantize, which takes the even one.
Nearest(x, d) == {n \in {x \div d, x \div d + 1} : 2 * n * d - 2 * x \in -d .. d}
HalfEven(x, d) ==
  LET q == x \div d
      r == x % d
  IN  IF 2 * r < d \/ (2 * r = d /\ q % 2 = 0) THEN q ELSE q + 1

PositionUncapped(equity, q) == Nearest(equity * RawPct(q), 10000)   \* mutant: no ceiling
Position(equity, q) == Nearest(equity * Min({RawPct(q), MaxPct}), 10000)
compute_position_size(equity, q) ==
  {n \in Position(equity, q) :
     equity >= MinEquity /\ RawPct(q) >= MinPct /\ n >= MinUsd}

Distance(q) == IF q.entry > q.stop THEN q.entry - q.stop ELSE q.stop - q.entry
LossAt(size, q) == HalfEven(size * Distance(q), q.entry)

\* The size is computed unless the agent gives one, and the loss with it if there
\* is an entry price; a market order without one only needs a positive loss.  An
\* order of another kind without an entry price divides by zero.
Sizes(q, equity) == IF q.size # 0 THEN {q.size} ELSE compute_position_size(equity, q)
LossFor(q, size) == IF q.size = 0 /\ q.entry # 0 THEN LossAt(size, q) ELSE q.loss
LossAccepted(q, size) ==
  IF q.entry = 0 THEN q.order = "market" /\ q.loss > 0
  ELSE LET computed == LossAt(size, q)
           apart == LossFor(q, size) - computed
       IN  100 * apart <= 2 * computed + 100 /\ -100 * apart <= 2 * computed + 100

Propose(a, id, q, equity) ==
  /\ Call(a)
  /\ q.rr >= RrMinimum
  /\ \E size \in Sizes(q, equity) :
       /\ LossAccepted(q, size)
       /\ Keep(a, [Blank EXCEPT !.id = id, !.size = size, !.loss = LossFor(q, size),
                                !.equity = equity, !.req = {q}])
  /\ Goto(a, "verdict")
  /\ UNCHANGED <<decisions, proposals, alerts, similar, shown, cards, failures>>

StandsNot(d) == d.verdict # "ignore"          \* mutant: any verdict but one
Stands(d) == d.verdict = "paper_trade"

\* The decision and its signal are read in one session.
ReadVerdict(a) ==
  /\ At(a, "verdict")
  /\ LET rows == {d \in decisions : d.id = mem[a].id /\ Stands(d)}
     IN  IF rows = {} THEN Finish(a)
         ELSE LET d == CHOOSE d \in rows : TRUE
              IN  /\ Keep(a, [mem[a] EXCEPT !.signal = d.signal, !.write = d.write])
                  /\ Goto(a, "count")
  /\ UNCHANGED <<decisions, proposals, alerts, similar, shown, cards, calls, failures>>

\* find_similar_signals is asked again: the evidence has to be within two of what
\* the agent saw; and the stop within the band, measured from the trigger price if
\* the order has no price of its own.  Without an ATR there is no band.
Req(a) == CHOOSE q \in mem[a].req : TRUE
WithinTwo(x, y) == x - y <= 2 /\ y - x <= 2
InBand(q) ==
  LET dist == Distance(IF q.entry = 0 THEN [q EXCEPT !.entry = Trigger] ELSE q)
  IN  Atr = 0 \/ (MinStopAtr * Atr <= 100 * dist /\ 100 * dist <= MaxStopAtr * Atr)
Recount(a) ==
  /\ At(a, "count")
  /\ IF WithinTwo(similar, Req(a).count) /\ InBand(Req(a))
     THEN Goto(a, "insert") /\ UNCHANGED mem
     ELSE Finish(a)
  /\ UNCHANGED <<decisions, proposals, alerts, similar, shown, cards, calls, failures>>

\* UNIQUE(decision_id): a second row raises.
InsertProposal(a) ==
  /\ At(a, "insert")
  /\ IF \E p \in proposals : p.id = mem[a].id
     THEN Finish(a) /\ UNCHANGED proposals
     ELSE /\ proposals' = proposals \cup
               {[id |-> mem[a].id, signal |-> mem[a].signal, write |-> mem[a].write,
                 size |-> mem[a].size, loss |-> mem[a].loss, equity |-> mem[a].equity,
                 req |-> Req(a)]}
          /\ Keep(a, [Blank EXCEPT !.id = mem[a].id])
          /\ Goto(a, "card")
  /\ UNCHANGED <<decisions, alerts, similar, shown, cards, calls, failures>>

\* Two posts, to one webhook each; what they raise is swallowed.
Card(a) ==
  /\ At(a, "card")
  /\ \/ cards' = cards \cup {mem[a].id} /\ UNCHANGED failures
     \/ UNCHANGED cards /\ Failed
  /\ Finish(a)
  /\ UNCHANGED <<decisions, proposals, alerts, similar, shown, calls>>

-----------------------------------------------------------------------------
(* send_alert.                                                             *)

\* INSERT ... ON CONFLICT (signal_id, channel) DO NOTHING: an alert that is there
\* is answered with its id, delivered or not.
AlertRow(s) == [signal |-> s, delivered |-> FALSE]
InsertAgain(a, s) ==                          \* mutant: posts for an existing row too
  /\ alerts' = alerts \cup {AlertRow(s)}
  /\ Keep(a, [Blank EXCEPT !.signal = s]) /\ Goto(a, "post")
InsertAlert(a, s) ==
  IF \E x \in alerts : x.signal = s
  THEN UNCHANGED <<alerts, pc, mem>>
  ELSE /\ alerts' = alerts \cup {AlertRow(s)}
       /\ IF Webhook THEN Keep(a, [Blank EXCEPT !.signal = s]) /\ Goto(a, "post")
                     ELSE UNCHANGED <<pc, mem>>

\* The payload names a decision that exists.
send_alert(a, s) ==
  /\ Call(a)
  /\ decisions # {}
  /\ InsertAlert(a, s)
  /\ UNCHANGED <<decisions, proposals, similar, shown, cards, failures>>

\* Discord shows it and says so; or refuses it; or shows it and the answer is lost.
Post(a) ==
  /\ At(a, "post")
  /\ \E seen, told \in BOOLEAN :
       /\ told => seen
       /\ shown' = [shown EXCEPT ![mem[a].signal] = IF seen THEN @ + 1 ELSE @]
       /\ Keep(a, [mem[a] EXCEPT !.delivered = told])
       /\ IF told THEN UNCHANGED failures ELSE Failed
  /\ Goto(a, "mark")
  /\ UNCHANGED <<decisions, proposals, alerts, similar, cards, calls>>

Mark(a) ==
  /\ At(a, "mark")
  /\ alerts' = {IF x.signal = mem[a].signal THEN [x EXCEPT !.delivered = mem[a].delivered]
                ELSE x : x \in alerts}
  /\ Finish(a)
  /\ UNCHANGED <<decisions, proposals, similar, shown, cards, calls, failures>>

-----------------------------------------------------------------------------

\* The outcome of one more signal is measured: it is like this one, or it takes the
\* place of one that is, because only the last k are compared.
Measure ==
  /\ similar' \in {similar + 1, similar - 1} \cap 0 .. MaxSimilar
  /\ UNCHANGED <<decisions, proposals, alerts, pc, mem, shown, cards, calls, failures>>

\* Every call in hand is gone.
Restart ==
  /\ \E a \in Agents : ~At(a, "idle")
  /\ Failed
  /\ pc' = [a \in Agents |-> "idle"] /\ mem' = [a \in Agents |-> Blank]
  /\ UNCHANGED <<decisions, proposals, alerts, similar, shown, cards, calls>>

propose_trade(a) ==
  \/ \E d \in decisions, q \in Requests, e \in Equities : Propose(a, d.id, q, e)
  \/ ReadVerdict(a) \/ Recount(a) \/ InsertProposal(a) \/ Card(a)

Next ==
  \/ \E a \in Agents :
       \/ \E s \in Signals : send_alert(a, s) \/ \E v \in Verdicts : save_decision(a, s, v)
       \/ propose_trade(a) \/ Post(a) \/ Mark(a)
  \/ Measure \/ Restart

Spec == Init /\ [][Next]_vars

-----------------------------------------------------------------------------
(* Properties.                                                             *)

\* The rows, the counters and the local variables have their types, and the
\* unique indexes hold.
TypeOK ==
  /\ decisions \subseteq [id: Nat, signal: Signals, verdict: Verdicts, write: Nat]
  /\ \A d, e \in decisions : d.id = e.id \/ d.signal = e.signal => d = e
  /\ proposals \subseteq [id: Nat, signal: Signals, write: Nat, size: Nat, loss: Nat,
                          equity: Equities, req: Requests]
  /\ alerts \subseteq [signal: Signals, delivered: BOOLEAN]
  /\ pc \in [Agents -> {"idle", "verdict", "count", "insert", "card", "post", "mark"}]
  /\ mem \in [Agents -> [signal: Signals \cup {""}, id: Nat, write: Nat, size: Nat, loss: Nat,
                         equity: Equities \cup {0}, req: SUBSET Requests, delivered: BOOLEAN]]
  /\ similar \in 0 .. MaxSimilar
  /\ shown \in [Signals -> Nat]
  /\ cards \subseteq {p.id : p \in proposals}
  /\ calls \in 0 .. MaxCalls /\ failures \in 0 .. MaxFailures

\* However many shifts judge a signal, and however often, at most one proposal
\* comes of it.
ProposedOnce == \A p, q \in proposals : p.signal = q.signal => p = q

\* The decision of a proposal says paper_trade, or save_decision was called for
\* its signal again after propose_trade had read it.
Founded ==
  \A p \in proposals : \E d \in decisions :
    d.id = p.id /\ (d.verdict = "paper_trade" \/ d.write > p.write)

\* The size of a proposal is within half a cent of the policy's share of the equity
\* that was read for it, or what the agent asked for; and its loss within two percent
\* and what rounding adds of what size, entry and stop give, unless it is a market
\* order without an entry, whose loss nothing is held against.
Sized ==
  \A p \in proposals :
    /\ \/ p.req.size # 0 /\ p.size = p.req.size
       \/ p.size >= MinUsd /\ p.size * 10000 <= p.equity * MaxPct + 5000
    /\ \/ p.req.order = "market" /\ p.req.entry = 0
       \/ LET exact == p.size * Distance(p.req)
          IN  /\ 100 * p.loss * p.req.entry <= 102 * exact + 151 * p.req.entry
              /\ 98 * exact <= 100 * p.loss * p.req.entry + 149 * p.req.entry

ProposalsSound == ProposedOnce /\ Founded /\ Sized

\* An alert is shown at most once, and as delivered only if it was shown.  One
\* that no call is at work on and that was not shown, or shown and not marked,
\* stands for a failure, as does a proposal whose card nobody saw; a restart
\* takes the calls of all shifts with it.
InHand(a) == pc[a] \in {"post", "mark", "card"}
AlertsExplained ==
  LET settled(s) == \A a \in Agents : InHand(a) => mem[a].signal # s
      silent == {x \in alerts : /\ settled(x.signal)
                                /\ shown[x.signal] = 0 \/ ~x.delivered}
      unseen == {p \in proposals : /\ p.id \notin cards
                                   /\ \A a \in Agents : InHand(a) => mem[a].id # p.id}
  IN  /\ \A s \in Signals : shown[s] <= 1
      /\ \A x \in alerts : x.delivered => shown[x.signal] = 1
      /\ Webhook => Cardinality(silent) + Cardinality(unseen) <= failures * Cardinality(Agents)
=============================================================================
