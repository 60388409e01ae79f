------------------------------ MODULE Universe ------------------------------
(***************************************************************************)
(* Claude curates the tiered universe: mutate_universe checks a change     *)
(* against the hard limits, replaces policy.yaml, records a                *)
(* universe_events row and announces it on Discord; a periodic sweep       *)
(* announces the rows whose card did not get through.                      *)
(*                                                                         *)
(* mutate_universe has no await between reading policy.yaml and            *)
(* os.replace, and the one MCP server runs its tools on one event loop:    *)
(* reading, checking and replacing are one action.  Every await after them *)
(* ends an action, so that calls and sweeps interleave there and the       *)
(* server or a sweep can be lost there.                                    *)
(*                                                                         *)
(* Failures covered: loss of the server or of a sweep, a row the database  *)
(* refuses, a card that fails before or after Discord took it, a webhook   *)
(* that is not configured.  Not covered: an edit of policy.yaml by hand.   *)
(***************************************************************************)
EXTENDS Integers, FiniteSets, SequencesExt

CONSTANTS
  Symbols,
  None,             \* Python's None: no tier, no row, no call
  Locked,           \* hard_limits.excluded_symbols_locked
  CoreOperatorOnly, \* hard_limits.core_promotions_operator_only
  MaxTotal,         \* hard_limits.max_total_universe_size
  TierCap,          \* hard_limits.max_per_tier, a function on some tiers
  InitialTiers,     \* the operator's policy.yaml
  Calls,            \* calls of mutate_universe, one mutation each
  Requests,         \* the arguments they can have
  Orphans,          \* calls whose shift_id is no heartbeat_shifts row
  Webhook,          \* TRUE iff DISCORD_UNIVERSE_WEBHOOK_URL is set
  Sweeps,           \* processes that can run retry_unposted_events at a time
  MaxCrashes,       \* bound: losses of the server or of a sweep
  MaxFailures       \* bound: cards Discord does not answer with an id

ActiveTiers == {"core", "watchlist", "observation"}
TierOrder   == <<"core", "watchlist", "observation", "excluded">>
Tiers       == ActiveTiers \cup {"excluded"}
EventTypes  == {"add", "promote", "demote", "remove", "exclude", "unexclude",
                "hard_limit_blocked"}

\* UniverseMutationRequest: these four need a to_tier, which is any string.
RequiresToTier == {"add", "promote", "demote", "unexclude"}

\* universe_events: the columns the properties read.
Rows == [type   : EventTypes,
         symbol : Symbols,
         from   : Tiers \cup {None},
         to     : {r.to : r \in Requests} \cup {None}]

ASSUME ConstantsAssumption ==
  /\ None \notin Symbols \cup Calls \cup Tiers /\ None \notin Rows
  /\ Locked \subseteq Symbols
  /\ CoreOperatorOnly \in BOOLEAN /\ Webhook \in BOOLEAN
  /\ MaxTotal \in Nat /\ MaxCrashes \in Nat /\ MaxFailures \in Nat
  /\ DOMAIN TierCap \subseteq ActiveTiers
  /\ \A t \in DOMAIN TierCap : TierCap[t] \in Nat
  /\ InitialTiers \in [Tiers -> Seq(Symbols)]
  /\ \A r \in Requests : /\ r.type \in EventTypes /\ r.symbol \in Symbols
                         /\ r.type \in RequiresToTier => r.to # None
  /\ Orphans \subseteq Calls /\ IsFiniteSet(Sweeps)

VARIABLES
  tiers,    \* policy.yaml universe.tiers: a list of symbols per tier
  pc,       \* where a call is
  req,      \* its arguments
  from,     \* its from_tier: tier_of(symbol) when it read policy.yaml
  applied,  \* history: the calls that replaced policy.yaml, by occurred_at
  events,   \* universe_events: the row of a call
  posted,   \* calls whose row has discord_posted
  old,      \* calls whose row is past the sweep's 24 hours
  cards,    \* cards Discord shows, per call
  todo,     \* per sweep: the rows it read and has not tried yet
  held,     \* per sweep: the row whose card got an id, UPDATE pending
  crashes, failures

fileVars  == <<tiers, applied>>
callVars  == <<pc, req, from>>
feedVars  == <<events, posted, old, cards>>
sweepVars == <<todo, held>>
vars == <<fileVars, callVars, feedVars, sweepVars, crashes, failures>>

Steps == {"idle", "refused", "applied", "posting", "marking",
          "done", "failed", "lost"}
InFlight == {"refused", "applied", "posting", "marking"}

TypeOK ==
  /\ tiers \in [Tiers -> Seq(Symbols)]
  /\ pc \in [Calls -> Steps]
  /\ req \in [Calls -> Requests \cup {None}]
  /\ from \in [Calls -> Tiers \cup {None}]
  /\ applied \in Seq(Calls)
  /\ events \in [Calls -> Rows \cup {None}]
  /\ posted \subseteq Calls /\ old \subseteq Calls
  /\ cards \in [Calls -> Nat]
  /\ todo \in [Sweeps -> SUBSET Calls]
  /\ held \in [Sweeps -> Calls \cup {None}]
  /\ crashes \in 0..MaxCrashes /\ failures \in 0..MaxFailures

Init ==
  /\ tiers = InitialTiers
  /\ pc = [c \in Calls |-> "idle"]
  /\ req = [c \in Calls |-> None]
  /\ from = [c \in Calls |-> None]
  /\ applied = <<>>
  /\ events = [c \in Calls |-> None]
  /\ posted = {} /\ old = {}
  /\ cards = [c \in Calls |-> 0]
  /\ todo = [s \in Sweeps |-> {}]
  /\ held = [s \in Sweeps |-> None]
  /\ crashes = 0 /\ failures = 0

-----------------------------------------------------------------------------
(* triage/universe_policy.py; f is the tiers section of a policy.yaml      *)

total_size(f) == Len(f["core"]) + Len(f["watchlist"]) + Len(f["observation"])

\* The first tier, in TierOrder, that lists the symbol.
tier_of(f, s) ==
  LET holders == {i \in DOMAIN TierOrder : Contains(f[TierOrder[i]], s)}
  IN  IF holders = {} THEN None ELSE TierOrder[Min(holders)]

\* Mutants: a tier filled past its cap by one, the total not checked, the lock
\* not checked.
RefusedLate(f, r) ==
  \/ r.type = "unexclude" /\ r.symbol \in Locked
  \/ r.type = "promote" /\ r.to = "core" /\ CoreOperatorOnly
  \/ r.type \in {"add", "unexclude"} /\ total_size(f) >= MaxTotal
  \/ r.to \in DOMAIN TierCap /\ Len(f[r.to]) > TierCap[r.to]

RefusedAnySize(f, r) ==
  \/ r.type = "unexclude" /\ r.symbol \in Locked
  \/ r.type = "promote" /\ r.to = "core" /\ CoreOperatorOnly
  \/ r.to \in DOMAIN TierCap /\ Len(f[r.to]) >= TierCap[r.to]

RefusedUnlocked(f, r) ==
  \/ r.type = "promote" /\ r.to = "core" /\ CoreOperatorOnly
  \/ r.type \in {"add", "unexclude"} /\ total_size(f) >= MaxTotal
  \/ r.to \in DOMAIN TierCap /\ Len(f[r.to]) >= TierCap[r.to]

\* validate_mutation raises HardLimitViolation.
Refused(f, r) ==
  \/ r.type = "unexclude" /\ r.symbol \in Locked
  \/ r.type = "promote" /\ r.to = "core" /\ CoreOperatorOnly
  \/ r.type \in {"add", "unexclude"} /\ total_size(f) >= MaxTotal
  \/ r.to \in DOMAIN TierCap /\ Len(f[r.to]) >= TierCap[r.to]

\* list.remove takes one occurrence, of the first tier that has one.
RemoveFromAll(f, s) ==
  IF tier_of(f, s) = None THEN f
  ELSE [f EXCEPT ![tier_of(f, s)] = RemoveFirst(@, s)]

\* Mutant: the arguments of _add_to swapped.
AddToSwapped(f, t, s) == [f EXCEPT ![t] = Append(@, t)]

AddTo(f, t, s) == [f EXCEPT ![t] = Append(@, s)]

apply_mutation(f, r) ==
  CASE r.type = "add"     -> AddTo(f, r.to, r.symbol)
    [] r.type = "remove"  -> RemoveFromAll(f, r.symbol)
    [] r.type = "exclude" -> AddTo(RemoveFromAll(f, r.symbol), "excluded", r.symbol)
    [] r.type = "hard_limit_blocked" -> f
    [] OTHER              -> AddTo(RemoveFromAll(f, r.symbol), r.to, r.symbol)

\* tiers_section[tier] raises KeyError before the file is written.
KeyError(r) == r.type \in RequiresToTier /\ r.to \notin Tiers

-----------------------------------------------------------------------------
(* mcp/tools/universe.py mutate_universe                                   *)

\* From load_universe to os.replace, or to the exception.
Mutate(c) ==
  /\ pc[c] = "idle"
  /\ \E r \in Requests :
       /\ req'  = [req EXCEPT ![c] = r]
       /\ from' = [from EXCEPT ![c] = tier_of(tiers, r.symbol)]
       /\ \/ /\ Refused(tiers, r)
             /\ pc' = [pc EXCEPT ![c] = "refused"]
             /\ UNCHANGED fileVars
          \/ /\ ~Refused(tiers, r) /\ KeyError(r)
             /\ pc' = [pc EXCEPT ![c] = "failed"]
             /\ UNCHANGED fileVars
          \/ /\ ~Refused(tiers, r) /\ ~KeyError(r)
             /\ tiers' = apply_mutation(tiers, r)
             /\ applied' = Append(applied, c)
             /\ pc' = [pc EXCEPT ![c] = "applied"]
  /\ UNCHANGED <<feedVars, sweepVars, crashes, failures>>

\* Mutant: from_tier is read when the row is inserted.
RowLate(c) ==
  IF pc[c] = "refused"
  THEN [type |-> "hard_limit_blocked", symbol |-> req[c].symbol,
        from |-> None, to |-> None]
  ELSE [type |-> req[c].type, symbol |-> req[c].symbol,
        from |-> tier_of(tiers, req[c].symbol), to |-> req[c].to]

\* The UniverseEvent row of a call; a refused one leaves the tiers null.
Row(c) ==
  IF pc[c] = "refused"
  THEN [type |-> "hard_limit_blocked", symbol |-> req[c].symbol,
        from |-> None, to |-> None]
  ELSE [type |-> req[c].type, symbol |-> req[c].symbol,
        from |-> from[c], to |-> req[c].to]

\* The insert commits, or the foreign key on shift_id refuses it.
Record(c) ==
  /\ pc[c] \in {"refused", "applied"}
  /\ IF c \in Orphans
     THEN /\ pc' = [pc EXCEPT ![c] = "failed"]
          /\ UNCHANGED events
     ELSE /\ pc' = [pc EXCEPT ![c] = "posting"]
          /\ events' = [events EXCEPT ![c] = Row(c)]
  /\ UNCHANGED <<fileVars, req, from, posted, old, cards, sweepVars,
                 crashes, failures>>

\* notifications/discord.py post_card: Discord answers with the id, or the
\* call fails, before or after Discord has taken the card.
PostedCard(c) ==
  /\ cards' = [cards EXCEPT ![c] = @ + 1]
  /\ UNCHANGED failures

FailedCard(c) ==
  /\ failures < MaxFailures
  /\ failures' = failures + 1
  /\ cards' \in {cards, [cards EXCEPT ![c] = @ + 1]}

\* Mutant: msg_id is not checked before the UPDATE.
PostUnchecked(c) ==
  /\ pc[c] = "posting"
  /\ Webhook
  /\ PostedCard(c) \/ FailedCard(c)
  /\ pc' = [pc EXCEPT ![c] = "marking"]
  /\ UNCHANGED <<fileVars, req, from, events, posted, old, sweepVars, crashes>>

\* Without a webhook _webhook_url raises, with the row committed.
Post(c) ==
  /\ pc[c] = "posting"
  /\ \/ /\ ~Webhook
        /\ pc' = [pc EXCEPT ![c] = "failed"]
        /\ UNCHANGED <<cards, failures>>
     \/ /\ Webhook /\ PostedCard(c)
        /\ pc' = [pc EXCEPT ![c] = "marking"]
     \/ /\ Webhook /\ FailedCard(c)
        /\ pc' = [pc EXCEPT ![c] = "done"]
  /\ UNCHANGED <<fileVars, req, from, events, posted, old, sweepVars, crashes>>

Mark(c) ==
  /\ pc[c] = "marking"
  /\ pc' = [pc EXCEPT ![c] = "done"]
  /\ posted' = posted \cup {c}
  /\ UNCHANGED <<fileVars, req, from, events, old, cards, sweepVars,
                 crashes, failures>>

\* The MCP server is lost, and every call in it.
ServerCrash ==
  /\ crashes < MaxCrashes
  /\ crashes' = crashes + 1
  /\ \E c \in Calls : pc[c] \in InFlight
  /\ pc' = [c \in Calls |-> IF pc[c] \in InFlight THEN "lost" ELSE pc[c]]
  /\ UNCHANGED <<fileVars, req, from, feedVars, sweepVars, failures>>

-----------------------------------------------------------------------------
(* notifications/discord.py retry_unposted_events                          *)

\* Mutants: discord_posted not tested; the cutoff compared the wrong way round.
UnpostedAny  == {c \in Calls : events[c] # None /\ c \notin old}
UnpostedPast == {c \in Calls : events[c] # None /\ c \in old \ posted}

Unposted == {c \in Calls : events[c] # None /\ c \notin posted \cup old}

\* Without a webhook the first card raises, and the sweep ends with nothing
\* changed.
SweepRead(s) ==
  /\ todo[s] = {} /\ held[s] = None
  /\ Webhook /\ Unposted # {}
  /\ todo' = [todo EXCEPT ![s] = Unposted]
  /\ UNCHANGED <<fileVars, callVars, feedVars, held, crashes, failures>>

\* The card of the next row; the rows come in no order.
SweepPost(s) ==
  /\ held[s] = None
  /\ \E c \in todo[s] :
       /\ todo' = [todo EXCEPT ![s] = @ \ {c}]
       /\ \/ PostedCard(c) /\ held' = [held EXCEPT ![s] = c]
          \/ FailedCard(c) /\ UNCHANGED held
  /\ UNCHANGED <<fileVars, callVars, events, posted, old, crashes>>

SweepMark(s) ==
  /\ held[s] # None
  /\ posted' = posted \cup {held[s]}
  /\ held' = [held EXCEPT ![s] = None]
  /\ UNCHANGED <<fileVars, callVars, events, old, cards, todo, crashes, failures>>

\* acks_late: the message of a lost sweep is delivered again.
SweepCrash(s) ==
  /\ crashes < MaxCrashes
  /\ crashes' = crashes + 1
  /\ todo[s] # {} \/ held[s] # None
  /\ todo' = [todo EXCEPT ![s] = {}]
  /\ held' = [held EXCEPT ![s] = None]
  /\ UNCHANGED <<fileVars, callVars, feedVars, failures>>

\* The occurred_at of a row passes out of the last max_age_minutes; of a row
\* that is posted nothing reads it.
Age(c) ==
  /\ events[c] # None /\ c \notin posted \cup old
  /\ old' = old \cup {c}
  /\ UNCHANGED <<fileVars, callVars, events, posted, cards, sweepVars,
                 crashes, failures>>

Next ==
  \/ \E c \in Calls : Mutate(c) \/ Record(c) \/ Post(c) \/ Mark(c) \/ Age(c)
  \/ \E s \in Sweeps : \/ SweepRead(s) \/ SweepPost(s)
                       \/ SweepMark(s) \/ SweepCrash(s)
  \/ ServerCrash

Spec == Init /\ [][Next]_vars

\* celery beat starts a sweep every 15 minutes and a worker runs it; nothing
\* is assumed of Claude's calls, of Discord or of the server.
FairSpec ==
  /\ Spec
  /\ \A s \in Sweeps : /\ WF_vars(SweepRead(s))
                       /\ WF_vars(SweepPost(s))
                       /\ WF_vars(SweepMark(s))

-----------------------------------------------------------------------------
(* Properties                                                              *)

\* Every event type that lists a symbol under a tier checks the tier's cap on
\* the same policy.yaml that it replaces, so no sequence of calls and losses
\* takes a tier past its cap, or past what the operator put there.
TierCapsHold ==
  \A t \in DOMAIN TierCap :
    Len(tiers[t]) <= Max({TierCap[t], Len(InitialTiers[t])})

Moves(c) == /\ req[c].type \in {"promote", "demote"}
            /\ from[c] \notin ActiveTiers /\ req[c].to \in ActiveTiers

\* validate_mutation checks the total for add and unexclude only: the universe
\* is larger than its limit by no more than the promotions and demotions that
\* brought in a symbol which was in no active tier.
TotalExplained ==
  total_size(tiers) <= Max({MaxTotal, total_size(InitialTiers)})
                       + Cardinality({c \in Range(applied) : Moves(c)})

IsActive(f, s) == \E t \in ActiveTiers : Contains(f[t], s)

\* The locks cover one event type each.  A locked symbol is active only if the
\* operator made it so or a call other than unexclude did; a symbol is in core
\* only if the operator put it there or a call other than promote did.
BarredExplained ==
  /\ \A s \in Locked :
       IsActive(tiers, s) =>
         \/ IsActive(InitialTiers, s)
         \/ \E c \in Range(applied) : /\ req[c].symbol = s
                                      /\ req[c].type # "unexclude"
  /\ CoreOperatorOnly =>
       \A s \in Symbols :
         Contains(tiers["core"], s) =>
           \/ Contains(InitialTiers["core"], s)
           \/ \E c \in Range(applied) : /\ req[c].symbol = s
                                        /\ req[c].to = "core"
                                        /\ req[c].type # "promote"

\* What a reader of universe_events does to the tiers for one row.
Redo(f, row) ==
  LET left == IF row.type = "add" \/ row.from = None THEN f
              ELSE [f EXCEPT ![row.from] = RemoveFirst(@, row.symbol)]
  IN  CASE row.type = "remove"  -> left
        [] row.type = "exclude" -> AddTo(left, "excluded", row.symbol)
        [] row.type = "hard_limit_blocked" -> f
        [] OTHER                -> AddTo(left, row.to, row.symbol)

\* The row of a call, or the row it would have inserted.
Change(c) == IF events[c] # None THEN events[c] ELSE Row(c)

\* universe_events is the audit log: in the order of occurred_at, and not of
\* the commits, the rows of the calls that replaced policy.yaml lead from the
\* operator's file to the present one.  Only the rows of calls that are under
\* way, were lost or were refused by the database are missing.
AuditReplays ==
  /\ FoldLeft(LAMBDA f, c : Redo(f, Change(c)), InitialTiers, applied) = tiers
  /\ \A c \in Range(applied) :
       events[c] = None => pc[c] \in {"applied", "failed", "lost"}

\* Discord shows only committed rows, and a row marked posted has been shown.
AnnouncedIsRecorded ==
  \A c \in Calls : /\ cards[c] > 0 => events[c] # None
                   /\ c \in posted => cards[c] > 0

\* The tool and the sweeps post without a lock.  A change is shown once, plus
\* once for each sweep that had read its row, for each card whose answer got
\* lost and for each process lost before its UPDATE.
CardsBounded ==
  \A c \in Calls : cards[c] <= 1 + Cardinality(Sweeps) + failures + crashes

\* A recorded change is marked posted in the end, whatever was lost on the
\* way, unless its 24 hours pass first.
EventuallyAnnounced ==
  \A c \in Calls : (events[c] # None) ~> (c \in posted \cup old)
=============================================================================
