-------------------------- MODULE Proposing_proofs --------------------------
(* Theorems about Proposing, for every value of its constants.             *)
EXTENDS Proposing, FiniteSetTheorems, TLAPS

(***************************************************************************)
(* Arithmetic.                                                             *)
(***************************************************************************)
LEMMA Division ==
  ASSUME NEW a \in Nat, NEW d \in Nat \ {0}
  PROVE  /\ a \div d \in Nat
         /\ d * (a \div d) <= a /\ a < d * (a \div d) + d
  OBVIOUS

LEMMA MinOfTwo ==
  ASSUME NEW a \in Nat, NEW b \in Nat
  PROVE  Min({a, b}) \in Nat /\ Min({a, b}) <= a /\ Min({a, b}) <= b
<1>1. \E x \in {a, b} : \A y \in {a, b} : x <= y
  <2>1. CASE a <= b
    BY <2>1
  <2>2. CASE b <= a
    BY <2>2
  <2> QED BY <2>1, <2>2
<1>2. Min({a, b}) \in {a, b} /\ \A y \in {a, b} : Min({a, b}) <= y
  BY <1>1 DEF Min
<1> QED BY <1>2

LEMMA MaxOfTwo ==
  ASSUME NEW a \in Nat, NEW b \in Nat
  PROVE  Max({a, b}) \in Nat
<1>1. \E x \in {a, b} : \A y \in {a, b} : x >= y
  <2>1. CASE a <= b
    BY <2>1
  <2>2. CASE b <= a
    BY <2>2
  <2> QED BY <2>1, <2>2
<1>2. Max({a, b}) \in {a, b}
  BY <1>1 DEF Max
<1> QED BY <1>2

LEMMA Products ==
  ASSUME NEW a \in Nat, NEW b \in Nat
  PROVE  a * b \in Nat
  OBVIOUS

LEMMA ProductOrder ==
  ASSUME NEW a \in Nat, NEW b \in Nat, NEW c \in Nat, a <= b
  PROVE  a * c <= b * c /\ c * a <= c * b
  OBVIOUS

(***************************************************************************)
(* The sizing formula: compute_position_size stays within half a cent of   *)
(* max_pct of the equity for every request and every policy, and the loss  *)
(* check keeps the loss within two percent of what size, entry and stop    *)
(* give, and what the rounding adds.                                       *)
(***************************************************************************)
LEMMA ScaledTyped ==
  ASSUME NEW x \in Nat, NEW m \in Nat
  PROVE  Scaled(x, m) \in Nat
<1>1. x * m \in Nat
  BY Products
<1> QED BY <1>1, Division DEF Scaled

LEMMA MultTyped ==
  ASSUME NEW x \in Nat, NEW anchor \in Nat \ {0}, NEW cap \in Nat
  PROVE  Mult(x, anchor, cap) \in Nat
<1>1. 100 * x \in Nat
  OBVIOUS
<1>2. (100 * x) \div anchor \in Nat
  BY <1>1, Division
<1> QED BY <1>2, MinOfTwo DEF Mult

LEMMA ConstantsTyped ==
  /\ MinUsd \in Nat /\ MaxPct \in Nat /\ BasePct \in Nat
  /\ WinCap \in Nat /\ RrCap \in Nat /\ SampleCap \in Nat /\ SampleFloor \in Nat
  /\ WinAnchor \in Nat \ {0} /\ RrAnchor \in Nat \ {0} /\ SampleAnchor \in Nat \ {0}
  /\ MaxCalls \in Nat /\ MaxSimilar \in Nat /\ MaxFailures \in Nat
  BY ProposingAssumption

LEMMA RequestTyped ==
  ASSUME NEW q \in Requests
  PROVE  /\ q.entry \in Nat /\ q.stop \in Nat /\ q.rr \in Nat /\ q.loss \in Nat
         /\ q.count \in Nat /\ q.win \in Nat /\ q.size \in Nat /\ q.regime \in Nat
         /\ q.order \in {"market", "limit", "stop"}
<1>1. q \in [order: {"market", "limit", "stop"}, entry: Nat, stop: Nat,
             rr: Nat, loss: Nat, count: Nat, win: Nat, size: Nat, regime: Nat]
  BY ProposingAssumption
<1> QED BY <1>1

LEMMA RawPctTyped ==
  ASSUME NEW q \in Requests
  PROVE  RawPct(q) \in Nat
<1>1. /\ Mult(q.win, WinAnchor, WinCap) \in Nat
      /\ Mult(q.rr, RrAnchor, RrCap) \in Nat
      /\ Mult(q.count, SampleAnchor, SampleCap) \in Nat
  BY RequestTyped, ConstantsTyped, MultTyped
<1>2. Max({Mult(q.count, SampleAnchor, SampleCap), SampleFloor}) \in Nat
  BY <1>1, ConstantsTyped, MaxOfTwo
<1>3. Scaled(BasePct, Mult(q.win, WinAnchor, WinCap)) \in Nat
  BY <1>1, ConstantsTyped, ScaledTyped
<1>4. Scaled(Scaled(BasePct, Mult(q.win, WinAnchor, WinCap)), Mult(q.rr, RrAnchor, RrCap)) \in Nat
  BY <1>1, <1>3, ScaledTyped
<1>5. Scaled(Scaled(Scaled(BasePct, Mult(q.win, WinAnchor, WinCap)),
                    Mult(q.rr, RrAnchor, RrCap)),
             Max({Mult(q.count, SampleAnchor, SampleCap), SampleFloor})) \in Nat
  BY <1>2, <1>4, ScaledTyped
<1> QED BY <1>5, RequestTyped, ScaledTyped DEF RawPct

\* Rounding is off by half of what it rounds to, in either direction.
LEMMA NearestWithin ==
  ASSUME NEW x \in Nat, NEW d \in Nat \ {0}, NEW n \in Nearest(x, d)
  PROVE  n \in Nat /\ 2 * (n * d) <= 2 * x + d
<1>1. n \in Nat
  BY Division DEF Nearest
<1>2. 2 * n * d - 2 * x <= d
  BY DEF Nearest
<1> QED BY <1>1, <1>2

LEMMA HalfEvenWithin ==
  ASSUME NEW x \in Nat, NEW d \in Nat \ {0}
  PROVE  /\ HalfEven(x, d) \in Nat
         /\ 2 * (d * HalfEven(x, d)) <= 2 * x + d
         /\ 2 * x <= 2 * (d * HalfEven(x, d)) + d
<1> DEFINE q == x \div d
           r == x % d
<1>1. q \in Nat /\ r \in Nat /\ x = d * q + r /\ r < d
  OBVIOUS
<1>2. \/ HalfEven(x, d) = q /\ 2 * r <= d
      \/ HalfEven(x, d) = q + 1 /\ 2 * r >= d
  <2>1. CASE 2 * r < d \/ (2 * r = d /\ q % 2 = 0)
    <3>1. HalfEven(x, d) = q
      BY <2>1 DEF HalfEven
    <3> QED BY <1>1, <2>1, <3>1
  <2>2. CASE ~(2 * r < d \/ (2 * r = d /\ q % 2 = 0))
    <3>1. HalfEven(x, d) = q + 1
      BY <2>2 DEF HalfEven
    <3>2. 2 * r >= d
      BY <1>1, <2>2
    <3> QED BY <3>1, <3>2
  <2> QED BY <2>1, <2>2
<1> HIDE DEF q, r
<1>3. d * (q + 1) = d * q + d /\ d * q \in Nat
  BY <1>1
<1>4. CASE HalfEven(x, d) = q /\ 2 * r <= d
  BY <1>1, <1>3, <1>4
<1>5. CASE HalfEven(x, d) = q + 1 /\ 2 * r >= d
  BY <1>1, <1>3, <1>5
<1> QED BY <1>2, <1>4, <1>5

\* A computed size is at most max_pct of the equity and half a cent.
LEMMA PositionWithin ==
  ASSUME NEW equity \in Nat, NEW q \in Requests, NEW n \in Position(equity, q)
  PROVE  n \in Nat /\ n * 10000 <= equity * MaxPct + 5000
<1> DEFINE pct == Min({RawPct(q), MaxPct})
           share == equity * pct
<1>1. pct \in Nat /\ pct <= MaxPct /\ MaxPct \in Nat
  BY RawPctTyped, ConstantsTyped, MinOfTwo
<1> HIDE DEF pct
<1>2. share \in Nat /\ share <= equity * MaxPct /\ equity * MaxPct \in Nat
  BY <1>1, Products, ProductOrder
<1>3. n \in Nearest(share, 10000)
  BY DEF Position, pct
<1> HIDE DEF share
<1>4. n \in Nat /\ 2 * (n * 10000) <= 2 * share + 10000
  BY <1>2, <1>3, NearestWithin
<1> QED BY <1>2, <1>4

LEMMA DistanceTyped ==
  ASSUME NEW q \in Requests
  PROVE  Distance(q) \in Nat
  BY RequestTyped DEF Distance

\* A loss that passes the check, against size * distance / entry: two percent and a
\* cent of the rounded loss, which itself is half a cent off.
LEMMA LossWithin ==
  ASSUME NEW exact \in Nat, NEW e \in Nat \ {0}, NEW loss \in Nat, NEW c \in Nat,
         2 * (e * c) <= 2 * exact + e, 2 * exact <= 2 * (e * c) + e,
         100 * (loss - c) <= 2 * c + 100, -100 * (loss - c) <= 2 * c + 100
  PROVE  /\ 100 * loss * e <= 102 * exact + 151 * e
         /\ 98 * exact <= 100 * loss * e + 149 * e
<1>1. 100 * loss <= 102 * c + 100 /\ 98 * c <= 100 * loss + 100
  OBVIOUS
<1>2. (100 * loss) * e <= (102 * c + 100) * e /\ (98 * c) * e <= (100 * loss + 100) * e
  BY <1>1, ProductOrder
<1>3. /\ (100 * loss) * e = 100 * (loss * e) /\ (102 * c + 100) * e = 102 * (e * c) + 100 * e
      /\ (98 * c) * e = 98 * (e * c) /\ (100 * loss + 100) * e = 100 * (loss * e) + 100 * e
      /\ 100 * loss * e = 100 * (loss * e)
      /\ loss * e \in Nat /\ e * c \in Nat
  OBVIOUS
<1> QED BY <1>2, <1>3

\* What Sized says of one proposal.
SizedBy(size, loss, equity, q) ==
  /\ \/ q.size # 0 /\ size = q.size
     \/ size >= MinUsd /\ size * 10000 <= equity * MaxPct + 5000
  /\ \/ q.order = "market" /\ q.entry = 0
     \/ LET exact == size * Distance(q)
        IN  /\ 100 * loss * q.entry <= 102 * exact + 151 * q.entry
            /\ 98 * exact <= 100 * loss * q.entry + 149 * q.entry

LEMMA SizesTyped ==
  ASSUME NEW q \in Requests, NEW equity \in Nat, NEW size \in Sizes(q, equity)
  PROVE  /\ size \in Nat
         /\ \/ q.size # 0 /\ size = q.size
            \/ size >= MinUsd /\ size * 10000 <= equity * MaxPct + 5000
<1>1. CASE q.size # 0
  BY <1>1, RequestTyped DEF Sizes
<1>2. CASE q.size = 0
  <2>1. size \in Position(equity, q) /\ size >= MinUsd
    BY <1>2 DEF Sizes, compute_position_size
  <2> QED BY <2>1, PositionWithin
<1> QED BY <1>1, <1>2

LEMMA LossAtWithin ==
  ASSUME NEW q \in Requests, NEW size \in Nat, q.entry # 0
  PROVE  LET exact == size * Distance(q)
             c == LossAt(size, q)
         IN  /\ exact \in Nat /\ q.entry \in Nat \ {0} /\ c \in Nat
             /\ 2 * (q.entry * c) <= 2 * exact + q.entry
             /\ 2 * exact <= 2 * (q.entry * c) + q.entry
<1>1. size * Distance(q) \in Nat /\ q.entry \in Nat \ {0}
  BY Products, DistanceTyped, RequestTyped
<1> QED BY <1>1, HalfEvenWithin DEF LossAt

LEMMA LossTyped ==
  ASSUME NEW q \in Requests, NEW size \in Nat, LossAccepted(q, size)
  PROVE  LossFor(q, size) \in Nat
<1>1. CASE q.size = 0 /\ q.entry # 0
  BY <1>1, LossAtWithin DEF LossFor
<1>2. CASE ~(q.size = 0 /\ q.entry # 0)
  BY <1>2, RequestTyped DEF LossFor
<1> QED BY <1>1, <1>2

\* What propose_trade keeps of a request it accepts satisfies Sized.
LEMMA AcceptedSized ==
  ASSUME NEW q \in Requests, NEW equity \in Nat, NEW size \in Sizes(q, equity),
         LossAccepted(q, size)
  PROVE  /\ size \in Nat /\ LossFor(q, size) \in Nat
         /\ SizedBy(size, LossFor(q, size), equity, q)
<1>1. size \in Nat /\ LossFor(q, size) \in Nat
  BY SizesTyped, LossTyped
<1>2. \/ q.size # 0 /\ size = q.size
      \/ size >= MinUsd /\ size * 10000 <= equity * MaxPct + 5000
  BY SizesTyped
<1>3. CASE q.entry = 0
  BY <1>1, <1>2, <1>3 DEF LossAccepted, SizedBy
<1>4. CASE q.entry # 0
  <2> DEFINE exact == size * Distance(q)
             c == LossAt(size, q)
             loss == LossFor(q, size)
  <2>1. /\ exact \in Nat /\ q.entry \in Nat \ {0} /\ c \in Nat /\ loss \in Nat
        /\ 2 * (q.entry * c) <= 2 * exact + q.entry /\ 2 * exact <= 2 * (q.entry * c) + q.entry
    BY <1>1, <1>4, LossAtWithin
  <2>2. 100 * (loss - c) <= 2 * c + 100 /\ -100 * (loss - c) <= 2 * c + 100
    BY <1>4 DEF LossAccepted
  <2> HIDE DEF exact, c, loss
  <2>3. /\ 100 * loss * q.entry <= 102 * exact + 151 * q.entry
        /\ 98 * exact <= 100 * loss * q.entry + 149 * q.entry
    BY <2>1, <2>2, LossWithin
  <2> QED BY <1>1, <1>2, <2>3 DEF SizedBy, exact, loss
<1> QED BY <1>1, <1>3, <1>4

(***************************************************************************)
(* The tables.  save_decision keeps the unique indexes, and every row stays *)
(* with its id, its signal and a write count that does not fall.           *)
(***************************************************************************)
DecisionRow == [id: Nat, signal: Signals, verdict: Verdicts, write: Nat]

DecisionsOK(D) ==
  /\ D \subseteq DecisionRow
  /\ \A d, e \in D : d.id = e.id \/ d.signal = e.signal => d = e
  /\ IsFiniteSet(D)
  /\ \A d \in D : d.id <= Cardinality(D)

\* The decision that r, a proposal or a call, rests on, in the rows D.
FoundedIn(D, r) ==
  \E d \in D : /\ d.id = r.id /\ d.signal = r.signal
               /\ d.write >= r.write
               /\ d.verdict = "paper_trade" \/ d.write > r.write

LEMMA SavedInsert ==
  ASSUME DecisionsOK(decisions), NEW s \in Signals, NEW v \in Verdicts, RowOf(s) = {}
  PROVE  DecisionsOK(Saved(s, v)) /\ decisions \subseteq Saved(s, v)
<1> DEFINE row == [id |-> NextId, signal |-> s, verdict |-> v, write |-> 1]
<1>1. Saved(s, v) = decisions \cup {row}
  BY DEF Saved
<1>2. Cardinality(decisions) \in Nat /\ NextId = Cardinality(decisions) + 1
  BY FS_CardinalityType DEF DecisionsOK, NextId
<1>3. row \in DecisionRow /\ row.id = NextId /\ row.signal = s
  BY <1>2 DEF DecisionRow
<1>4. \A d \in decisions : d.id # row.id /\ d.signal # row.signal
  BY <1>2, <1>3 DEF DecisionsOK, RowOf, DecisionRow
<1> HIDE DEF row
<1>5. row \notin decisions
  BY <1>4
<1>6. /\ IsFiniteSet(decisions \cup {row})
      /\ Cardinality(decisions \cup {row}) = Cardinality(decisions) + 1
  BY <1>5, FS_AddElement DEF DecisionsOK
<1>7. \A d, e \in decisions \cup {row} : d.id = e.id \/ d.signal = e.signal => d = e
  BY <1>4 DEF DecisionsOK
<1>8. \A d \in decisions \cup {row} : d.id <= Cardinality(decisions \cup {row})
  BY <1>2, <1>3, <1>6 DEF DecisionsOK, DecisionRow
<1> QED BY <1>1, <1>3, <1>6, <1>7, <1>8 DEF DecisionsOK

\* A row of decisions whose verdict is replaced.
Rewritten(d, v) == [d EXCEPT !.verdict = v, !.write = @ + 1]

LEMMA RewrittenFacts ==
  ASSUME NEW d \in DecisionRow, NEW v \in Verdicts
  PROVE  /\ Rewritten(d, v) \in DecisionRow
         /\ Rewritten(d, v).id = d.id /\ Rewritten(d, v).signal = d.signal
         /\ Rewritten(d, v).write = d.write + 1
<1>1. d.write + 1 \in Nat
  BY DEF DecisionRow
<1>2. Rewritten(d, v) \in DecisionRow
  BY <1>1 DEF Rewritten, DecisionRow
<1>3. /\ Rewritten(d, v).id = d.id /\ Rewritten(d, v).signal = d.signal
      /\ Rewritten(d, v).write = d.write + 1
  BY DEF Rewritten, DecisionRow
<1> QED BY <1>2, <1>3

LEMMA SavedUpdate ==
  ASSUME DecisionsOK(decisions), NEW s \in Signals, NEW v \in Verdicts,
         NEW d \in decisions, d.signal = s
  PROVE  /\ DecisionsOK(Saved(s, v))
         /\ Saved(s, v) = (decisions \ {d}) \cup {Rewritten(d, v)}
<1> DEFINE row == Rewritten(d, v)
           others == decisions \ {d}
<1>1. RowOf(s) = {d}
  BY DEF RowOf, DecisionsOK
<1>2. Saved(s, v) = others \cup {row}
  <2>1. {[e EXCEPT !.verdict = v, !.write = @ + 1] : e \in RowOf(s)} = {row}
    BY <1>1 DEF Rewritten
  <2> QED BY <1>1, <2>1 DEF Saved
<1>3. d \in DecisionRow
  BY DEF DecisionsOK
<1>4. row \in DecisionRow /\ row.id = d.id /\ row.signal = d.signal /\ row.write = d.write + 1
  BY <1>3, RewrittenFacts
<1>5. \A e \in others : e.id # row.id /\ e.signal # row.signal
  BY <1>4 DEF DecisionsOK
<1>6. row \notin others
  BY <1>5
<1>7. /\ IsFiniteSet(others) /\ Cardinality(others) = Cardinality(decisions) - 1
  BY FS_RemoveElement DEF DecisionsOK
<1>8. Cardinality(decisions) \in Nat
  BY FS_CardinalityType DEF DecisionsOK
<1> HIDE DEF others
<1>9. /\ IsFiniteSet(others \cup {row})
      /\ Cardinality(others \cup {row}) = Cardinality(others) + 1
  BY <1>6, <1>7, FS_AddElement
<1>10. Cardinality(others \cup {row}) = Cardinality(decisions)
  BY <1>7, <1>8, <1>9
<1>11. others \subseteq decisions
  BY DEF others
<1>12. \A e, f \in others \cup {row} : e.id = f.id \/ e.signal = f.signal => e = f
  BY <1>5, <1>11 DEF DecisionsOK
<1>13. \A e \in others \cup {row} : e.id <= Cardinality(others \cup {row})
  BY <1>4, <1>10, <1>11 DEF DecisionsOK
<1>14. DecisionsOK(others \cup {row})
  BY <1>4, <1>9, <1>11, <1>12, <1>13 DEF DecisionsOK
<1> QED BY <1>2, <1>14 DEF row, others

LEMMA SavedOK ==
  ASSUME DecisionsOK(decisions), NEW s \in Signals, NEW v \in Verdicts
  PROVE  DecisionsOK(Saved(s, v))
<1>1. CASE RowOf(s) = {}
  BY <1>1, SavedInsert
<1>2. CASE RowOf(s) # {}
  <2>1. PICK d \in decisions : d.signal = s
    BY <1>2 DEF RowOf
  <2> QED BY <2>1, SavedUpdate
<1> QED BY <1>1, <1>2

\* A verdict that changes leaves what rests on it founded.
LEMMA SavedKeeps ==
  ASSUME DecisionsOK(decisions), NEW s \in Signals, NEW v \in Verdicts,
         NEW r, r.write \in Nat, FoundedIn(decisions, r)
  PROVE  FoundedIn(Saved(s, v), r)
<1>1. PICK d \in decisions : /\ d.id = r.id /\ d.signal = r.signal
                             /\ d.write >= r.write
                             /\ d.verdict = "paper_trade" \/ d.write > r.write
  BY DEF FoundedIn
<1>2. CASE d \in Saved(s, v)
  BY <1>1, <1>2 DEF FoundedIn
<1>3. CASE d \notin Saved(s, v)
  <2>1. RowOf(s) # {} /\ d \in RowOf(s)
    BY <1>3, SavedInsert DEF Saved
  <2>2. d.signal = s
    BY <2>1 DEF RowOf
  <2> DEFINE row == Rewritten(d, v)
  <2>3. d \in DecisionRow /\ d.write \in Nat
    BY DEF DecisionsOK, DecisionRow
  <2>4. /\ row \in Saved(s, v)
        /\ row.id = d.id /\ row.signal = d.signal /\ row.write = d.write + 1
    BY <2>2, <2>3, SavedUpdate, RewrittenFacts
  <2> HIDE DEF row
  <2>5. row.id = r.id /\ row.signal = r.signal /\ row.write > r.write /\ row.write >= r.write
    BY <1>1, <2>3, <2>4
  <2> QED BY <2>4, <2>5 DEF FoundedIn
<1> QED BY <1>2, <1>3

(***************************************************************************)
(* The invariant: what a call has in hand is what Sized and Founded will   *)
(* ask of its proposal, and every proposal has a decision of its own.      *)
(***************************************************************************)
Places == {"idle", "verdict", "count", "insert", "card", "post", "mark"}
Locals == [signal: Signals \cup {""}, id: Nat, write: Nat, size: Nat, loss: Nat,
           equity: Equities \cup {0}, req: SUBSET Requests, delivered: BOOLEAN]
ProposalRow == [id: Nat, signal: Signals, write: Nat, size: Nat, loss: Nat,
                equity: Equities, req: Requests]

\* A call at place w with local variables m.
Proposed(m) ==
  \E q \in Requests : /\ m.req = {q} /\ m.equity \in Equities
                      /\ SizedBy(m.size, m.loss, m.equity, q)
CallOK(w, m, D, P) ==
  /\ w \in {"verdict", "count", "insert"} => Proposed(m)
  /\ w \in {"count", "insert"} => m.signal \in Signals /\ FoundedIn(D, m)
  /\ w \in {"post", "mark"} => m.signal \in Signals
  /\ w = "card" => \E p \in P : p.id = m.id

CallsOK ==
  /\ pc \in [Agents -> Places] /\ mem \in [Agents -> Locals]
  /\ \A a \in Agents : CallOK(pc[a], mem[a], decisions, proposals)

ProposalsOK ==
  /\ proposals \subseteq ProposalRow
  /\ \A p, q \in proposals : p.id = q.id => p = q
  /\ \A p \in proposals : /\ SizedBy(p.size, p.loss, p.equity, p.req)
                          /\ FoundedIn(decisions, p)

AlertsOK ==
  /\ alerts \subseteq [signal: Signals, delivered: BOOLEAN]
  /\ shown \in [Signals -> Nat]
  /\ cards \subseteq {p.id : p \in proposals}

CountersOK ==
  /\ similar \in 0 .. MaxSimilar
  /\ calls \in 0 .. MaxCalls /\ failures \in 0 .. MaxFailures

ProposingInv == DecisionsOK(decisions) /\ CallsOK /\ ProposalsOK /\ AlertsOK /\ CountersOK

LEMMA BlankOK == Blank \in Locals
  BY DEF Blank, Locals

\* One call moves: the others stay as they were.
LEMMA OneMoves ==
  ASSUME CallsOK, NEW a \in Agents, NEW w \in Places, NEW m \in Locals,
         pc' = [pc EXCEPT ![a] = w], mem' = [mem EXCEPT ![a] = m],
         \A r \in Locals : FoundedIn(decisions, r) => FoundedIn(decisions', r),
         proposals \subseteq proposals',
         CallOK(w, m, decisions', proposals')
  PROVE  CallsOK'
<1>1. pc' \in [Agents -> Places] /\ mem' \in [Agents -> Locals]
  BY DEF CallsOK
<1>2. ASSUME NEW b \in Agents
      PROVE  CallOK(pc'[b], mem'[b], decisions', proposals')
  <2>1. CASE b = a
    BY <2>1 DEF CallsOK
  <2>2. CASE b # a
    <3>1. pc'[b] = pc[b] /\ mem'[b] = mem[b] /\ mem[b] \in Locals
      BY <2>2 DEF CallsOK
    <3>2. CallOK(pc[b], mem[b], decisions, proposals)
      BY DEF CallsOK
    <3>3. FoundedIn(decisions, mem[b]) => FoundedIn(decisions', mem[b])
      BY <3>1
    <3>4. CallOK(pc[b], mem[b], decisions', proposals')
      BY <3>2, <3>3 DEF CallOK
    <3> QED BY <3>1, <3>4
  <2> QED BY <2>1, <2>2
<1> QED BY <1>1, <1>2 DEF CallsOK

\* No call moves.
LEMMA NoneMoves ==
  ASSUME CallsOK, UNCHANGED <<pc, mem>>,
         \A r \in Locals : FoundedIn(decisions, r) => FoundedIn(decisions', r),
         proposals \subseteq proposals'
  PROVE  CallsOK'
<1>1. ASSUME NEW b \in Agents
      PROVE  CallOK(pc[b], mem[b], decisions', proposals')
  <2>1. CallOK(pc[b], mem[b], decisions, proposals) /\ mem[b] \in Locals
    BY DEF CallsOK
  <2>2. FoundedIn(decisions, mem[b]) => FoundedIn(decisions', mem[b])
    BY <2>1
  <2> QED BY <2>1, <2>2 DEF CallOK
<1> QED BY <1>1 DEF CallsOK

LEMMA FinishOK ==
  ASSUME CallsOK, NEW a \in Agents, Finish(a), UNCHANGED <<decisions, proposals>>
  PROVE  CallsOK'
<1>1. pc' = [pc EXCEPT ![a] = "idle"] /\ mem' = [mem EXCEPT ![a] = Blank]
  BY DEF Finish, Goto, Keep
<1>2. CallOK("idle", Blank, decisions', proposals')
  BY DEF CallOK
<1>3. "idle" \in Places /\ proposals \subseteq proposals' /\ decisions' = decisions
  BY DEF Places
<1> QED BY <1>1, <1>2, <1>3, BlankOK, OneMoves

LEMMA CalledOK ==
  ASSUME CountersOK, NEW a \in Agents, Call(a), UNCHANGED <<similar, failures>>
  PROVE  CountersOK'
  BY ConstantsTyped DEF CountersOK, Call

LEMMA FailedOK ==
  ASSUME CountersOK, Failed \/ UNCHANGED failures, UNCHANGED <<similar, calls>>
  PROVE  CountersOK'
<1>1. CASE Failed
  BY <1>1, ConstantsTyped DEF CountersOK, Failed
<1>2. CASE UNCHANGED failures
  BY <1>2 DEF CountersOK
<1> QED BY <1>1, <1>2

LEMMA InitInv == Init => ProposingInv
<1> SUFFICES ASSUME Init PROVE ProposingInv
  OBVIOUS
<1>1. DecisionsOK(decisions)
  <2>1. IsFiniteSet({})
    BY FS_EmptySet
  <2> QED BY <2>1 DEF Init, DecisionsOK
<1>2. CallsOK
  <2>1. pc \in [Agents -> Places] /\ mem \in [Agents -> Locals]
    BY BlankOK DEF Init, Places
  <2>2. \A a \in Agents : pc[a] = "idle"
    BY DEF Init
  <2> QED BY <2>1, <2>2 DEF CallsOK, CallOK
<1>3. ProposalsOK
  BY DEF Init, ProposalsOK
<1>4. AlertsOK
  BY DEF Init, AlertsOK
<1>5. CountersOK
  BY ConstantsTyped DEF Init, CountersOK
<1> QED BY <1>1, <1>2, <1>3, <1>4, <1>5 DEF ProposingInv

(***************************************************************************)
(* One lemma per action.                                                   *)
(***************************************************************************)
LEMMA SaveStep ==
  ASSUME ProposingInv, NEW a \in Agents, NEW s \in Signals, NEW v \in Verdicts,
         save_decision(a, s, v)
  PROVE  ProposingInv'
<1> USE DEF ProposingInv
<1>1. decisions' = Saved(s, v) /\ UNCHANGED <<proposals, alerts, similar, pc, mem, shown, cards, failures>>
  BY DEF save_decision
<1>2. DecisionsOK(decisions')
  BY <1>1, SavedOK
<1>3. \A r : r.write \in Nat /\ FoundedIn(decisions, r) => FoundedIn(decisions', r)
  BY <1>1, SavedKeeps
<1>4. \A r \in Locals : FoundedIn(decisions, r) => FoundedIn(decisions', r)
  BY <1>3 DEF Locals
<1>5. CallsOK'
  BY <1>1, <1>4, NoneMoves
<1>6. ProposalsOK'
  <2>1. \A p \in proposals : FoundedIn(decisions', p)
    BY <1>3 DEF ProposalsOK, ProposalRow
  <2> QED BY <1>1, <2>1 DEF ProposalsOK
<1>7. AlertsOK'
  BY <1>1 DEF AlertsOK
<1>8. CountersOK'
  BY <1>1, CalledOK DEF save_decision
<1> QED BY <1>2, <1>5, <1>6, <1>7, <1>8

LEMMA ProposeStep ==
  ASSUME ProposingInv, NEW a \in Agents, NEW id \in Nat, NEW q \in Requests,
         NEW equity \in Equities, Propose(a, id, q, equity)
  PROVE  ProposingInv'
<1> USE DEF ProposingInv
<1>1. PICK size \in Sizes(q, equity) :
        /\ LossAccepted(q, size)
        /\ Keep(a, [Blank EXCEPT !.id = id, !.size = size, !.loss = LossFor(q, size),
                                 !.equity = equity, !.req = {q}])
  BY DEF Propose
<1> DEFINE m == [Blank EXCEPT !.id = id, !.size = size, !.loss = LossFor(q, size),
                              !.equity = equity, !.req = {q}]
<1>2. equity \in Nat
  BY ProposingAssumption
<1>3. /\ size \in Nat /\ LossFor(q, size) \in Nat
      /\ SizedBy(size, LossFor(q, size), equity, q)
  BY <1>1, <1>2, AcceptedSized
<1>4. m \in Locals
  BY <1>3 DEF Blank, Locals
<1>5. m.req = {q} /\ m.equity = equity /\ m.size = size /\ m.loss = LossFor(q, size)
  BY DEF Blank
<1>6. mem' = [mem EXCEPT ![a] = m] /\ pc' = [pc EXCEPT ![a] = "verdict"]
      /\ UNCHANGED <<decisions, proposals, alerts, similar, shown, cards, failures>>
  BY <1>1 DEF Propose, Keep, Goto
<1> HIDE DEF m
<1>7. Proposed(m)
  BY <1>3, <1>5 DEF Proposed
<1>8. CallOK("verdict", m, decisions', proposals') /\ "verdict" \in Places
  BY <1>7 DEF CallOK, Places
<1>9. CallsOK'
  BY <1>4, <1>6, <1>8, OneMoves
<1>10. CountersOK'
  BY <1>6, CalledOK DEF Propose
<1> QED BY <1>6, <1>9, <1>10 DEF DecisionsOK, ProposalsOK, AlertsOK

LEMMA VerdictStep ==
  ASSUME ProposingInv, NEW a \in Agents, ReadVerdict(a)
  PROVE  ProposingInv'
<1> USE DEF ProposingInv
<1> DEFINE rows == {d \in decisions : d.id = mem[a].id /\ Stands(d)}
<1>1. UNCHANGED <<decisions, proposals, alerts, similar, shown, cards, calls, failures>>
  BY DEF ReadVerdict
<1>2. CASE rows = {}
  BY <1>1, <1>2, FinishOK DEF ReadVerdict, DecisionsOK, ProposalsOK, AlertsOK, CountersOK
<1>3. CASE rows # {}
  <2>1. PICK d \in rows :
          /\ Keep(a, [mem[a] EXCEPT !.signal = d.signal, !.write = d.write])
          /\ Goto(a, "count")
    BY <1>3 DEF ReadVerdict
  <2> DEFINE m == [mem[a] EXCEPT !.signal = d.signal, !.write = d.write]
  <2>2. d \in decisions /\ d \in DecisionRow /\ d.id = mem[a].id /\ d.verdict = "paper_trade"
    BY DEF DecisionsOK, Stands
  <2>3. mem[a] \in Locals /\ Proposed(mem[a])
    BY DEF CallsOK, CallOK, ReadVerdict, At
  <2>4. /\ m \in Locals /\ m.signal = d.signal /\ m.write = d.write /\ m.id = d.id
        /\ m.req = mem[a].req /\ m.equity = mem[a].equity
        /\ m.size = mem[a].size /\ m.loss = mem[a].loss
    BY <2>2, <2>3 DEF Locals, DecisionRow
  <2>5. mem' = [mem EXCEPT ![a] = m] /\ pc' = [pc EXCEPT ![a] = "count"]
    BY <2>1 DEF Keep, Goto
  <2> HIDE DEF m
  <2>6. Proposed(m)
    BY <2>3, <2>4 DEF Proposed
  <2>7. m.signal \in Signals /\ FoundedIn(decisions, m)
    BY <2>2, <2>4 DEF FoundedIn, DecisionRow
  <2>8. CallOK("count", m, decisions', proposals') /\ "count" \in Places
    BY <1>1, <2>6, <2>7 DEF CallOK, Places
  <2>9. CallsOK'
    BY <1>1, <2>4, <2>5, <2>8, OneMoves
  <2> QED BY <1>1, <2>9 DEF DecisionsOK, ProposalsOK, AlertsOK, CountersOK
<1> QED BY <1>2, <1>3

LEMMA RecountStep ==
  ASSUME ProposingInv, NEW a \in Agents, Recount(a)
  PROVE  ProposingInv'
<1> USE DEF ProposingInv
<1>1. UNCHANGED <<decisions, proposals, alerts, similar, shown, cards, calls, failures>>
  BY DEF Recount
<1>2. CASE Finish(a)
  BY <1>1, <1>2, FinishOK DEF DecisionsOK, ProposalsOK, AlertsOK, CountersOK
<1>3. CASE Goto(a, "insert") /\ UNCHANGED mem
  <2>1. mem[a] \in Locals /\ CallOK("count", mem[a], decisions, proposals)
    BY DEF CallsOK, Recount, At
  <2>2. CallOK("insert", mem[a], decisions', proposals') /\ "insert" \in Places
    BY <1>1, <2>1 DEF CallOK, Places
  <2>3. pc' = [pc EXCEPT ![a] = "insert"] /\ mem' = [mem EXCEPT ![a] = mem[a]]
    BY <1>3 DEF Goto, CallsOK
  <2>4. CallsOK'
    BY <1>1, <2>1, <2>2, <2>3, OneMoves
  <2> QED BY <1>1, <2>4 DEF DecisionsOK, ProposalsOK, AlertsOK, CountersOK
<1> QED BY <1>2, <1>3 DEF Recount

LEMMA InsertStep ==
  ASSUME ProposingInv, NEW a \in Agents, InsertProposal(a)
  PROVE  ProposingInv'
<1> USE DEF ProposingInv
<1>1. UNCHANGED <<decisions, alerts, similar, shown, cards, calls, failures>>
  BY DEF InsertProposal
<1>2. CASE \E p \in proposals : p.id = mem[a].id
  BY <1>1, <1>2, FinishOK DEF InsertProposal, DecisionsOK, ProposalsOK, AlertsOK, CountersOK
<1>3. CASE ~\E p \in proposals : p.id = mem[a].id
  <2> DEFINE row == [id |-> mem[a].id, signal |-> mem[a].signal, write |-> mem[a].write,
                     size |-> mem[a].size, loss |-> mem[a].loss, equity |-> mem[a].equity,
                     req |-> Req(a)]
             m == [Blank EXCEPT !.id = mem[a].id]
  <2>1. proposals' = proposals \cup {row} /\ Keep(a, m) /\ Goto(a, "card")
    BY <1>3 DEF InsertProposal
  <2>2. /\ mem[a] \in Locals /\ Proposed(mem[a])
        /\ mem[a].signal \in Signals /\ FoundedIn(decisions, mem[a])
    BY DEF CallsOK, CallOK, InsertProposal, At
  <2>3. PICK q \in Requests : /\ mem[a].req = {q} /\ mem[a].equity \in Equities
                              /\ SizedBy(mem[a].size, mem[a].loss, mem[a].equity, q)
    BY <2>2 DEF Proposed
  <2>4. Req(a) = q
    BY <2>3 DEF Req
  <2>5. /\ row \in ProposalRow
        /\ row.id = mem[a].id /\ row.signal = mem[a].signal /\ row.write = mem[a].write
        /\ row.size = mem[a].size /\ row.loss = mem[a].loss /\ row.equity = mem[a].equity
        /\ row.req = q
    BY <2>2, <2>3, <2>4 DEF Locals, ProposalRow
  <2>6. m \in Locals /\ m.id = mem[a].id
    BY <2>2 DEF Locals, Blank
  <2> HIDE DEF row, m
  <2>7. FoundedIn(decisions, row) /\ SizedBy(row.size, row.loss, row.equity, row.req)
    BY <2>2, <2>3, <2>5 DEF FoundedIn
  <2>8. \A p, r \in proposals \cup {row} : p.id = r.id => p = r
    BY <1>3, <2>5 DEF ProposalsOK
  <2>9. ProposalsOK'
    BY <1>1, <2>1, <2>5, <2>7, <2>8 DEF ProposalsOK
  <2>10. CallOK("card", m, decisions', proposals') /\ "card" \in Places
    BY <2>1, <2>5, <2>6 DEF CallOK, Places
  <2>11. pc' = [pc EXCEPT ![a] = "card"] /\ mem' = [mem EXCEPT ![a] = m]
    BY <2>1 DEF Keep, Goto
  <2>12. CallsOK'
    BY <1>1, <2>1, <2>6, <2>10, <2>11, OneMoves
  <2>13. AlertsOK'
    BY <1>1, <2>1 DEF AlertsOK
  <2> QED BY <1>1, <2>9, <2>12, <2>13 DEF DecisionsOK, CountersOK
<1> QED BY <1>2, <1>3

LEMMA CardStep ==
  ASSUME ProposingInv, NEW a \in Agents, Card(a)
  PROVE  ProposingInv'
<1> USE DEF ProposingInv
<1>1. Finish(a) /\ UNCHANGED <<decisions, proposals, alerts, similar, shown, calls>>
  BY DEF Card
<1>2. CallsOK'
  BY <1>1, FinishOK
<1>3. PICK p \in proposals : p.id = mem[a].id
  BY DEF Card, At, CallsOK, CallOK
<1>4. cards' \subseteq {r.id : r \in proposals}
  BY <1>3 DEF Card, AlertsOK
<1>5. AlertsOK'
  BY <1>1, <1>4 DEF AlertsOK
<1>6. CountersOK'
  BY <1>1, FailedOK DEF Card
<1> QED BY <1>1, <1>2, <1>5, <1>6 DEF DecisionsOK, ProposalsOK

LEMMA AlertStep ==
  ASSUME ProposingInv, NEW a \in Agents, NEW s \in Signals, send_alert(a, s)
  PROVE  ProposingInv'
<1> USE DEF ProposingInv
<1>1. UNCHANGED <<decisions, proposals, similar, shown, cards, failures>> /\ Call(a)
  BY DEF send_alert
<1>2. CountersOK'
  BY <1>1, CalledOK
<1>3. AlertRow(s) \in [signal: Signals, delivered: BOOLEAN]
  BY DEF AlertRow
<1>4. AlertsOK'
  BY <1>1, <1>3 DEF AlertsOK, send_alert, InsertAlert
<1>5. CASE UNCHANGED <<pc, mem>>
  <2>1. CallsOK'
    BY <1>1, <1>5, NoneMoves
  <2> QED BY <1>1, <1>2, <1>4, <2>1 DEF DecisionsOK, ProposalsOK
<1>6. CASE Keep(a, [Blank EXCEPT !.signal = s]) /\ Goto(a, "post")
  <2> DEFINE m == [Blank EXCEPT !.signal = s]
  <2>1. m \in Locals /\ m.signal = s
    BY DEF Blank, Locals
  <2>2. pc' = [pc EXCEPT ![a] = "post"] /\ mem' = [mem EXCEPT ![a] = m]
    BY <1>6 DEF Keep, Goto
  <2> HIDE DEF m
  <2>3. CallOK("post", m, decisions', proposals') /\ "post" \in Places
    BY <2>1 DEF CallOK, Places
  <2>4. CallsOK'
    BY <1>1, <2>1, <2>2, <2>3, OneMoves
  <2> QED BY <1>1, <1>2, <1>4, <2>4 DEF DecisionsOK, ProposalsOK
<1> QED BY <1>5, <1>6 DEF send_alert, InsertAlert

LEMMA PostStep ==
  ASSUME ProposingInv, NEW a \in Agents, Post(a)
  PROVE  ProposingInv'
<1> USE DEF ProposingInv
<1>1. UNCHANGED <<decisions, proposals, alerts, similar, cards, calls>>
  BY DEF Post
<1>2. PICK seen, told \in BOOLEAN :
        /\ shown' = [shown EXCEPT ![mem[a].signal] = IF seen THEN @ + 1 ELSE @]
        /\ Keep(a, [mem[a] EXCEPT !.delivered = told])
        /\ IF told THEN UNCHANGED failures ELSE Failed
  BY DEF Post
<1> DEFINE m == [mem[a] EXCEPT !.delivered = told]
<1>3. mem[a] \in Locals /\ mem[a].signal \in Signals
  BY DEF Post, At, CallsOK, CallOK
<1>4. m \in Locals /\ m.signal = mem[a].signal
  BY <1>3 DEF Locals
<1>5. pc' = [pc EXCEPT ![a] = "mark"] /\ mem' = [mem EXCEPT ![a] = m]
  BY <1>2 DEF Post, Keep, Goto
<1> HIDE DEF m
<1>6. CallOK("mark", m, decisions', proposals') /\ "mark" \in Places
  BY <1>3, <1>4 DEF CallOK, Places
<1>7. CallsOK'
  BY <1>1, <1>4, <1>5, <1>6, OneMoves
<1>8. shown' \in [Signals -> Nat]
  <2>1. shown \in [Signals -> Nat] /\ shown[mem[a].signal] \in Nat
    BY <1>3 DEF AlertsOK
  <2> QED BY <1>2, <1>3, <2>1
<1>9. AlertsOK'
  BY <1>1, <1>8 DEF AlertsOK
<1>10. CountersOK'
  BY <1>1, <1>2, FailedOK
<1> QED BY <1>1, <1>7, <1>9, <1>10 DEF DecisionsOK, ProposalsOK

LEMMA MarkStep ==
  ASSUME ProposingInv, NEW a \in Agents, Mark(a)
  PROVE  ProposingInv'
<1> USE DEF ProposingInv
<1>1. Finish(a) /\ UNCHANGED <<decisions, proposals, similar, shown, cards, calls, failures>>
  BY DEF Mark
<1>2. CallsOK'
  BY <1>1, FinishOK
<1>3. mem[a].delivered \in BOOLEAN
  BY DEF Mark, At, CallsOK, Locals
<1>4. \A x \in alerts : [x EXCEPT !.delivered = mem[a].delivered]
                          \in [signal: Signals, delivered: BOOLEAN]
  BY <1>3 DEF AlertsOK
<1>5. alerts' \subseteq [signal: Signals, delivered: BOOLEAN]
  BY <1>4 DEF Mark, AlertsOK
<1>6. AlertsOK'
  BY <1>1, <1>5 DEF AlertsOK
<1> QED BY <1>1, <1>2, <1>6 DEF DecisionsOK, ProposalsOK, CountersOK

LEMMA RestartStep ==
  ASSUME ProposingInv, Restart
  PROVE  ProposingInv'
<1> USE DEF ProposingInv
<1>1. UNCHANGED <<decisions, proposals, alerts, similar, shown, cards, calls>> /\ Failed
      /\ pc' = [a \in Agents |-> "idle"] /\ mem' = [a \in Agents |-> Blank]
  BY DEF Restart
<1>2. pc' \in [Agents -> Places] /\ mem' \in [Agents -> Locals]
  BY <1>1, BlankOK DEF Places
<1>3. \A a \in Agents : CallOK(pc'[a], mem'[a], decisions', proposals')
  BY <1>1 DEF CallOK
<1>4. CallsOK'
  BY <1>2, <1>3 DEF CallsOK
<1>5. CountersOK'
  BY <1>1, FailedOK
<1> QED BY <1>1, <1>4, <1>5 DEF DecisionsOK, ProposalsOK, AlertsOK

LEMMA StillStep ==
  ASSUME ProposingInv, Measure \/ UNCHANGED vars
  PROVE  ProposingInv'
<1> USE DEF ProposingInv
<1>1. UNCHANGED <<decisions, proposals, alerts, pc, mem, shown, cards, calls, failures>>
  BY DEF Measure, vars
<1>2. similar' \in 0 .. MaxSimilar
  BY DEF Measure, vars, CountersOK
<1>3. CallsOK'
  BY <1>1, NoneMoves
<1> QED BY <1>1, <1>2, <1>3 DEF DecisionsOK, ProposalsOK, AlertsOK, CountersOK

LEMMA NextInv ==
  ASSUME ProposingInv, [Next]_vars
  PROVE  ProposingInv'
<1>1. CASE \E a \in Agents, s \in Signals : send_alert(a, s)
  BY <1>1, AlertStep
<1>2. CASE \E a \in Agents, s \in Signals, v \in Verdicts : save_decision(a, s, v)
  BY <1>2, SaveStep
<1>3. CASE \E a \in Agents : propose_trade(a)
  <2>1. PICK a \in Agents : propose_trade(a)
    BY <1>3
  <2>2. CASE \E d \in decisions, q \in Requests, e \in Equities : Propose(a, d.id, q, e)
    <3>1. PICK d \in decisions, q \in Requests, e \in Equities : Propose(a, d.id, q, e)
      BY <2>2
    <3>2. d.id \in Nat
      BY DEF ProposingInv, DecisionsOK, DecisionRow
    <3> QED BY <3>1, <3>2, ProposeStep
  <2>3. CASE ReadVerdict(a)
    BY <2>3, VerdictStep
  <2>4. CASE Recount(a)
    BY <2>4, RecountStep
  <2>5. CASE InsertProposal(a)
    BY <2>5, InsertStep
  <2>6. CASE Card(a)
    BY <2>6, CardStep
  <2> QED BY <2>1, <2>2, <2>3, <2>4, <2>5, <2>6 DEF propose_trade
<1>4. CASE \E a \in Agents : Post(a)
  BY <1>4, PostStep
<1>5. CASE \E a \in Agents : Mark(a)
  BY <1>5, MarkStep
<1>6. CASE Restart
  BY <1>6, RestartStep
<1>7. CASE Measure \/ UNCHANGED vars
  BY <1>7, StillStep
<1> QED BY <1>1, <1>2, <1>3, <1>4, <1>5, <1>6, <1>7 DEF Next

LEMMA InvHolds == Spec => []ProposingInv
  BY InitInv, NextInv, PTL DEF Spec

LEMMA InvTypes == ProposingInv => TypeOK
<1> SUFFICES ASSUME ProposingInv PROVE TypeOK
  OBVIOUS
<1>1. DecisionsOK(decisions) /\ CallsOK /\ ProposalsOK /\ AlertsOK /\ CountersOK
  BY DEF ProposingInv
<1> QED BY <1>1 DEF TypeOK, DecisionsOK, DecisionRow, CallsOK, Places, Locals,
                    ProposalsOK, ProposalRow, AlertsOK, CountersOK

LEMMA InvSound == ProposingInv => ProposalsSound
<1> SUFFICES ASSUME ProposingInv PROVE ProposalsSound
  OBVIOUS
<1>1. DecisionsOK(decisions) /\ ProposalsOK
  BY DEF ProposingInv
<1>2. ProposedOnce
  <2>1. ASSUME NEW p \in proposals, NEW q \in proposals, p.signal = q.signal
        PROVE  p = q
    <3>1. PICK d \in decisions : d.id = p.id /\ d.signal = p.signal
      BY <1>1 DEF ProposalsOK, FoundedIn
    <3>2. PICK e \in decisions : e.id = q.id /\ e.signal = q.signal
      BY <1>1 DEF ProposalsOK, FoundedIn
    <3>3. d = e
      BY <1>1, <2>1, <3>1, <3>2 DEF DecisionsOK
    <3> QED BY <1>1, <3>1, <3>2, <3>3 DEF ProposalsOK
  <2> QED BY <2>1 DEF ProposedOnce
<1>3. Founded
  BY <1>1 DEF Founded, ProposalsOK, FoundedIn
<1>4. Sized
  BY <1>1 DEF Sized, ProposalsOK, SizedBy
<1> QED BY <1>2, <1>3, <1>4 DEF ProposalsSound

(***************************************************************************)
(* Alerts and cards.  Every alert that was not shown, or shown and not     *)
(* marked, and every proposal whose card nobody saw has a call at work on  *)
(* it or counts against the failures: a post that fails leaves one of      *)
(* them, and a restart at most one for each shift.                         *)
(***************************************************************************)
Working(a) == pc[a] \in {"post", "mark"}
Busy(a) == pc[a] = "post" \/ (pc[a] = "mark" /\ mem[a].delivered)

\* Alerts and proposals that nobody is going to show or to mark any more.
Owed == {s \in Signals : /\ AlertRow(s) \in alerts
                         /\ \A a \in Agents : Busy(a) => mem[a].signal # s}
Due == {i \in {p.id : p \in proposals} \ cards :
          \A a \in Agents : pc[a] = "card" => mem[a].id # i}

AlertRows ==
  /\ \A s \in Signals : shown[s] \in {0, 1}
  /\ \A x, y \in alerts : x.signal = y.signal => x = y
  /\ \A x \in alerts : x.delivered => shown[x.signal] = 1
  /\ \A s \in Signals : shown[s] # 0 => \E x \in alerts : x.signal = s
AlertWork ==
  /\ \A a \in Agents : Working(a) =>
       /\ AlertRow(mem[a].signal) \in alerts
       /\ pc[a] = "post" => shown[mem[a].signal] = 0
       /\ pc[a] = "mark" /\ mem[a].delivered => shown[mem[a].signal] = 1
  /\ \A a, b \in Agents : Working(a) /\ Working(b) /\ mem[a].signal = mem[b].signal => a = b
DebtInv ==
  Webhook => /\ IsFiniteSet(Owed) /\ IsFiniteSet(Due)
             /\ Cardinality(Owed) + Cardinality(Due) <= failures * Cardinality(Agents)
AlertInv == AlertRows /\ AlertWork /\ DebtInv

LEMMA AgentsCounted == Cardinality(Agents) \in Nat /\ IsFiniteSet(Agents)
  BY ProposingAssumption, FS_CardinalityType

\* A set that grows by no more than the elements of another.
LEMMA GrowsBy ==
  ASSUME NEW S, NEW T, NEW D, IsFiniteSet(S), IsFiniteSet(D), T \subseteq S \cup D
  PROVE  /\ IsFiniteSet(T) /\ Cardinality(T) <= Cardinality(S) + Cardinality(D)
         /\ Cardinality(T) \in Nat /\ Cardinality(S) \in Nat /\ Cardinality(D) \in Nat
<1>1. /\ IsFiniteSet(S \cup D)
      /\ Cardinality(S \cup D) = Cardinality(S) + Cardinality(D) - Cardinality(S \cap D)
  BY FS_Union, Zenon
<1>2. IsFiniteSet(S \cap D)
  BY FS_Intersection
<1>3. T \in SUBSET (S \cup D)
  OBVIOUS
<1>4. IsFiniteSet(T) /\ Cardinality(T) <= Cardinality(S \cup D)
  BY <1>1, <1>3, FS_Subset, Zenon
<1>5. /\ Cardinality(S) \in Nat /\ Cardinality(D) \in Nat /\ Cardinality(S \cap D) \in Nat
      /\ Cardinality(T) \in Nat
  BY <1>2, <1>4, FS_CardinalityType
<1> QED BY <1>1, <1>4, <1>5

LEMMA DebtSame ==
  ASSUME DebtInv, failures \in Nat, failures' = failures, Owed' \subseteq Owed, Due' \subseteq Due
  PROVE  DebtInv'
<1> SUFFICES ASSUME Webhook
             PROVE  /\ IsFiniteSet(Owed') /\ IsFiniteSet(Due')
                    /\ Cardinality(Owed') + Cardinality(Due') <= failures * Cardinality(Agents)
  BY DEF DebtInv
<1>1. /\ IsFiniteSet(Owed) /\ IsFiniteSet(Due)
      /\ Cardinality(Owed) + Cardinality(Due) <= failures * Cardinality(Agents)
  BY DEF DebtInv
<1>2. Owed' \in SUBSET Owed /\ Due' \in SUBSET Due
  OBVIOUS
<1>3. /\ IsFiniteSet(Owed') /\ Cardinality(Owed') <= Cardinality(Owed)
      /\ IsFiniteSet(Due') /\ Cardinality(Due') <= Cardinality(Due)
  BY <1>1, <1>2, FS_Subset
<1>4. /\ Cardinality(Owed') \in Nat /\ Cardinality(Owed) \in Nat
      /\ Cardinality(Due') \in Nat /\ Cardinality(Due) \in Nat
  BY <1>1, <1>3, FS_CardinalityType
<1> DEFINE bound == failures * Cardinality(Agents)
<1>5. bound \in Nat
  BY AgentsCounted, Products
<1>6. Cardinality(Owed) + Cardinality(Due) <= bound
  BY <1>1
<1> HIDE DEF bound
<1>7. Cardinality(Owed') + Cardinality(Due') <= bound
  BY <1>3, <1>4, <1>5, <1>6
<1> QED BY <1>3, <1>7 DEF bound

\* A failure pays for one alert or card of each shift.
LEMMA DebtGrows ==
  ASSUME DebtInv, failures \in Nat, failures' = failures + 1,
         NEW S, NEW T, IsFiniteSet(S), IsFiniteSet(T),
         Cardinality(S) + Cardinality(T) <= Cardinality(Agents),
         Owed' \subseteq Owed \cup S, Due' \subseteq Due \cup T
  PROVE  DebtInv'
<1> SUFFICES ASSUME Webhook
             PROVE  /\ IsFiniteSet(Owed') /\ IsFiniteSet(Due')
                    /\ Cardinality(Owed') + Cardinality(Due') <= failures' * Cardinality(Agents)
  BY DEF DebtInv
<1>1. /\ IsFiniteSet(Owed) /\ IsFiniteSet(Due)
      /\ Cardinality(Owed) + Cardinality(Due) <= failures * Cardinality(Agents)
  BY DEF DebtInv
<1>2. /\ IsFiniteSet(Owed') /\ Cardinality(Owed') <= Cardinality(Owed) + Cardinality(S)
      /\ Cardinality(Owed') \in Nat /\ Cardinality(Owed) \in Nat /\ Cardinality(S) \in Nat
  BY <1>1, GrowsBy
<1>3. /\ IsFiniteSet(Due') /\ Cardinality(Due') <= Cardinality(Due) + Cardinality(T)
      /\ Cardinality(Due') \in Nat /\ Cardinality(Due) \in Nat /\ Cardinality(T) \in Nat
  BY <1>1, GrowsBy
<1> DEFINE n == Cardinality(Agents)
<1>4. n \in Nat
  BY AgentsCounted
<1>5. failures' * n = failures * n + n /\ failures * n \in Nat
  <2> HIDE DEF n
  <2> QED BY <1>4
<1> HIDE DEF n
<1>6. /\ Cardinality(S) + Cardinality(T) <= n
      /\ Cardinality(Owed) + Cardinality(Due) <= failures * n
  BY <1>1 DEF n
<1>7. Cardinality(Owed') + Cardinality(Due') <= failures' * n
  BY <1>2, <1>3, <1>4, <1>5, <1>6
<1> QED BY <1>2, <1>3, <1>7 DEF n

\* A post that fails leaves one alert, or one card, behind.
LEMMA DebtOne ==
  ASSUME DebtInv, failures \in Nat, failures' = failures + 1, NEW a \in Agents, NEW e,
         \/ Owed' \subseteq Owed \cup {e} /\ Due' \subseteq Due
         \/ Owed' \subseteq Owed /\ Due' \subseteq Due \cup {e}
  PROVE  DebtInv'
<1>1. /\ IsFiniteSet({}) /\ Cardinality({}) = 0
      /\ IsFiniteSet({e}) /\ Cardinality({e}) = 1
  BY FS_EmptySet, FS_Singleton
<1>2. Cardinality(Agents) >= 1
  <2>1. {a} \in SUBSET Agents
    OBVIOUS
  <2>2. Cardinality({a}) = 1 /\ Cardinality({a}) <= Cardinality(Agents)
    BY <2>1, AgentsCounted, FS_Singleton, FS_Subset
  <2> QED BY <2>2, AgentsCounted
<1>3. /\ Cardinality({e}) + Cardinality({}) <= Cardinality(Agents)
      /\ Cardinality({}) + Cardinality({e}) <= Cardinality(Agents)
  BY <1>1, <1>2, AgentsCounted
<1>4. CASE Owed' \subseteq Owed \cup {e} /\ Due' \subseteq Due
  <2>1. Due' \subseteq Due \cup {}
    BY <1>4
  <2> QED BY <1>1, <1>3, <1>4, <2>1, DebtGrows
<1>5. CASE Owed' \subseteq Owed /\ Due' \subseteq Due \cup {e}
  <2>1. Owed' \subseteq Owed \cup {}
    BY <1>5
  <2> QED BY <1>1, <1>3, <1>5, <2>1, DebtGrows
<1> QED BY <1>4, <1>5

\* A step that leaves the alerts to the calls that were at work on them.
LEMMA AlertsStill ==
  ASSUME AlertRows, AlertWork, UNCHANGED <<alerts, shown>>,
         \A b \in Agents : \/ pc'[b] = pc[b] /\ mem'[b] = mem[b]
                           \/ pc[b] \notin {"post", "mark"} /\ pc'[b] \notin {"post", "mark"}
  PROVE  AlertRows' /\ AlertWork' /\ Owed' = Owed
<1>1. AlertRows'
  BY DEF AlertRows
<1>2. \A b \in Agents : /\ Working(b)' <=> Working(b)
                        /\ Working(b) => pc'[b] = pc[b] /\ mem'[b] = mem[b]
                        /\ Busy(b)' <=> Busy(b)
                        /\ Busy(b) => mem'[b] = mem[b]
  BY DEF Working, Busy
<1>3. AlertWork'
  <2>1. ASSUME NEW a \in Agents, Working(a)'
        PROVE  /\ AlertRow(mem'[a].signal) \in alerts
               /\ pc'[a] = "post" => shown[mem'[a].signal] = 0
               /\ pc'[a] = "mark" /\ mem'[a].delivered => shown[mem'[a].signal] = 1
    BY <1>2, <2>1 DEF AlertWork
  <2>2. ASSUME NEW a \in Agents, NEW b \in Agents, Working(a)', Working(b)',
               mem'[a].signal = mem'[b].signal
        PROVE  a = b
    BY <1>2, <2>2 DEF AlertWork
  <2> QED BY <2>1, <2>2 DEF AlertWork
<1>4. Owed' = Owed
  <2>1. ASSUME NEW s \in Signals
        PROVE  (\A a \in Agents : Busy(a)' => mem'[a].signal # s)
                 <=> (\A a \in Agents : Busy(a) => mem[a].signal # s)
    BY <1>2
  <2> QED BY <2>1 DEF Owed
<1> QED BY <1>1, <1>3, <1>4

\* A step that leaves the proposals to the calls that are to post their cards.
LEMMA CardsStill ==
  ASSUME UNCHANGED <<proposals, cards>>,
         \A b \in Agents : \/ pc'[b] = pc[b] /\ mem'[b] = mem[b]
                           \/ pc[b] # "card" /\ pc'[b] # "card"
  PROVE  Due' = Due
<1>1. \A i : (\A a \in Agents : pc'[a] = "card" => mem'[a].id # i)
               <=> (\A a \in Agents : pc[a] = "card" => mem[a].id # i)
  OBVIOUS
<1> QED BY <1>1 DEF Due


\* Calls other than a stay where they are.
Alone(a) == \A b \in Agents \ {a} : pc'[b] = pc[b] /\ mem'[b] = mem[b]

LEMMA MoveAlone ==
  ASSUME CallsOK, NEW a \in Agents, NEW w, NEW m, Goto(a, w), Keep(a, m)
  PROVE  pc'[a] = w /\ mem'[a] = m /\ Alone(a)
  BY DEF CallsOK, Goto, Keep, Alone

LEMMA FinishAlone ==
  ASSUME CallsOK, NEW a \in Agents, Finish(a)
  PROVE  pc'[a] = "idle" /\ Alone(a)
  BY MoveAlone DEF Finish

\* Calls of propose_trade up to its INSERT, verdicts and outcomes owe nothing.
LEMMA QuietDebt ==
  ASSUME ProposingInv, AlertInv, UNCHANGED <<alerts, shown, proposals, cards, failures>>,
         \A b \in Agents : \/ pc'[b] = pc[b] /\ mem'[b] = mem[b]
                           \/ /\ pc[b] \notin {"post", "mark", "card"}
                              /\ pc'[b] \notin {"post", "mark", "card"}
  PROVE  AlertInv'
<1>1. AlertRows' /\ AlertWork' /\ Owed' = Owed
  BY AlertsStill DEF AlertInv
<1>2. Due' = Due
  BY CardsStill
<1>3. failures \in Nat
  BY DEF ProposingInv, CountersOK
<1>4. DebtInv'
  BY <1>1, <1>2, <1>3, DebtSame DEF AlertInv
<1> QED BY <1>1, <1>4 DEF AlertInv

LEMMA ProposeDebt ==
  ASSUME ProposingInv, AlertInv, NEW a \in Agents,
         \/ \E d \in decisions, q \in Requests, e \in Equities : Propose(a, d.id, q, e)
         \/ ReadVerdict(a) \/ Recount(a)
  PROVE  AlertInv'
<1>c. CallsOK
  BY DEF ProposingInv
<1>1. CASE \E d \in decisions, q \in Requests, e \in Equities : Propose(a, d.id, q, e)
  <2>1. PICK d \in decisions, q \in Requests, e \in Equities : Propose(a, d.id, q, e)
    BY <1>1
  <2>2. PICK size \in Sizes(q, e) :
          Keep(a, [Blank EXCEPT !.id = d.id, !.size = size, !.loss = LossFor(q, size),
                                !.equity = e, !.req = {q}])
    BY <2>1 DEF Propose
  <2>3. Goto(a, "verdict") /\ pc[a] = "idle"
    BY <2>1 DEF Propose, Call, At
  <2>4. pc'[a] = "verdict" /\ Alone(a)
    BY <1>c, <2>2, <2>3, MoveAlone
  <2>5. UNCHANGED <<alerts, shown, proposals, cards, failures>>
    BY <2>1 DEF Propose
  <2> QED BY <2>3, <2>4, <2>5, QuietDebt DEF Alone
<1>2. CASE ReadVerdict(a)
  <2>1. pc[a] = "verdict" /\ UNCHANGED <<alerts, shown, proposals, cards, failures>>
    BY <1>2 DEF ReadVerdict, At
  <2>2. CASE Finish(a)
    BY <1>c, <2>1, <2>2, FinishAlone, QuietDebt DEF Alone
  <2>3. CASE \E d \in decisions :
               /\ Keep(a, [mem[a] EXCEPT !.signal = d.signal, !.write = d.write])
               /\ Goto(a, "count")
    <3>1. pc'[a] = "count" /\ Alone(a)
      BY <1>c, <2>3, MoveAlone
    <3> QED BY <2>1, <3>1, QuietDebt DEF Alone
  <2>4. Finish(a) \/ \E d \in decisions :
          /\ Keep(a, [mem[a] EXCEPT !.signal = d.signal, !.write = d.write])
          /\ Goto(a, "count")
    <3> DEFINE rows == {d \in decisions : d.id = mem[a].id /\ Stands(d)}
               d == CHOOSE d \in rows : TRUE
    <3>1. CASE rows = {}
      BY <1>2, <3>1 DEF ReadVerdict
    <3>2. CASE rows # {}
      <4>1. d \in rows
        BY <3>2
      <4>2. /\ Keep(a, [mem[a] EXCEPT !.signal = d.signal, !.write = d.write])
            /\ Goto(a, "count")
        BY <1>2, <3>2 DEF ReadVerdict
      <4> HIDE DEF d
      <4> QED BY <4>1, <4>2
    <3> QED BY <3>1, <3>2
  <2> QED BY <2>2, <2>3, <2>4
<1>3. CASE Recount(a)
  <2>1. pc[a] = "count" /\ UNCHANGED <<alerts, shown, proposals, cards, failures>>
    BY <1>3 DEF Recount, At
  <2>2. CASE Finish(a)
    BY <1>c, <2>1, <2>2, FinishAlone, QuietDebt DEF Alone
  <2>3. CASE Goto(a, "insert") /\ UNCHANGED mem
    <3>1. pc'[a] = "insert" /\ Alone(a)
      BY <1>c, <2>3 DEF CallsOK, Goto, Alone
    <3> QED BY <2>1, <3>1, QuietDebt DEF Alone
  <2> QED BY <1>3, <2>2, <2>3 DEF Recount
<1> QED BY <1>1, <1>2, <1>3

\* The row of a proposal comes with the call that is to post its card.
LEMMA InsertDebt ==
  ASSUME ProposingInv, AlertInv, NEW a \in Agents, InsertProposal(a)
  PROVE  AlertInv'
<1>c. CallsOK /\ failures \in Nat
  BY DEF ProposingInv, CountersOK
<1>1. pc[a] = "insert" /\ UNCHANGED <<alerts, shown, cards, failures>>
  BY DEF InsertProposal, At
<1>2. CASE Finish(a) /\ UNCHANGED proposals
  BY <1>c, <1>1, <1>2, FinishAlone, QuietDebt DEF Alone
<1>3. CASE ~(Finish(a) /\ UNCHANGED proposals)
  <2> DEFINE row == [id |-> mem[a].id, signal |-> mem[a].signal, write |-> mem[a].write,
                     size |-> mem[a].size, loss |-> mem[a].loss, equity |-> mem[a].equity,
                     req |-> Req(a)]
             m == [Blank EXCEPT !.id = mem[a].id]
  <2>1. proposals' = proposals \cup {row} /\ Keep(a, m) /\ Goto(a, "card")
    BY <1>3 DEF InsertProposal
  <2>2. row.id = mem[a].id /\ m.id = mem[a].id
    BY DEF Blank
  <2> HIDE DEF row, m
  <2>3. pc'[a] = "card" /\ mem'[a] = m /\ Alone(a)
    BY <1>c, <2>1, MoveAlone
  <2>4. AlertRows' /\ AlertWork' /\ Owed' = Owed
    BY <1>1, <2>3, AlertsStill DEF Alone, AlertInv
  <2>5. ASSUME NEW i \in Due' PROVE i \in Due
    <3>1. i # mem[a].id /\ i \notin cards
      BY <1>1, <2>2, <2>3, <2>5 DEF Due
    <3>2. i \in {p.id : p \in proposals}
      BY <2>1, <2>2, <2>5, <3>1 DEF Due
    <3>3. \A b \in Agents : pc[b] = "card" => mem[b].id # i
      BY <1>1, <2>3, <2>5 DEF Due, Alone
    <3> QED BY <3>1, <3>2, <3>3 DEF Due
  <2>6. DebtInv'
    BY <1>c, <1>1, <2>4, <2>5, DebtSame DEF AlertInv
  <2> QED BY <2>4, <2>6 DEF AlertInv
<1> QED BY <1>2, <1>3

LEMMA CardDebt ==
  ASSUME ProposingInv, AlertInv, NEW a \in Agents, Card(a)
  PROVE  AlertInv'
<1>c. CallsOK /\ failures \in Nat
  BY DEF ProposingInv, CountersOK
<1>1. pc[a] = "card" /\ Finish(a) /\ UNCHANGED <<alerts, shown, proposals>>
  BY DEF Card, At
<1>2. pc'[a] = "idle" /\ Alone(a)
  BY <1>c, <1>1, FinishAlone
<1>3. AlertRows' /\ AlertWork' /\ Owed' = Owed
  BY <1>1, <1>2, AlertsStill DEF Alone, AlertInv
<1>4. CASE cards' = cards \cup {mem[a].id} /\ UNCHANGED failures
  <2>1. ASSUME NEW i \in Due' PROVE i \in Due
    <3>1. i # mem[a].id /\ i \notin cards /\ i \in {p.id : p \in proposals}
      BY <1>1, <1>4, <2>1 DEF Due
    <3>2. \A b \in Agents : pc[b] = "card" => mem[b].id # i
      BY <1>2, <2>1, <3>1 DEF Due, Alone
    <3> QED BY <3>1, <3>2 DEF Due
  <2>2. DebtInv'
    BY <1>c, <1>3, <1>4, <2>1, DebtSame DEF AlertInv
  <2> QED BY <1>3, <2>2 DEF AlertInv
<1>5. CASE UNCHANGED cards /\ Failed
  <2>1. ASSUME NEW i \in Due', i # mem[a].id PROVE i \in Due
    <3>1. i \notin cards /\ i \in {p.id : p \in proposals}
      BY <1>1, <1>5, <2>1 DEF Due
    <3>2. \A b \in Agents : pc[b] = "card" => mem[b].id # i
      BY <1>2, <2>1 DEF Due, Alone
    <3> QED BY <3>1, <3>2 DEF Due
  <2>2. Due' \subseteq Due \cup {mem[a].id}
    BY <2>1
  <2>3. failures' = failures + 1
    BY <1>5 DEF Failed
  <2>4. DebtInv'
    BY <1>c, <1>3, <2>2, <2>3, DebtOne DEF AlertInv
  <2> QED BY <1>3, <2>4 DEF AlertInv
<1> QED BY <1>4, <1>5 DEF Card


\* A new alert comes with the call that is to post it.
LEMMA SendDebt ==
  ASSUME ProposingInv, AlertInv, NEW a \in Agents, NEW s \in Signals, send_alert(a, s)
  PROVE  AlertInv'
<1>c. CallsOK /\ AlertsOK /\ failures \in Nat
  BY DEF ProposingInv, CountersOK
<1>1. pc[a] = "idle" /\ UNCHANGED <<proposals, shown, cards, failures>>
  BY DEF send_alert, Call, At
<1>2. CASE UNCHANGED <<alerts, pc, mem>>
  BY <1>1, <1>2, QuietDebt
<1>3. CASE ~\E x \in alerts : x.signal = s
  <2>1. /\ alerts' = alerts \cup {AlertRow(s)}
        /\ IF Webhook THEN Keep(a, [Blank EXCEPT !.signal = s]) /\ Goto(a, "post")
                      ELSE UNCHANGED <<pc, mem>>
    BY <1>3 DEF send_alert, InsertAlert
  <2>2. AlertRow(s).signal = s /\ AlertRow(s).delivered = FALSE
    BY DEF AlertRow
  <2>3. shown[s] = 0
    BY <1>3 DEF AlertInv, AlertRows
  <2>4. AlertRows'
    <3>1. \A x, y \in alerts' : x.signal = y.signal => x = y
      BY <1>3, <2>1, <2>2 DEF AlertInv, AlertRows
    <3>2. \A x \in alerts' : x.delivered => shown[x.signal] = 1
      BY <2>1, <2>2 DEF AlertInv, AlertRows
    <3>3. \A t \in Signals : shown[t] # 0 => \E x \in alerts' : x.signal = t
      BY <2>1 DEF AlertInv, AlertRows
    <3> QED BY <1>1, <3>1, <3>2, <3>3 DEF AlertInv, AlertRows
  <2>5. CASE ~Webhook
    <3>1. UNCHANGED <<pc, mem>>
      BY <2>1, <2>5
    <3>2. AlertWork'
      BY <1>1, <2>1, <3>1 DEF AlertInv, AlertWork, Working
    <3> QED BY <2>4, <2>5, <3>2 DEF AlertInv, DebtInv
  <2>6. CASE Webhook
    <3> DEFINE m == [Blank EXCEPT !.signal = s]
    <3>1. Keep(a, m) /\ Goto(a, "post") /\ m.signal = s
      BY <2>1, <2>6 DEF Blank
    <3> HIDE DEF m
    <3>2. pc'[a] = "post" /\ mem'[a].signal = s /\ Alone(a)
      BY <1>c, <3>1, MoveAlone
    <3>3. \A b \in Agents : Working(b) => mem[b].signal # s /\ AlertRow(mem[b].signal) \in alerts
      BY <1>3 DEF AlertInv, AlertWork, AlertRow
    <3>4. \A b \in Agents \ {a} : (Working(b)' <=> Working(b)) /\ (Busy(b)' <=> Busy(b))
      BY <3>2 DEF Alone, Working, Busy
    <3>5. AlertWork'
      <4>1. ASSUME NEW b \in Agents, Working(b)'
            PROVE  /\ AlertRow(mem'[b].signal) \in alerts'
                   /\ pc'[b] = "post" => shown'[mem'[b].signal] = 0
                   /\ pc'[b] = "mark" /\ mem'[b].delivered => shown'[mem'[b].signal] = 1
        <5>1. CASE b = a
          BY <1>1, <2>1, <2>3, <3>2, <5>1
        <5>2. CASE b # a
          <6>1. pc'[b] = pc[b] /\ mem'[b] = mem[b] /\ Working(b)
            BY <3>2, <3>4, <4>1, <5>2 DEF Alone
          <6> QED BY <1>1, <2>1, <6>1 DEF AlertInv, AlertWork
        <5> QED BY <5>1, <5>2
      <4>2. ASSUME NEW b \in Agents, NEW d \in Agents, Working(b)', Working(d)',
                   mem'[b].signal = mem'[d].signal
            PROVE  b = d
        <5>1. \A e \in Agents \ {a} : Working(e)' => Working(e) /\ mem'[e].signal # s
          BY <3>2, <3>3, <3>4 DEF Alone
        <5>2. CASE b = a \/ d = a
          BY <3>2, <4>2, <5>1, <5>2
        <5>3. CASE b # a /\ d # a
          <6>1. mem'[b] = mem[b] /\ mem'[d] = mem[d] /\ Working(b) /\ Working(d)
            BY <3>2, <4>2, <5>1, <5>3 DEF Alone
          <6> QED BY <4>2, <6>1 DEF AlertInv, AlertWork
        <5> QED BY <5>2, <5>3
      <4> QED BY <4>1, <4>2 DEF AlertWork
    <3>6. Owed' \subseteq Owed
      <4>1. ASSUME NEW t \in Owed' PROVE t \in Owed
        <5>1. t # s /\ t \in Signals
          BY <3>2, <4>1 DEF Owed, Busy
        <5>2. AlertRow(t) \in alerts
          BY <2>1, <4>1, <5>1 DEF Owed, AlertRow
        <5>3. \A b \in Agents : Busy(b) => mem[b].signal # t
          <6>1. ~Busy(a)
            BY <1>1 DEF Busy
          <6> QED BY <3>2, <3>4, <4>1, <6>1 DEF Owed, Alone
        <5> QED BY <5>1, <5>2, <5>3 DEF Owed
      <4> QED BY <4>1
    <3>7. Due' = Due
      BY <1>1, <3>2, CardsStill DEF Alone
    <3>8. DebtInv'
      BY <1>c, <1>1, <3>6, <3>7, DebtSame DEF AlertInv
    <3> QED BY <2>4, <3>5, <3>8 DEF AlertInv
  <2> QED BY <2>5, <2>6
<1> QED BY <1>2, <1>3 DEF send_alert, InsertAlert

LEMMA PostDebt ==
  ASSUME ProposingInv, AlertInv, NEW a \in Agents, Post(a)
  PROVE  AlertInv'
<1>c. CallsOK /\ AlertsOK /\ failures \in Nat
  BY DEF ProposingInv, CountersOK
<1> DEFINE s == mem[a].signal
<1>1. pc[a] = "post" /\ UNCHANGED <<alerts, proposals, cards>> /\ Goto(a, "mark")
  BY DEF Post, At
<1>2. PICK seen, told \in BOOLEAN :
        /\ told => seen
        /\ shown' = [shown EXCEPT ![mem[a].signal] = IF seen THEN @ + 1 ELSE @]
        /\ Keep(a, [mem[a] EXCEPT !.delivered = told])
        /\ IF told THEN UNCHANGED failures ELSE Failed
  BY DEF Post
<1> DEFINE m == [mem[a] EXCEPT !.delivered = told]
<1>3. mem[a] \in Locals /\ s \in Signals /\ m.signal = s /\ m.delivered = told
  BY <1>1 DEF CallsOK, CallOK, ProposingInv, Locals
<1>4. Keep(a, m)
  BY <1>2
<1> HIDE DEF m
<1>5. pc'[a] = "mark" /\ mem'[a] = m /\ Alone(a)
  BY <1>c, <1>1, <1>4, MoveAlone
<1>6. Working(a) /\ Working(a)' /\ (Busy(a)' <=> told) /\ mem'[a].signal = s
  BY <1>1, <1>3, <1>5 DEF Working, Busy
<1>7. AlertRow(s) \in alerts /\ shown[s] = 0
      /\ \A b \in Agents \ {a} : Working(b) => mem[b].signal # s
  BY <1>1, <1>6 DEF AlertInv, AlertWork
<1> HIDE DEF s
<1>8. /\ shown'[s] \in {0, 1} /\ (told => shown'[s] = 1)
      /\ \A t \in Signals \ {s} : shown'[t] = shown[t]
  <2>1. shown \in [Signals -> Nat] /\ shown' = [shown EXCEPT ![s] = IF seen THEN @ + 1 ELSE @]
    BY <1>c, <1>2 DEF AlertsOK, s
  <2> QED BY <1>2, <1>3, <1>7, <2>1
<1>9. \A x \in alerts : x.signal \in Signals /\ (x.delivered => x.signal # s)
  <2>1. \A x \in alerts : x.signal \in Signals
    BY <1>c DEF AlertsOK
  <2>2. \A x \in alerts : x.delivered => shown[x.signal] = 1
    BY DEF AlertInv, AlertRows
  <2> QED BY <1>7, <2>1, <2>2
<1>10. AlertRows'
  <2>1. \A t \in Signals : shown'[t] \in {0, 1}
    BY <1>8 DEF AlertInv, AlertRows
  <2>2. \A x \in alerts' : x.delivered => shown'[x.signal] = 1
    BY <1>1, <1>8, <1>9 DEF AlertInv, AlertRows
  <2>3. \A t \in Signals : shown'[t] # 0 => \E x \in alerts' : x.signal = t
    <3>1. \E x \in alerts : x.signal = s
      BY <1>7 DEF AlertRow
    <3> QED BY <1>1, <1>8, <3>1 DEF AlertInv, AlertRows
  <2> QED BY <1>1, <2>1, <2>2, <2>3 DEF AlertInv, AlertRows
<1>11. \A b \in Agents \ {a} : /\ pc'[b] = pc[b] /\ mem'[b] = mem[b]
                               /\ Working(b)' <=> Working(b)
                               /\ Busy(b)' <=> Busy(b)
  BY <1>5 DEF Alone, Working, Busy
<1>12. AlertWork'
  <2>1. ASSUME NEW b \in Agents, Working(b)'
        PROVE  /\ AlertRow(mem'[b].signal) \in alerts'
               /\ pc'[b] = "post" => shown'[mem'[b].signal] = 0
               /\ pc'[b] = "mark" /\ mem'[b].delivered => shown'[mem'[b].signal] = 1
    <3>1. CASE b = a
      BY <1>1, <1>3, <1>5, <1>7, <1>8, <3>1
    <3>2. CASE b # a
      <4>1. pc'[b] = pc[b] /\ mem'[b] = mem[b] /\ Working(b) /\ mem[b].signal # s
        BY <1>7, <1>11, <2>1, <3>2
      <4>2. mem[b].signal \in Signals
        BY <1>c, <4>1 DEF CallsOK, CallOK, Working
      <4>3. shown'[mem[b].signal] = shown[mem[b].signal]
        BY <1>8, <4>1, <4>2
      <4> QED BY <1>1, <4>1, <4>3 DEF AlertInv, AlertWork
    <3> QED BY <3>1, <3>2
  <2>2. ASSUME NEW b \in Agents, NEW d \in Agents, Working(b)', Working(d)',
               mem'[b].signal = mem'[d].signal
        PROVE  b = d
    <3>1. CASE b = a \/ d = a
      BY <1>6, <1>7, <1>11, <2>2, <3>1
    <3>2. CASE b # a /\ d # a
      BY <1>11, <2>2, <3>2 DEF AlertInv, AlertWork
    <3> QED BY <3>1, <3>2
  <2> QED BY <2>1, <2>2 DEF AlertWork
<1>13. Due' = Due
  BY <1>1, <1>5, CardsStill DEF Alone
<1>14. ASSUME NEW t \in Owed', t # s PROVE t \in Owed
  <2>1. t \in Signals /\ AlertRow(t) \in alerts
    BY <1>1, <1>14 DEF Owed
  <2>2. \A b \in Agents : Busy(b) => mem[b].signal # t
    BY <1>11, <1>14 DEF Owed, s
  <2> QED BY <2>1, <2>2 DEF Owed
<1>15. DebtInv'
  <2>1. CASE told
    <3>1. s \notin Owed'
      BY <1>6, <2>1 DEF Owed
    <3>2. Owed' \subseteq Owed /\ failures' = failures
      BY <1>2, <1>14, <2>1, <3>1
    <3> QED BY <1>c, <1>13, <3>2, DebtSame DEF AlertInv
  <2>2. CASE ~told
    <3>1. Owed' \subseteq Owed \cup {s} /\ failures' = failures + 1
      BY <1>2, <1>14, <2>2 DEF Failed
    <3> QED BY <1>c, <1>13, <3>1, DebtOne DEF AlertInv
  <2> QED BY <2>1, <2>2
<1> QED BY <1>10, <1>12, <1>15 DEF AlertInv


LEMMA MarkDebt ==
  ASSUME ProposingInv, AlertInv, NEW a \in Agents, Mark(a)
  PROVE  AlertInv'
<1>c. CallsOK /\ AlertsOK /\ failures \in Nat
  BY DEF ProposingInv, CountersOK
<1> DEFINE s == mem[a].signal
           d == mem[a].delivered
           New(x) == IF x.signal = s THEN [x EXCEPT !.delivered = d] ELSE x
<1>1. /\ pc[a] = "mark" /\ UNCHANGED <<proposals, shown, cards, failures>>
      /\ alerts' = {New(x) : x \in alerts} /\ Finish(a)
  BY DEF Mark, At
<1>2. s \in Signals /\ d \in BOOLEAN
  BY <1>1 DEF CallsOK, CallOK, ProposingInv, Locals
<1>3. pc'[a] = "idle" /\ Alone(a)
  BY <1>c, <1>1, FinishAlone
<1>4. Working(a) /\ ~Working(a)' /\ ~Busy(a)' /\ (Busy(a) <=> d)
  BY <1>1, <1>3 DEF Working, Busy
<1>5. AlertRow(s) \in alerts /\ (d => shown[s] = 1)
      /\ \A b \in Agents \ {a} : Working(b) => mem[b].signal # s
  BY <1>1, <1>4 DEF AlertInv, AlertWork
<1>6. \A b \in Agents \ {a} : /\ pc'[b] = pc[b] /\ mem'[b] = mem[b]
                              /\ Working(b)' <=> Working(b)
                              /\ Busy(b)' <=> Busy(b)
  BY <1>3 DEF Alone, Working, Busy
<1>7. \A x \in alerts : /\ New(x).signal = x.signal
                        /\ x.signal = s => New(x).delivered = d
                        /\ x.signal # s => New(x) = x
  BY <1>c DEF AlertsOK
<1> HIDE DEF s, d, New
<1>8. AlertRows'
  <2>1. ASSUME NEW x \in alerts', NEW y \in alerts', x.signal = y.signal
        PROVE  x = y
    <3>1. PICK p \in alerts : x = New(p)
      BY <1>1
    <3>2. PICK q \in alerts : y = New(q)
      BY <1>1
    <3>3. p = q
      BY <1>7, <2>1, <3>1, <3>2 DEF AlertInv, AlertRows
    <3> QED BY <3>1, <3>2, <3>3
  <2>2. ASSUME NEW x \in alerts', x.delivered
        PROVE  shown'[x.signal] = 1
    <3>1. PICK p \in alerts : x = New(p)
      BY <1>1
    <3>2. CASE p.signal = s
      BY <1>1, <1>5, <1>7, <2>2, <3>1, <3>2
    <3>3. CASE p.signal # s
      BY <1>1, <1>7, <2>2, <3>1, <3>3 DEF AlertInv, AlertRows
    <3> QED BY <3>2, <3>3
  <2>3. ASSUME NEW t \in Signals, shown'[t] # 0
        PROVE  \E x \in alerts' : x.signal = t
    <3>1. PICK p \in alerts : p.signal = t
      BY <1>1, <2>3 DEF AlertInv, AlertRows
    <3>2. New(p) \in alerts' /\ New(p).signal = t
      BY <1>1, <1>7, <3>1
    <3> QED BY <3>2
  <2> QED BY <1>1, <2>1, <2>2, <2>3 DEF AlertInv, AlertRows
<1>9. AlertWork'
  <2>1. ASSUME NEW b \in Agents, Working(b)'
        PROVE  /\ AlertRow(mem'[b].signal) \in alerts'
               /\ pc'[b] = "post" => shown'[mem'[b].signal] = 0
               /\ pc'[b] = "mark" /\ mem'[b].delivered => shown'[mem'[b].signal] = 1
    <3>1. b # a
      BY <1>4, <2>1
    <3>2. pc'[b] = pc[b] /\ mem'[b] = mem[b] /\ Working(b) /\ mem[b].signal # s
      BY <1>5, <1>6, <2>1, <3>1
    <3>3. AlertRow(mem[b].signal) \in alerts
      BY <3>2 DEF AlertInv, AlertWork
    <3>4. New(AlertRow(mem[b].signal)) = AlertRow(mem[b].signal)
      BY <1>7, <3>2, <3>3 DEF AlertRow
    <3>5. AlertRow(mem[b].signal) \in alerts'
      BY <1>1, <3>3, <3>4
    <3> QED BY <1>1, <3>2, <3>5 DEF AlertInv, AlertWork
  <2>2. ASSUME NEW b \in Agents, NEW e \in Agents, Working(b)', Working(e)',
               mem'[b].signal = mem'[e].signal
        PROVE  b = e
    <3>1. b # a /\ e # a
      BY <1>4, <2>2
    <3> QED BY <1>6, <2>2, <3>1 DEF AlertInv, AlertWork
  <2> QED BY <2>1, <2>2 DEF AlertWork
<1>10. ASSUME NEW t \in Owed' PROVE t \in Owed
  <2>1. t \in Signals /\ AlertRow(t).signal = t /\ AlertRow(t).delivered = FALSE
    BY <1>10 DEF Owed, AlertRow
  <2>2. PICK p \in alerts : AlertRow(t) = New(p)
    BY <1>1, <1>10 DEF Owed
  <2>3. CASE t = s
    <3>1. ~d
      BY <1>2, <1>7, <2>1, <2>2, <2>3
    <3>2. \A b \in Agents : Busy(b) => mem[b].signal # s
      <4>1. \A b \in Agents : Busy(b) => Working(b)
        BY DEF Busy, Working
      <4> QED BY <1>4, <1>5, <3>1, <4>1
    <3> QED BY <1>2, <1>5, <2>3, <3>2 DEF Owed
  <2>4. CASE t # s
    <3>1. AlertRow(t) \in alerts
      BY <1>7, <2>1, <2>2, <2>4
    <3>2. \A b \in Agents \ {a} : Busy(b) => mem[b].signal # t
      BY <1>6, <1>10 DEF Owed
    <3> QED BY <2>1, <2>4, <3>1, <3>2 DEF Owed, s
  <2> QED BY <2>3, <2>4
<1>11. Due' = Due
  BY <1>1, <1>3, CardsStill DEF Alone
<1>12. DebtInv'
  BY <1>c, <1>1, <1>10, <1>11, DebtSame DEF AlertInv
<1> QED BY <1>8, <1>9, <1>12 DEF AlertInv

\* A restart leaves what the calls in hand were at work on, one thing for each.
LEMMA RestartDebt ==
  ASSUME ProposingInv, AlertInv, Restart
  PROVE  AlertInv'
<1>c. failures \in Nat
  BY DEF ProposingInv, CountersOK
<1>1. /\ UNCHANGED <<proposals, alerts, shown, cards>> /\ failures' = failures + 1
      /\ \A b \in Agents : pc'[b] = "idle"
  BY DEF Restart, Failed
<1>2. AlertRows' /\ AlertWork'
  BY <1>1 DEF AlertInv, AlertRows, AlertWork, Working
<1> DEFINE P == {b \in Agents : Busy(b)}
           Q == {b \in Agents : pc[b] = "card"}
           S == {mem[b].signal : b \in P}
           T == {mem[b].id : b \in Q}
           f == [b \in P |-> mem[b].signal]
           g == [b \in Q |-> mem[b].id]
<1>3. P \in SUBSET Agents /\ Q \in SUBSET Agents /\ P \cap Q = {}
  BY DEF Busy
<1>4. Owed' \subseteq Owed \cup S
  BY <1>1 DEF Owed
<1>5. Due' \subseteq Due \cup T
  BY <1>1 DEF Due
<1>6. f \in Surjection(P, S)
  BY DEF Surjection
<1>7. g \in Surjection(Q, T)
  BY DEF Surjection
<1> HIDE DEF P, Q, S, T, f, g
<1>8. /\ IsFiniteSet(P) /\ IsFiniteSet(Q)
  BY <1>3, AgentsCounted, FS_Subset
<1>9. /\ IsFiniteSet(S) /\ Cardinality(S) <= Cardinality(P)
      /\ IsFiniteSet(T) /\ Cardinality(T) <= Cardinality(Q)
  BY <1>6, <1>7, <1>8, FS_Surjection
<1>10. Cardinality(P) + Cardinality(Q) <= Cardinality(Agents)
  <2>1. Cardinality(P \cup Q) = Cardinality(P) + Cardinality(Q) - Cardinality(P \cap Q)
    BY <1>8, FS_Union, Zenon
  <2>2. Cardinality(P \cap Q) = 0
    BY <1>3, FS_EmptySet
  <2>3. P \cup Q \in SUBSET Agents
    BY <1>3
  <2>4. Cardinality(P \cup Q) <= Cardinality(Agents)
    BY <2>3, AgentsCounted, FS_Subset
  <2>5. Cardinality(P) \in Nat /\ Cardinality(Q) \in Nat
    BY <1>8, FS_CardinalityType
  <2> QED BY <2>1, <2>2, <2>4, <2>5, AgentsCounted
<1>11. Cardinality(S) + Cardinality(T) <= Cardinality(Agents)
  <2>1. /\ Cardinality(P) \in Nat /\ Cardinality(Q) \in Nat
        /\ Cardinality(S) \in Nat /\ Cardinality(T) \in Nat
    BY <1>8, <1>9, FS_CardinalityType
  <2> QED BY <1>9, <1>10, <2>1, AgentsCounted
<1>12. DebtInv'
  BY <1>c, <1>1, <1>4, <1>5, <1>9, <1>11, DebtGrows DEF AlertInv
<1> QED BY <1>2, <1>12 DEF AlertInv

LEMMA AlertInit == Init => AlertInv
<1> SUFFICES ASSUME Init PROVE AlertInv
  OBVIOUS
<1>1. AlertRows /\ AlertWork
  BY DEF Init, AlertRows, AlertWork, Working
<1>2. Owed = {} /\ Due = {}
  BY DEF Init, Owed, Due
<1>3. failures * Cardinality(Agents) = 0
  BY AgentsCounted DEF Init
<1>4. DebtInv
  BY <1>2, <1>3, FS_EmptySet DEF DebtInv
<1> QED BY <1>1, <1>4 DEF AlertInv

LEMMA AlertNext ==
  ASSUME ProposingInv, AlertInv, [Next]_vars
  PROVE  AlertInv'
<1>1. CASE \E a \in Agents, s \in Signals : send_alert(a, s)
  BY <1>1, SendDebt
<1>2. CASE \E a \in Agents, s \in Signals, v \in Verdicts : save_decision(a, s, v)
  <2>1. UNCHANGED <<alerts, shown, proposals, cards, failures, pc, mem>>
    BY <1>2 DEF save_decision
  <2> QED BY <2>1, QuietDebt
<1>3. CASE \E a \in Agents : propose_trade(a)
  BY <1>3, ProposeDebt, InsertDebt, CardDebt DEF propose_trade
<1>4. CASE \E a \in Agents : Post(a)
  BY <1>4, PostDebt
<1>5. CASE \E a \in Agents : Mark(a)
  BY <1>5, MarkDebt
<1>6. CASE Restart
  BY <1>6, RestartDebt
<1>7. CASE Measure \/ UNCHANGED vars
  <2>1. UNCHANGED <<alerts, shown, proposals, cards, failures, pc, mem>>
    BY <1>7 DEF Measure, vars
  <2> QED BY <2>1, QuietDebt
<1> QED BY <1>1, <1>2, <1>3, <1>4, <1>5, <1>6, <1>7 DEF Next

\* The silent alerts and the proposals without a card are owed and due.
LEMMA AlertFollows ==
  ASSUME ProposingInv, AlertInv
  PROVE  AlertsExplained
<1>c. AlertsOK /\ ProposalsOK /\ failures \in Nat
  BY DEF ProposingInv, CountersOK
<1>1. \A s \in Signals : shown[s] <= 1
  BY DEF AlertInv, AlertRows
<1>2. \A x \in alerts : x.delivered => shown[x.signal] = 1
  BY DEF AlertInv, AlertRows
<1> DEFINE silent == {x \in alerts : /\ \A a \in Agents : InHand(a) => mem[a].signal # x.signal
                                     /\ shown[x.signal] = 0 \/ ~x.delivered}
           unseen == {p \in proposals : /\ p.id \notin cards
                                        /\ \A a \in Agents : InHand(a) => mem[a].id # p.id}
           f == [x \in silent |-> x.signal]
           g == [p \in unseen |-> p.id]
<1>3. ASSUME NEW x \in silent PROVE x.signal \in Owed
  <2>1. x \in alerts /\ x.signal \in Signals /\ x.delivered \in BOOLEAN
        /\ x \in [signal: Signals, delivered: BOOLEAN]
    BY <1>c DEF AlertsOK
  <2>2. x.delivered = FALSE
    BY <1>2, <2>1
  <2>3. x = AlertRow(x.signal)
    BY <2>1, <2>2 DEF AlertRow
  <2>4. \A a \in Agents : Busy(a) => mem[a].signal # x.signal
    BY DEF Busy, InHand
  <2> QED BY <2>1, <2>3, <2>4 DEF Owed
<1>4. ASSUME NEW p \in unseen PROVE p.id \in Due
  BY DEF Due, InHand
<1>5. f \in Injection(silent, Owed)
  <2>1. \A x, y \in silent : x.signal = y.signal => x = y
    BY DEF AlertInv, AlertRows
  <2> HIDE DEF silent
  <2> QED BY <1>3, <2>1 DEF Injection, IsInjective
<1>6. g \in Injection(unseen, Due)
  <2>1. \A p, q \in unseen : p.id = q.id => p = q
    BY <1>c DEF ProposalsOK
  <2> HIDE DEF unseen
  <2> QED BY <1>4, <2>1 DEF Injection, IsInjective
<1> HIDE DEF silent, unseen, f, g
<1>7. Webhook => Cardinality(silent) + Cardinality(unseen) <= failures * Cardinality(Agents)
  <2> SUFFICES ASSUME Webhook
               PROVE  Cardinality(silent) + Cardinality(unseen) <= failures * Cardinality(Agents)
    OBVIOUS
  <2>1. /\ IsFiniteSet(Owed) /\ IsFiniteSet(Due)
        /\ Cardinality(Owed) + Cardinality(Due) <= failures * Cardinality(Agents)
    BY DEF AlertInv, DebtInv
  <2>2. /\ IsFiniteSet(silent) /\ Cardinality(silent) <= Cardinality(Owed)
        /\ IsFiniteSet(unseen) /\ Cardinality(unseen) <= Cardinality(Due)
    BY <1>5, <1>6, <2>1, FS_Injection
  <2>3. /\ Cardinality(silent) \in Nat /\ Cardinality(Owed) \in Nat
        /\ Cardinality(unseen) \in Nat /\ Cardinality(Due) \in Nat
    BY <2>1, <2>2, FS_CardinalityType
  <2> DEFINE bound == failures * Cardinality(Agents)
  <2>4. bound \in Nat /\ Cardinality(Owed) + Cardinality(Due) <= bound
    BY <1>c, <2>1, AgentsCounted, Products
  <2> HIDE DEF bound
  <2>5. Cardinality(silent) + Cardinality(unseen) <= bound
    BY <2>2, <2>3, <2>4
  <2> QED BY <2>5 DEF bound
<1> QED BY <1>1, <1>2, <1>7 DEF AlertsExplained, silent, unseen

(***************************************************************************)
(* Theorems.                                                               *)
(***************************************************************************)

\* The tables, counters and calls have their types and the unique indexes hold,
\* for any shifts, signals, requests and policy: no decision is written under an
\* id or for a signal that has one already.
THEOREM TypeCorrect == Spec => []TypeOK
  BY InvHolds, InvTypes, PTL

\* However many shifts judge a signal and propose on it at once, one proposal at
\* most comes of it, it rests on a verdict of paper_trade that can only have been
\* replaced after propose_trade read it, and its size and loss are within what
\* the policy allows at the equity that was read for it.
THEOREM ProposalsHold == Spec => []ProposalsSound
  BY InvHolds, InvSound, PTL

\* Discord shows an alert at most once, it is marked delivered only if it was
\* shown, and every alert or card the operator did not get is paid for by a
\* failed post or, one for each shift, by a restart.
THEOREM AlertsHold == Spec => []AlertsExplained
<1>1. ProposingInv /\ AlertInv /\ [Next]_vars => AlertInv'
  BY AlertNext
<1>2. ProposingInv /\ AlertInv => AlertsExplained
  BY AlertFollows
<1> QED BY <1>1, <1>2, InvHolds, AlertInit, PTL DEF Spec
=============================================================================
