----------------------- MODULE TradeLifecycle_proofs -----------------------
(* Theorems about TradeLifecycle, for every value of its constants.        *)
EXTENDS TradeLifecycle, FiniteSetTheorems, TLAPS

(***************************************************************************)
(* Types.  The proof goes action by action; the disjuncts of Next that     *)
(* carry parameters are opened first.                                      *)
(***************************************************************************)
\* Whatever it answers, a rail only moves the task on, to the next step or to
\* the recording of a block.
RailsOnly(w, to) ==
  /\ wpc[w] \in {"switch", "count", "first"}
  /\ wpc' = [wpc EXCEPT ![w] = to]
  /\ UNCHANGED <<dbVars, queue, sweepVars, handlerVars, wprop, wfill,
                 exchangeVars, slipped, crashes>>

LEMMA RailsMove ==
  ASSUME NEW w \in Workers, RailSwitch(w) \/ RailCount(w) \/ RailFirst(w)
  PROVE  \E to \in {"count", "first", "submit", "block"} : RailsOnly(w, to)
<1> USE DEF RailsOnly, Rail, Verdict, Goto
<1>1. CASE RailSwitch(w)
  <2>1. CASE SwitchOff
    BY <1>1, <2>1 DEF RailSwitch
  <2>2. CASE ~SwitchOff
    BY <1>1, <2>2 DEF RailSwitch
  <2> QED BY <2>1, <2>2
<1>2. CASE RailCount(w)
  <2>1. CASE DayHasRoom /\ wprop[w] \in Admitted
    BY <1>2, <2>1 DEF RailCount
  <2>2. CASE ~(DayHasRoom /\ wprop[w] \in Admitted)
    BY <1>2, <2>2 DEF RailCount
  <2> QED BY <2>1, <2>2
<1>3. CASE RailFirst(w)
  <2> PICK funded \in IF Mode = "live" THEN BOOLEAN ELSE {TRUE} :
             Rail(w, "first", SizeAllowed(wprop[w]) /\ funded, "submit")
    BY <1>3 DEF RailFirst
  <2>1. CASE SizeAllowed(wprop[w]) /\ funded
    BY <2>1
  <2>2. CASE ~(SizeAllowed(wprop[w]) /\ funded)
    BY <2>2
  <2> QED BY <2>1, <2>2
<1> QED BY <1>1, <1>2, <1>3

LEMMA TypeInit == Init => TypeOK
<1> SUFFICES ASSUME Init PROVE TypeOK
  OBVIOUS
<1> USE ConstantsAssumption DEF Init, Statuses, Fills
<1>1. age \in [Proposals -> 0..TTL + 1] /\ crashes \in 0..MaxCrashes
  OBVIOUS
<1>2. hprop \in [Handlers -> Proposals \cup {NoProposal}]
      /\ wprop \in [Workers -> Proposals \cup {NoProposal}]
  OBVIOUS
<1> QED BY <1>1, <1>2 DEF TypeOK

LEMMA TypeStep == TypeOK /\ [Next]_vars => TypeOK'
<1> SUFFICES ASSUME TypeOK, [Next]_vars PROVE TypeOK'
  OBVIOUS
<1> USE ConstantsAssumption DEF TypeOK, Statuses, Fills,
        dbVars, sweepVars, handlerVars, workerVars, exchangeVars
<1>1. ASSUME NEW p \in Proposals, Propose(p) PROVE TypeOK'
  BY <1>1 DEF Propose
<1>2. CASE Tick
  BY <1>2 DEF Tick, Ageing
<1>3. CASE NewDay
  BY <1>3 DEF NewDay
<1>4. CASE Pause \/ Resume \/ Reconcile
  <2>1. killed' \in BOOLEAN /\ slipped' = 0
    BY <1>4 DEF Pause, Resume, Reconcile, SetSwitch
  <2> QED BY <1>4, <2>1 DEF Pause, Resume, Reconcile, SetSwitch
<1>5. ASSUME NEW p \in Proposals, PaperMatch(p) \/ ExchangeFill(p) PROVE TypeOK'
  BY <1>5 DEF PaperMatch, ExchangeFill
<1>6. ASSUME NEW s \in Sweepers, Sweep(s) PROVE TypeOK'
  <2>1. CASE SelectRipe(s)
    BY <2>1 DEF SelectRipe
  <2>2. CASE ApproveBatch(s)
    BY <2>2 DEF ApproveBatch, Moved, Decided
  <2>3. CASE EnqueueOne(s)
    BY <2>3 DEF EnqueueOne, Published
  <2>4. CASE SelectStale(s)
    BY <2>4 DEF SelectStale
  <2>5. CASE ExpireBatch(s)
    BY <2>5 DEF ExpireBatch, Moved, Decided
  <2> QED BY <1>6, <2>1, <2>2, <2>3, <2>4, <2>5 DEF Sweep
<1>7. ASSUME NEW h \in Handlers, Approval(h) PROVE TypeOK'
  BY <1>7 DEF Approval, ApproveTx, ExpireTx, RefuseTx, EnqueueApproved, Done,
              Published, Decided
<1>8. ASSUME NEW h \in Handlers, NEW p \in Proposals,
             ClickApprove(h, p) \/ RejectTx(h, p)
      PROVE  TypeOK'
  BY <1>8 DEF ClickApprove, RejectTx, Decided
<1>9. ASSUME NEW w \in Workers, NEW p \in Proposals, Take(w, p) PROVE TypeOK'
  BY <1>9 DEF Take, Goto
<1>10. ASSUME NEW w \in Workers, Task(w) PROVE TypeOK'
  <2> USE DEF Goto, Receipt
  <2>1. CASE RailSwitch(w) \/ RailCount(w) \/ RailFirst(w)
    BY <2>1, RailsMove DEF RailsOnly
  <2>2. CASE RecordBlock(w)
    BY <2>2 DEF RecordBlock
  <2>3. CASE FailProposal(w)
    BY <2>3 DEF FailProposal
  <2>4. CASE SubmitPaper(w)
    BY <2>4 DEF SubmitPaper, Slip
  <2>5. CASE SubmitEntry(w)
    BY <2>5 DEF SubmitEntry, Accepted, Slip
  <2>6. CASE EntryRefused(w) \/ SubmitRaises(w)
    BY <2>6 DEF EntryRefused, SubmitRaises
  <2>7. CASE AttachStop(w)
    BY <2>7 DEF AttachStop, AfterStop
  <2>8. CASE Persist(w)
    BY <2>8 DEF Persist, Outcome
  <2>9. CASE Ack(w)
    BY <2>9 DEF Ack
  <2> QED BY <1>10, <2>1, <2>2, <2>3, <2>4, <2>5, <2>6, <2>7, <2>8, <2>9
          DEF Task
<1>11. ASSUME NEW s \in Sweepers, LoseSweeper(s) PROVE TypeOK'
  BY <1>11 DEF LoseSweeper, Lose
<1>12. ASSUME NEW h \in Handlers, LoseHandler(h) PROVE TypeOK'
  BY <1>12 DEF LoseHandler, Lose, Done
<1>13. ASSUME NEW w \in Workers, LoseWorker(w) PROVE TypeOK'
  BY <1>13 DEF LoseWorker, Lose, Requeued, Goto, Receipt
<1>14. CASE UNCHANGED vars
  BY <1>14 DEF vars
<1> QED
  BY <1>1, <1>2, <1>3, <1>4, <1>5, <1>6, <1>7, <1>8, <1>9, <1>10, <1>11,
     <1>12, <1>13, <1>14 DEF Next

\* Every reachable state has the types TypeOK states.
THEOREM TypeCorrect == Spec => []TypeOK
  BY TypeInit, TypeStep, PTL DEF Spec

-----------------------------------------------------------------------------
(***************************************************************************)
(* What the tables say.  A task carries facts from the step that           *)
(* established them to the transaction that records them: a risk event     *)
(* before "fail", an accepted entry before "stop", both orders before a    *)
(* receipt that is not "rejected".                                         *)
(***************************************************************************)
TaskFacts ==
  \A w \in Workers :
    /\ wpc[w] = "fail" => wprop[w] \in riskEvents
    /\ wpc[w] = "stop" => entries[wprop[w]] > 0
    /\ Mode = "live" /\ wpc[w] = "persist" /\ wfill[w] # "rejected" =>
         entries[wprop[w]] > 0 /\ wprop[w] \in stopped

RecordInv ==
  /\ TaskFacts
  /\ RecordedOrderProtected
  /\ ExecutedHasOrder
  /\ FailedExplained

LEMMA RecordInit == Init => RecordInv
  BY DEF Init, RecordInv, TaskFacts, RecordedOrderProtected, ExecutedHasOrder,
         FailedExplained

LEMMA RecordStep == TypeOK /\ RecordInv /\ [Next]_vars => RecordInv'
<1> SUFFICES ASSUME TypeOK, RecordInv, [Next]_vars PROVE RecordInv'
  OBVIOUS
<1> USE ConstantsAssumption
        DEF RecordInv, TaskFacts, RecordedOrderProtected, ExecutedHasOrder,
            FailedExplained, TypeOK, Statuses, Fills,
            dbVars, sweepVars, handlerVars, workerVars, exchangeVars
<1>1. ASSUME NEW p \in Proposals, Propose(p) PROVE RecordInv'
  BY <1>1 DEF Propose
<1>2. CASE Tick \/ NewDay
  BY <1>2 DEF Tick, NewDay
<1>3. CASE Pause \/ Resume \/ Reconcile
  BY <1>3 DEF Pause, Resume, Reconcile, SetSwitch
<1>4. ASSUME NEW p \in Proposals, PaperMatch(p) PROVE RecordInv'
  BY <1>4 DEF PaperMatch
<1>5. ASSUME NEW p \in Proposals, ExchangeFill(p) PROVE RecordInv'
  BY <1>5 DEF ExchangeFill
<1>6. ASSUME NEW s \in Sweepers, Sweep(s) PROVE RecordInv'
  <2>1. CASE SelectRipe(s)
    BY <2>1 DEF SelectRipe
  <2>2. CASE ApproveBatch(s)
    BY <2>2 DEF ApproveBatch, Moved
  <2>3. CASE EnqueueOne(s)
    BY <2>3 DEF EnqueueOne
  <2>4. CASE SelectStale(s)
    BY <2>4 DEF SelectStale
  <2>5. CASE ExpireBatch(s)
    BY <2>5 DEF ExpireBatch, Moved
  <2> QED BY <1>6, <2>1, <2>2, <2>3, <2>4, <2>5 DEF Sweep
<1>7. ASSUME NEW h \in Handlers, Approval(h) PROVE RecordInv'
  BY <1>7 DEF Approval, ApproveTx, ExpireTx, RefuseTx, EnqueueApproved
<1>8. ASSUME NEW h \in Handlers, NEW p \in Proposals,
             ClickApprove(h, p) \/ RejectTx(h, p)
      PROVE  RecordInv'
  BY <1>8 DEF ClickApprove, RejectTx
<1>9. ASSUME NEW w \in Workers, NEW p \in Proposals, Take(w, p) PROVE RecordInv'
  BY <1>9 DEF Take, Goto
<1>10. ASSUME NEW w \in Workers, Task(w) PROVE RecordInv'
  <2> USE DEF Goto, Receipt
  <2>1. CASE RailSwitch(w) \/ RailCount(w) \/ RailFirst(w)
    BY <2>1, RailsMove DEF RailsOnly
  <2>2. CASE RecordBlock(w)
    BY <2>2 DEF RecordBlock
  <2>3. CASE FailProposal(w)
    BY <2>3 DEF FailProposal
  <2>4. CASE SubmitPaper(w)
    BY <2>4 DEF SubmitPaper
  <2>5. CASE SubmitEntry(w)
    BY <2>5 DEF SubmitEntry, Accepted
  <2>6. CASE EntryRefused(w) \/ SubmitRaises(w)
    BY <2>6 DEF EntryRefused, SubmitRaises
  <2>7. CASE AttachStop(w)
    BY <2>7 DEF AttachStop, AfterStop
  <2>8. CASE Persist(w)
    BY <2>8 DEF Persist, Outcome
  <2>9. CASE Ack(w)
    BY <2>9 DEF Ack
  <2> QED BY <1>10, <2>1, <2>2, <2>3, <2>4, <2>5, <2>6, <2>7, <2>8, <2>9
          DEF Task
<1>11. ASSUME NEW s \in Sweepers, LoseSweeper(s) PROVE RecordInv'
  BY <1>11 DEF LoseSweeper
<1>12. ASSUME NEW h \in Handlers, LoseHandler(h) PROVE RecordInv'
  BY <1>12 DEF LoseHandler
<1>13. ASSUME NEW w \in Workers, LoseWorker(w) PROVE RecordInv'
  BY <1>13 DEF LoseWorker, Goto, Receipt
<1>14. CASE UNCHANGED vars
  BY <1>14 DEF vars
<1> QED
  BY <1>1, <1>2, <1>3, <1>4, <1>5, <1>6, <1>7, <1>8, <1>9, <1>10, <1>11,
     <1>12, <1>13, <1>14 DEF Next

THEOREM RecordsAgree == Spec => []RecordInv
<1>1. TypeOK /\ RecordInv /\ [Next]_vars => (TypeOK /\ RecordInv)'
  BY TypeStep, RecordStep
<1> QED BY TypeInit, RecordInit, <1>1, PTL DEF Spec

\* A live order recorded open or filled has its entry and its stop order on
\* the exchange (worker.py 59-103, ccxt_spot.py 79-112).
THEOREM OrdersProtected == Spec => []RecordedOrderProtected
  BY RecordsAgree, PTL DEF RecordInv

\* An executed proposal has an open or filled order row (worker.py 66-101).
THEOREM ExecutionsRecorded == Spec => []ExecutedHasOrder
  BY RecordsAgree, PTL DEF RecordInv

\* A failed proposal has a risk event or a rejected order row
\* (worker.py 113-124, 97).
THEOREM FailuresExplained == Spec => []FailedExplained
  BY RecordsAgree, PTL DEF RecordInv

-----------------------------------------------------------------------------
(***************************************************************************)
(* Before an approval nothing of the proposal is on its way.  Approved     *)
(* rows may still be overwritten, but never back to an undecided state,    *)
(* so what a sweep or a callback is about to enqueue has been decided.     *)
(***************************************************************************)
Untouched == {"none", "pending", "rejected"}

ApprovedFirst ==
  /\ \A s \in Sweepers : spc[s] = "enqueue" =>
       \A p \in batch[s] : status[p] \notin Untouched
  /\ \A h \in Handlers : hpc[h] = "enqueue" => status[hprop[h]] \notin Untouched

RejectInv == ApprovedFirst /\ RejectedNeverTraded

LEMMA RejectInit == Init => RejectInv
  BY DEF Init, RejectInv, ApprovedFirst, RejectedNeverTraded, OnTask, Untouched

LEMMA RejectStep == TypeOK /\ RejectInv /\ [Next]_vars => RejectInv'
<1> SUFFICES ASSUME TypeOK, RejectInv, [Next]_vars PROVE RejectInv'
  OBVIOUS
<1> USE ConstantsAssumption
        DEF RejectInv, ApprovedFirst, RejectedNeverTraded, OnTask, Untouched,
            TypeOK, Statuses, Fills,
            dbVars, sweepVars, handlerVars, workerVars, exchangeVars
<1>1. ASSUME NEW p \in Proposals, Propose(p) PROVE RejectInv'
  BY <1>1 DEF Propose
<1>2. CASE Tick \/ NewDay
  BY <1>2 DEF Tick, NewDay
<1>3. CASE Pause \/ Resume \/ Reconcile
  BY <1>3 DEF Pause, Resume, Reconcile, SetSwitch
<1>4. ASSUME NEW p \in Proposals, PaperMatch(p) PROVE RejectInv'
  BY <1>4 DEF PaperMatch
<1>5. ASSUME NEW p \in Proposals, ExchangeFill(p) PROVE RejectInv'
  BY <1>5 DEF ExchangeFill
<1>6. ASSUME NEW s \in Sweepers, Sweep(s) PROVE RejectInv'
  <2>1. CASE SelectRipe(s)
    BY <2>1 DEF SelectRipe
  <2>2. CASE ApproveBatch(s)
    BY <2>2 DEF ApproveBatch, Moved
  <2>3. CASE EnqueueOne(s)
    BY <2>3 DEF EnqueueOne, Published
  <2>4. CASE SelectStale(s)
    BY <2>4 DEF SelectStale
  <2>5. CASE ExpireBatch(s)
    BY <2>5 DEF ExpireBatch, Moved
  <2> QED BY <1>6, <2>1, <2>2, <2>3, <2>4, <2>5 DEF Sweep
<1>7. ASSUME NEW h \in Handlers, Approval(h) PROVE RejectInv'
  BY <1>7 DEF Approval, ApproveTx, ExpireTx, RefuseTx, EnqueueApproved, Done,
              Published
<1>8. ASSUME NEW h \in Handlers, NEW p \in Proposals,
             ClickApprove(h, p) \/ RejectTx(h, p)
      PROVE  RejectInv'
  BY <1>8 DEF ClickApprove, RejectTx, Decidable
<1>9. ASSUME NEW w \in Workers, NEW p \in Proposals, Take(w, p) PROVE RejectInv'
  BY <1>9 DEF Take, Goto
<1>10. ASSUME NEW w \in Workers, Task(w) PROVE RejectInv'
  <2> USE DEF Goto, Receipt
  <2>1. CASE RailSwitch(w) \/ RailCount(w) \/ RailFirst(w)
    BY <2>1, RailsMove DEF RailsOnly
  <2>2. CASE RecordBlock(w)
    BY <2>2 DEF RecordBlock
  <2>3. CASE FailProposal(w)
    BY <2>3 DEF FailProposal
  <2>4. CASE SubmitPaper(w)
    BY <2>4 DEF SubmitPaper
  <2>5. CASE SubmitEntry(w)
    BY <2>5 DEF SubmitEntry, Accepted
  <2>6. CASE EntryRefused(w) \/ SubmitRaises(w)
    BY <2>6 DEF EntryRefused, SubmitRaises
  <2>7. CASE AttachStop(w)
    BY <2>7 DEF AttachStop
  <2>8. CASE Persist(w)
    BY <2>8 DEF Persist, Outcome
  <2>9. CASE Ack(w)
    BY <2>9 DEF Ack
  <2> QED BY <1>10, <2>1, <2>2, <2>3, <2>4, <2>5, <2>6, <2>7, <2>8, <2>9
          DEF Task
<1>11. ASSUME NEW s \in Sweepers, LoseSweeper(s) PROVE RejectInv'
  BY <1>11 DEF LoseSweeper
<1>12. ASSUME NEW h \in Handlers, LoseHandler(h) PROVE RejectInv'
  BY <1>12 DEF LoseHandler, Done
<1>13. ASSUME NEW w \in Workers, LoseWorker(w) PROVE RejectInv'
  BY <1>13 DEF LoseWorker, Requeued, Goto, Receipt
<1>14. CASE UNCHANGED vars
  BY <1>14 DEF vars
<1> QED
  BY <1>1, <1>2, <1>3, <1>4, <1>5, <1>6, <1>7, <1>8, <1>9, <1>10, <1>11,
     <1>12, <1>13, <1>14 DEF Next

\* While a rejection stands nothing of the proposal is queued, in a worker's
\* hands, on the exchange or in the orders table (approval.py 36-44, 66-74).
THEOREM RejectionsRespected == Spec => []RejectedNeverTraded
<1>1. TypeOK /\ RejectInv /\ [Next]_vars => (TypeOK /\ RejectInv)'
  BY TypeStep, RejectStep
<1>2. RejectInv => RejectedNeverTraded
  BY DEF RejectInv
<1> QED BY TypeInit, RejectInit, <1>1, <1>2, PTL DEF Spec

-----------------------------------------------------------------------------
(***************************************************************************)
(* Tasks that have read the switch and not yet called the adapter.         *)
(***************************************************************************)
PastSwitch == {w \in Workers : wpc[w] \in {"count", "first", "submit"}}

SwitchInv ==
  IF killed THEN slipped + Cardinality(PastSwitch) <= Cardinality(Workers)
            ELSE slipped = 0

LEMMA SwitchBounded ==
  /\ IsFiniteSet(PastSwitch) /\ Cardinality(PastSwitch) \in Nat
  /\ Cardinality(PastSwitch) <= Cardinality(Workers)
  /\ Cardinality(Workers) \in Nat
<1>1. IsFiniteSet(Workers) /\ PastSwitch \in SUBSET Workers
  BY ConstantsAssumption DEF PastSwitch
<1> QED BY <1>1, FS_Subset, FS_CardinalityType

\* A step that lets no further task past the switch, and calls no adapter.
NoneSlips == UNCHANGED <<killed, slipped>> /\ PastSwitch' \subseteq PastSwitch

LEMMA NoneSlipsStep == TypeOK /\ SwitchInv /\ NoneSlips => SwitchInv'
<1> SUFFICES ASSUME TypeOK, SwitchInv, NoneSlips PROVE SwitchInv'
  OBVIOUS
<1>1. /\ IsFiniteSet(PastSwitch')
      /\ Cardinality(PastSwitch') <= Cardinality(PastSwitch)
  BY SwitchBounded, FS_Subset DEF NoneSlips
<1>2. Cardinality(PastSwitch) \in Nat /\ Cardinality(PastSwitch') \in Nat
      /\ Cardinality(Workers) \in Nat /\ slipped \in Nat
  BY <1>1, SwitchBounded, FS_CardinalityType DEF TypeOK
<1> QED BY <1>1, <1>2 DEF SwitchInv, NoneSlips

\* An adapter call by a task that was past the switch.
LEMMA SlipStep ==
  ASSUME TypeOK, SwitchInv, NEW w \in PastSwitch, Slip, killed' = killed,
         PastSwitch' \subseteq PastSwitch \ {w}
  PROVE  SwitchInv'
<1>1. /\ IsFiniteSet(PastSwitch \ {w})
      /\ Cardinality(PastSwitch \ {w}) = Cardinality(PastSwitch) - 1
  BY SwitchBounded, FS_RemoveElement
<1>2. /\ IsFiniteSet(PastSwitch')
      /\ Cardinality(PastSwitch') <= Cardinality(PastSwitch) - 1
  BY <1>1, FS_Subset
<1>3. Cardinality(PastSwitch) \in Nat /\ Cardinality(PastSwitch') \in Nat
      /\ Cardinality(Workers) \in Nat /\ slipped \in Nat
  BY <1>2, SwitchBounded, FS_CardinalityType DEF TypeOK
<1> QED BY <1>2, <1>3 DEF SwitchInv, Slip

LEMMA SwitchInit == Init => SwitchInv
  BY DEF Init, SwitchInv

LEMMA SwitchStep == TypeOK /\ SwitchInv /\ [Next]_vars => SwitchInv'
<1> SUFFICES ASSUME TypeOK, SwitchInv, [Next]_vars PROVE SwitchInv'
  OBVIOUS
<1> USE DEF dbVars, sweepVars, handlerVars, workerVars, exchangeVars
<1>1. CASE UNCHANGED <<killed, slipped, wpc>>
  BY <1>1, NoneSlipsStep DEF NoneSlips, PastSwitch
<1>2. CASE \E p \in Proposals : Propose(p) \/ PaperMatch(p) \/ ExchangeFill(p)
  BY <1>1, <1>2 DEF Propose, PaperMatch, ExchangeFill
<1>3. CASE Tick \/ NewDay
  BY <1>1, <1>3 DEF Tick, NewDay
<1>4. CASE Pause \/ Resume \/ Reconcile
  <2>1. killed' \in BOOLEAN /\ slipped' = 0 /\ PastSwitch' = PastSwitch
    BY <1>4 DEF Pause, Resume, Reconcile, SetSwitch, PastSwitch
  <2> QED BY <2>1, SwitchBounded DEF SwitchInv
<1>5. CASE \E s \in Sweepers : Sweep(s) \/ LoseSweeper(s)
  BY <1>1, <1>5 DEF Sweep, SelectRipe, ApproveBatch, EnqueueOne, SelectStale,
                    ExpireBatch, LoseSweeper
<1>6. CASE \E h \in Handlers :
             \/ Approval(h) \/ LoseHandler(h)
             \/ \E p \in Proposals : ClickApprove(h, p) \/ RejectTx(h, p)
  BY <1>1, <1>6 DEF Approval, ApproveTx, ExpireTx, RefuseTx, EnqueueApproved,
                    LoseHandler, ClickApprove, RejectTx
<1>7. ASSUME NEW w \in Workers, NEW p \in Proposals, Take(w, p)
      PROVE  SwitchInv'
  <2>1. NoneSlips
    BY <1>7 DEF Take, Goto, NoneSlips, PastSwitch, TypeOK
  <2> QED BY <2>1, NoneSlipsStep
<1>8. ASSUME NEW w \in Workers, Task(w) PROVE SwitchInv'
  <2> USE DEF Goto, NoneSlips, PastSwitch, TypeOK
  <2>1. CASE RailSwitch(w)
    <3>1. CASE killed
      BY <2>1, <3>1, NoneSlipsStep DEF RailSwitch, Rail, Verdict, SwitchOff
    <3>2. CASE ~killed
      BY <2>1, <3>2 DEF RailSwitch, Rail, SwitchInv
    <3> QED BY <3>1, <3>2
  <2>2. CASE RailCount(w) \/ RailFirst(w)
    <3>1. w \in PastSwitch
      BY <2>2 DEF RailCount, RailFirst, Rail
    <3> QED BY <2>2, <3>1, RailsMove, NoneSlipsStep DEF RailsOnly
  <2>3. CASE RecordBlock(w) \/ FailProposal(w) \/ AttachStop(w) \/ Ack(w)
    BY <2>3, NoneSlipsStep DEF RecordBlock, FailProposal, AttachStop, Ack
  <2>4. CASE EntryRefused(w) \/ SubmitRaises(w) \/ Persist(w)
    BY <2>4, NoneSlipsStep DEF EntryRefused, SubmitRaises, Persist
  <2>5. CASE SubmitPaper(w) \/ SubmitEntry(w)
    <3>1. w \in PastSwitch /\ Slip /\ killed' = killed
      BY <2>5 DEF SubmitPaper, SubmitEntry, Accepted
    <3>2. PastSwitch' \subseteq PastSwitch \ {w}
      BY <2>5 DEF SubmitPaper, SubmitEntry, Accepted
    <3> HIDE DEF PastSwitch, TypeOK
    <3> QED BY <3>1, <3>2, SlipStep
  <2> QED BY <1>8, <2>1, <2>2, <2>3, <2>4, <2>5 DEF Task
<1>9. ASSUME NEW w \in Workers, LoseWorker(w) PROVE SwitchInv'
  <2>1. NoneSlips
    BY <1>9 DEF LoseWorker, Goto, NoneSlips, PastSwitch, TypeOK
  <2> QED BY <2>1, NoneSlipsStep
<1>10. CASE UNCHANGED vars
  BY <1>1, <1>10 DEF vars
<1> QED
  BY <1>2, <1>3, <1>4, <1>5, <1>6, <1>7, <1>8, <1>9, <1>10 DEF Next

\* After a trip at most one adapter call per worker process
\* (policy_rails.py 90-93).
THEOREM SwitchHolds == Spec => []KillSwitchSlack
<1>1. TypeOK /\ SwitchInv /\ [Next]_vars => (TypeOK /\ SwitchInv)'
  BY TypeStep, SwitchStep
<1>2. TypeOK /\ SwitchInv => KillSwitchSlack
  BY SwitchBounded DEF TypeOK, SwitchInv, KillSwitchSlack
<1> QED BY TypeInit, SwitchInit, <1>1, <1>2, PTL DEF Spec

-----------------------------------------------------------------------------
(***************************************************************************)
(* Tasks that have counted the day's orders and not yet inserted theirs.   *)
(***************************************************************************)
PastCount == {w \in Workers : wpc[w] \in {"first", "submit", "stop", "persist"}}

CapInv ==
  /\ IsFiniteSet(today)
  /\ \/ today = {} /\ PastCount = {}
     \/ Cardinality(today) + Cardinality(PastCount)
          < MaxOrdersPerDay + Cardinality(Workers)

LEMMA CountBounded ==
  /\ IsFiniteSet(PastCount) /\ Cardinality(PastCount) \in Nat
  /\ Cardinality(PastCount) <= Cardinality(Workers)
  /\ Cardinality(Workers) \in Nat
<1>1. IsFiniteSet(Workers) /\ PastCount \in SUBSET Workers
  BY ConstantsAssumption DEF PastCount
<1> QED BY <1>1, FS_Subset, FS_CardinalityType

\* A step that adds no row of today and lets no task past the count.
NoneCounted == today' \subseteq today /\ PastCount' \subseteq PastCount

LEMMA NoneCountedStep == CapInv /\ NoneCounted => CapInv'
<1> SUFFICES ASSUME CapInv, NoneCounted PROVE CapInv'
  OBVIOUS
<1>1. /\ IsFiniteSet(today') /\ IsFiniteSet(PastCount')
      /\ Cardinality(today') <= Cardinality(today)
      /\ Cardinality(PastCount') <= Cardinality(PastCount)
  BY CountBounded, FS_Subset DEF NoneCounted, CapInv
<1>2. /\ Cardinality(today') \in Nat /\ Cardinality(PastCount') \in Nat
      /\ Cardinality(today) \in Nat /\ Cardinality(PastCount) \in Nat
      /\ Cardinality(Workers) \in Nat /\ MaxOrdersPerDay \in Nat
  BY <1>1, CountBounded, FS_CardinalityType, ConstantsAssumption DEF CapInv
<1> QED BY <1>1, <1>2 DEF NoneCounted, CapInv

\* A task that was past the count inserts its row.
LEMMA InsertStep ==
  ASSUME CapInv, NEW w \in PastCount, NEW p,
         today' \subseteq today \cup {p}, PastCount' \subseteq PastCount \ {w}
  PROVE  CapInv'
<1>1. /\ IsFiniteSet(today \cup {p})
      /\ Cardinality(today \cup {p}) <= Cardinality(today) + 1
      /\ Cardinality(today) \in Nat
  <2>1. IsFiniteSet(today)
    BY DEF CapInv
  <2>2. Cardinality(today) \in Nat
    BY <2>1, FS_CardinalityType
  <2>3. /\ IsFiniteSet(today \cup {p})
        /\ Cardinality(today \cup {p}) =
             IF p \in today THEN Cardinality(today) ELSE Cardinality(today) + 1
    BY <2>1, FS_AddElement
  <2> QED BY <2>2, <2>3
<1>2. /\ IsFiniteSet(PastCount \ {w})
      /\ Cardinality(PastCount \ {w}) = Cardinality(PastCount) - 1
  BY CountBounded, FS_RemoveElement
<1>3. /\ IsFiniteSet(today') /\ IsFiniteSet(PastCount')
      /\ Cardinality(today') <= Cardinality(today \cup {p})
      /\ Cardinality(PastCount') <= Cardinality(PastCount) - 1
  BY <1>1, <1>2, FS_Subset
<1>4. /\ Cardinality(today') \in Nat /\ Cardinality(PastCount') \in Nat
      /\ Cardinality(today \cup {p}) \in Nat /\ Cardinality(PastCount) \in Nat
      /\ Cardinality(Workers) \in Nat /\ MaxOrdersPerDay \in Nat
  BY <1>1, <1>3, CountBounded, FS_CardinalityType, ConstantsAssumption
<1> QED BY <1>1, <1>3, <1>4 DEF CapInv

LEMMA CapInit == Init => CapInv
<1> SUFFICES ASSUME Init PROVE CapInv
  OBVIOUS
<1>1. today = {} /\ PastCount = {}
  BY DEF Init, PastCount
<1> QED BY <1>1, FS_EmptySet DEF CapInv

LEMMA CapStep == TypeOK /\ CapInv /\ [Next]_vars => CapInv'
<1> SUFFICES ASSUME TypeOK, CapInv, [Next]_vars PROVE CapInv'
  OBVIOUS
<1> USE DEF dbVars, sweepVars, handlerVars, workerVars, exchangeVars
<1>1. CASE UNCHANGED <<today, wpc>>
  BY <1>1, NoneCountedStep DEF NoneCounted, PastCount
<1>2. CASE \E p \in Proposals : Propose(p) \/ PaperMatch(p) \/ ExchangeFill(p)
  BY <1>1, <1>2 DEF Propose, PaperMatch, ExchangeFill
<1>3. CASE Tick \/ Pause \/ Resume \/ Reconcile
  BY <1>1, <1>3 DEF Tick, Pause, Resume, Reconcile, SetSwitch
<1>4. CASE NewDay
  BY <1>4, NoneCountedStep DEF NewDay, NoneCounted, PastCount
<1>5. CASE \E s \in Sweepers : Sweep(s) \/ LoseSweeper(s)
  BY <1>1, <1>5 DEF Sweep, SelectRipe, ApproveBatch, EnqueueOne, SelectStale,
                    ExpireBatch, LoseSweeper
<1>6. CASE \E h \in Handlers :
             \/ Approval(h) \/ LoseHandler(h)
             \/ \E p \in Proposals : ClickApprove(h, p) \/ RejectTx(h, p)
  BY <1>1, <1>6 DEF Approval, ApproveTx, ExpireTx, RefuseTx, EnqueueApproved,
                    LoseHandler, ClickApprove, RejectTx
<1>7. ASSUME NEW w \in Workers, NEW p \in Proposals, Take(w, p) PROVE CapInv'
  <2>1. NoneCounted
    BY <1>7 DEF Take, Goto, NoneCounted, PastCount, TypeOK
  <2> QED BY <2>1, NoneCountedStep
<1>8. ASSUME NEW w \in Workers, Task(w) PROVE CapInv'
  <2> USE DEF Goto, NoneCounted, PastCount, TypeOK
  <2>1. CASE RailSwitch(w)
    BY <2>1, NoneCountedStep DEF RailSwitch, Rail, Verdict
  <2>2. CASE RailCount(w)
    <3>1. CASE DayHasRoom /\ wprop[w] \in Admitted
      <4>1. today' = today /\ Cardinality(today) < MaxOrdersPerDay
        BY <2>2, <3>1 DEF RailCount, Rail, DayHasRoom
      <4> HIDE DEF PastCount, TypeOK
      <4>2. /\ Cardinality(PastCount') \in Nat
            /\ Cardinality(PastCount') <= Cardinality(Workers)
        <5>1. IsFiniteSet(Workers) /\ PastCount' \in SUBSET Workers
          BY ConstantsAssumption DEF PastCount
        <5> QED BY <5>1, FS_Subset, FS_CardinalityType
      <4>3. Cardinality(today) \in Nat /\ Cardinality(Workers) \in Nat
            /\ MaxOrdersPerDay \in Nat /\ IsFiniteSet(today')
        BY <4>1, CountBounded, FS_CardinalityType, ConstantsAssumption DEF CapInv
      <4> QED BY <4>1, <4>2, <4>3 DEF CapInv
    <3>2. CASE ~(DayHasRoom /\ wprop[w] \in Admitted)
      BY <2>2, <3>2, NoneCountedStep DEF RailCount, Rail, Verdict
    <3> QED BY <3>1, <3>2
  <2>3. CASE RailFirst(w)
    <3>1. w \in PastCount
      BY <2>3 DEF RailFirst, Rail
    <3> QED BY <2>3, <3>1, RailsMove, NoneCountedStep DEF RailsOnly
  <2>4. CASE RecordBlock(w) \/ FailProposal(w) \/ AttachStop(w) \/ Ack(w)
    BY <2>4, NoneCountedStep DEF RecordBlock, FailProposal, AttachStop, Ack
  <2>5. CASE SubmitPaper(w) \/ EntryRefused(w) \/ SubmitRaises(w)
    BY <2>5, NoneCountedStep DEF SubmitPaper, EntryRefused, SubmitRaises
  <2>6. CASE SubmitEntry(w)
    BY <2>6, NoneCountedStep DEF SubmitEntry, Accepted
  <2>7. CASE Persist(w)
    <3>1. w \in PastCount /\ PastCount' \subseteq PastCount \ {w}
      BY <2>7 DEF Persist
    <3>2. today' \subseteq today \cup {wprop[w]}
      BY <2>7 DEF Persist
    <3> HIDE DEF PastCount, TypeOK
    <3> QED BY <3>1, <3>2, InsertStep
  <2> QED BY <1>8, <2>1, <2>2, <2>3, <2>4, <2>5, <2>6, <2>7 DEF Task
<1>9. ASSUME NEW w \in Workers, LoseWorker(w) PROVE CapInv'
  <2>1. NoneCounted
    BY <1>9 DEF LoseWorker, Goto, NoneCounted, PastCount, TypeOK
  <2> QED BY <2>1, NoneCountedStep
<1>10. CASE UNCHANGED vars
  BY <1>1, <1>10 DEF vars
<1> QED
  BY <1>2, <1>3, <1>4, <1>5, <1>6, <1>7, <1>8, <1>9, <1>10 DEF Next

\* The day's cap is overshot by at most one order per further worker process
\* (policy_rails.py 130-134, worker.py 111-155).
THEOREM CapHolds == Spec => []DailyCapSlack
<1>1. TypeOK /\ CapInv /\ [Next]_vars => (TypeOK /\ CapInv)'
  BY TypeStep, CapStep
<1>2. CapInv => DailyCapSlack
  <2> SUFFICES ASSUME CapInv, today # {} PROVE DailyCapSlack
    BY DEF DailyCapSlack
  <2>1. /\ Cardinality(today) \in Nat /\ Cardinality(PastCount) \in Nat
        /\ Cardinality(Workers) \in Nat
    BY CountBounded, FS_CardinalityType DEF CapInv
  <2> QED BY <2>1, ConstantsAssumption DEF CapInv, DailyCapSlack
<1> QED BY TypeInit, CapInit, <1>1, <1>2, PTL DEF Spec

-----------------------------------------------------------------------------
(***************************************************************************)
(* A large proposal past its rail, with an entry or with a row, comes      *)
(* after a small one's row.                                                *)
(***************************************************************************)
SmallTraded == \E q \in Proposals \ Large : orders[q] # "none"

FirstInv ==
  /\ \A p \in today : orders[p] # "none"
  /\ \A p \in Large : orders[p] # "none" \/ entries[p] > 0 => SmallTraded
  /\ \A w \in Workers :
       wpc[w] \in {"submit", "stop", "persist"} /\ wprop[w] \in Large => SmallTraded

LEMMA FirstInit == Init => FirstInv
  BY ConstantsAssumption DEF Init, FirstInv

LEMMA FirstStep == TypeOK /\ FirstInv /\ [Next]_vars => FirstInv'
<1> SUFFICES ASSUME TypeOK, FirstInv, [Next]_vars PROVE FirstInv'
  OBVIOUS
<1> USE ConstantsAssumption
        DEF FirstInv, SmallTraded, TypeOK, Statuses, Fills,
            dbVars, sweepVars, handlerVars, workerVars, exchangeVars
<1>1. ASSUME NEW p \in Proposals, Propose(p) PROVE FirstInv'
  BY <1>1 DEF Propose
<1>2. CASE Tick \/ NewDay
  BY <1>2 DEF Tick, NewDay
<1>3. CASE Pause \/ Resume \/ Reconcile
  BY <1>3 DEF Pause, Resume, Reconcile, SetSwitch
<1>4. ASSUME NEW p \in Proposals, PaperMatch(p) PROVE FirstInv'
  BY <1>4 DEF PaperMatch
<1>5. ASSUME NEW p \in Proposals, ExchangeFill(p) PROVE FirstInv'
  BY <1>5 DEF ExchangeFill
<1>6. ASSUME NEW s \in Sweepers, Sweep(s) PROVE FirstInv'
  BY <1>6 DEF Sweep, SelectRipe, ApproveBatch, EnqueueOne, SelectStale,
              ExpireBatch
<1>7. ASSUME NEW h \in Handlers, Approval(h) PROVE FirstInv'
  BY <1>7 DEF Approval, ApproveTx, ExpireTx, RefuseTx, EnqueueApproved
<1>8. ASSUME NEW h \in Handlers, NEW p \in Proposals,
             ClickApprove(h, p) \/ RejectTx(h, p)
      PROVE  FirstInv'
  BY <1>8 DEF ClickApprove, RejectTx
<1>9. ASSUME NEW w \in Workers, NEW p \in Proposals, Take(w, p) PROVE FirstInv'
  BY <1>9 DEF Take, Goto
<1>10. ASSUME NEW w \in Workers, Task(w) PROVE FirstInv'
  <2> USE DEF Goto, Receipt
  <2>1. CASE RailSwitch(w)
    BY <2>1 DEF RailSwitch, Rail, Verdict
  <2>2. CASE RailCount(w)
    BY <2>2 DEF RailCount, Rail, Verdict
  <2>3. CASE RailFirst(w)
    <3>1. PICK funded \in BOOLEAN :
            Rail(w, "first", SizeAllowed(wprop[w]) /\ funded, "submit")
      BY <2>3 DEF RailFirst
    <3>2. CASE SizeAllowed(wprop[w]) /\ funded /\ wprop[w] \in Large
      <4>1. Cardinality(today) > 0
        BY <3>2 DEF SizeAllowed
      <4>2. today # {}
        <5> HIDE DEF FirstInv, TypeOK
        <5> QED BY <4>1, FS_EmptySet
      <4>3. SmallTraded
        BY <4>2
      <4> QED BY <3>1, <3>2, <4>3 DEF Rail, Verdict
    <3>3. CASE ~(SizeAllowed(wprop[w]) /\ funded)
      BY <3>1, <3>3 DEF Rail, Verdict
    <3>4. CASE wprop[w] \notin Large
      <4>1. \E to \in {"submit", "block"} : RailsOnly(w, to)
        BY <3>1 DEF Rail, Verdict, RailsOnly
      <4> QED BY <3>4, <4>1 DEF RailsOnly
    <3> QED BY <3>2, <3>3, <3>4
  <2>4. CASE RecordBlock(w) \/ FailProposal(w)
    BY <2>4 DEF RecordBlock, FailProposal
  <2>5. CASE SubmitPaper(w)
    BY <2>5 DEF SubmitPaper
  <2>6. CASE SubmitEntry(w)
    BY <2>6 DEF SubmitEntry, Accepted
  <2>7. CASE EntryRefused(w) \/ SubmitRaises(w)
    BY <2>7 DEF EntryRefused, SubmitRaises
  <2>8. CASE AttachStop(w)
    BY <2>8 DEF AttachStop
  <2>9. CASE Persist(w)
    BY <2>9 DEF Persist
  <2>10. CASE Ack(w)
    BY <2>10 DEF Ack
  <2> QED BY <1>10, <2>1, <2>2, <2>3, <2>4, <2>5, <2>6, <2>7, <2>8, <2>9, <2>10
          DEF Task
<1>11. ASSUME NEW s \in Sweepers, LoseSweeper(s) PROVE FirstInv'
  BY <1>11 DEF LoseSweeper
<1>12. ASSUME NEW h \in Handlers, LoseHandler(h) PROVE FirstInv'
  BY <1>12 DEF LoseHandler
<1>13. ASSUME NEW w \in Workers, LoseWorker(w) PROVE FirstInv'
  BY <1>13 DEF LoseWorker, Goto, Receipt
<1>14. CASE UNCHANGED vars
  BY <1>14 DEF vars
<1> QED
  BY <1>1, <1>2, <1>3, <1>4, <1>5, <1>6, <1>7, <1>8, <1>9, <1>10, <1>11,
     <1>12, <1>13, <1>14 DEF Next

\* The first entry of all is a small one (policy_rails.py 178-184).
THEOREM FirstTradeIsSmall == Spec => []FirstTradeSmall
<1>1. TypeOK /\ FirstInv /\ [Next]_vars => (TypeOK /\ FirstInv)'
  BY TypeStep, FirstStep
<1>2. FirstInv => FirstTradeSmall
  BY ConstantsAssumption DEF FirstInv, SmallTraded, FirstTradeSmall
<1> QED BY TypeInit, FirstInit, <1>1, <1>2, PTL DEF Spec


-----------------------------------------------------------------------------
(***************************************************************************)
(* Entry orders.  An approval that is under way is held by exactly one of  *)
(* a sweep, a callback, a message, a task that has not yet called the      *)
(* exchange and an entry; only a loss makes one more of it.  Once the      *)
(* proposal is decided no new approval starts, and until then none has.    *)
(***************************************************************************)
Sweeping(p) == {s \in Sweepers : spc[s] \in {"approve", "enqueue"} /\ p \in batch[s]}
Publishing(p) == {h \in Handlers : hpc[h] = "enqueue" /\ hprop[h] = p}
Trading(p) == {w \in Workers : /\ wprop[w] = p
                               /\ wpc[w] \in {"switch", "count", "first", "submit"}}
Credit(p) == entries[p] + queue[p] + Cardinality(Sweeping(p))
             + Cardinality(Publishing(p)) + Cardinality(Trading(p))

Undecided(p) == status[p] \in {"none", "pending"}
CreditOf(p) == ~Undecided(p) => Credit(p) <= Approvers + crashes

\* Sweeps approve only where automatic approval is configured.
AutoOnly == \A s \in Sweepers : spc[s] \in {"approve", "enqueue"} => AutoApprove
CreditInv == AutoOnly /\ \A p \in Proposals : CreditOf(p)

CreditTyped(p) ==
  /\ entries[p] \in Nat /\ queue[p] \in Nat /\ crashes \in Nat
  /\ IsFiniteSet(Sweeping(p)) /\ Cardinality(Sweeping(p)) \in Nat
  /\ Cardinality(Sweeping(p)) <= Cardinality(Sweepers)
  /\ IsFiniteSet(Publishing(p)) /\ Cardinality(Publishing(p)) \in Nat
  /\ IsFiniteSet(Trading(p)) /\ Cardinality(Trading(p)) \in Nat
AllTyped == \A p \in Proposals : CreditTyped(p)

LEMMA ApproversTyped ==
  Approvers \in Nat /\ Cardinality(Sweepers) \in Nat
<1>1. Cardinality(Sweepers) \in Nat
  BY ConstantsAssumption, FS_CardinalityType
<1> QED BY <1>1 DEF Approvers

LEMMA CreditsTyped == TypeOK => AllTyped
<1> SUFFICES ASSUME TypeOK, NEW p \in Proposals PROVE CreditTyped(p)
  BY DEF AllTyped
<1>1. entries[p] \in Nat /\ queue[p] \in Nat /\ crashes \in Nat
  <2>1. /\ entries \in [Proposals -> Nat] /\ queue \in [Proposals -> Nat]
        /\ crashes \in 0..MaxCrashes
    BY DEF TypeOK
  <2> QED BY <2>1, ConstantsAssumption
<1>2. /\ Sweeping(p) \in SUBSET Sweepers /\ Publishing(p) \in SUBSET Handlers
      /\ Trading(p) \in SUBSET Workers
  BY DEF Sweeping, Publishing, Trading
<1>3. IsFiniteSet(Sweepers) /\ IsFiniteSet(Handlers) /\ IsFiniteSet(Workers)
  BY ConstantsAssumption
<1>4. /\ IsFiniteSet(Sweeping(p)) /\ Cardinality(Sweeping(p)) <= Cardinality(Sweepers)
      /\ IsFiniteSet(Publishing(p)) /\ IsFiniteSet(Trading(p))
  BY <1>2, <1>3, FS_Subset
<1>5. /\ Cardinality(Sweeping(p)) \in Nat /\ Cardinality(Publishing(p)) \in Nat
      /\ Cardinality(Trading(p)) \in Nat
  BY <1>4, FS_CardinalityType
<1> QED BY <1>1, <1>4, <1>5 DEF CreditTyped

LEMMA TypedNow ==
  ASSUME TypeOK, NEW p \in Proposals
  PROVE  CreditTyped(p)
  BY CreditsTyped DEF AllTyped

LEMMA TypedNext ==
  ASSUME TypeOK', NEW p \in Proposals
  PROVE  CreditTyped(p)'
<1>1. AllTyped'
  BY CreditsTyped, PTL
<1> QED BY <1>1 DEF AllTyped

\* A step that moves approvals from one holder to the next.
LEMMA CreditMoves ==
  ASSUME TypeOK, TypeOK', NEW p \in Proposals, CreditOf(p), ~Undecided(p),
         Credit(p)' + crashes <= Credit(p) + crashes'
  PROVE  CreditOf(p)'
<1>1. Credit(p) \in Nat /\ crashes \in Nat
  BY TypedNow DEF CreditTyped, Credit
<1>2. Credit(p)' \in Nat /\ crashes' \in Nat
  BY TypedNext DEF CreditTyped, Credit
<1>3. Credit(p) <= Approvers + crashes
  BY DEF CreditOf
<1>4. Credit(p)' <= Approvers + crashes'
  BY <1>1, <1>2, <1>3, ApproversTyped
<1> QED BY <1>4 DEF CreditOf, Approvers

\* A step that starts no approval of a decided proposal.
Quiet(p) ==
  /\ entries'[p] = entries[p] /\ queue'[p] = queue[p]
  /\ crashes' \in {crashes, crashes + 1}
  /\ Sweeping(p)' \subseteq Sweeping(p)
  /\ Publishing(p)' \subseteq Publishing(p)
  /\ Trading(p)' \subseteq Trading(p)

LEMMA CreditSteady ==
  ASSUME TypeOK, TypeOK', NEW p \in Proposals, CreditOf(p), ~Undecided(p), Quiet(p)
  PROVE  CreditOf(p)'
<1>1. /\ entries[p] \in Nat /\ queue[p] \in Nat /\ crashes \in Nat
      /\ IsFiniteSet(Sweeping(p)) /\ Cardinality(Sweeping(p)) \in Nat
      /\ IsFiniteSet(Publishing(p)) /\ Cardinality(Publishing(p)) \in Nat
      /\ IsFiniteSet(Trading(p)) /\ Cardinality(Trading(p)) \in Nat
  BY TypedNow DEF CreditTyped
<1>2. /\ Cardinality(Sweeping(p)') \in Nat /\ Cardinality(Publishing(p)') \in Nat
      /\ Cardinality(Trading(p)') \in Nat
  BY TypedNext DEF CreditTyped
<1>3. /\ Sweeping(p)' \in SUBSET Sweeping(p) /\ Publishing(p)' \in SUBSET Publishing(p)
      /\ Trading(p)' \in SUBSET Trading(p)
  BY DEF Quiet
<1>4. /\ Cardinality(Sweeping(p)') <= Cardinality(Sweeping(p))
      /\ Cardinality(Publishing(p)') <= Cardinality(Publishing(p))
      /\ Cardinality(Trading(p)') <= Cardinality(Trading(p))
  BY <1>1, <1>3, FS_Subset
<1>5. /\ entries'[p] = entries[p] /\ queue'[p] = queue[p]
      /\ crashes' = crashes \/ crashes' = crashes + 1
  BY DEF Quiet
<1>6. Credit(p)' + crashes <= Credit(p) + crashes'
  BY <1>1, <1>2, <1>4, <1>5 DEF Credit
<1> QED BY <1>6, CreditMoves

\* The step that decides a proposal: nothing of it is on its way yet, and what
\* comes of it is what the sweeps have selected and one callback approves.
LEMMA CreditOpened ==
  ASSUME TypeOK, TypeOK', RejectInv, AutoOnly', NEW p \in Proposals, Undecided(p),
         entries'[p] = entries[p], queue'[p] = queue[p], crashes' = crashes,
         Trading(p)' = Trading(p),
         \/ Publishing(p)' = Publishing(p)
         \/ \E h \in Handlers : Publishing(p)' \subseteq Publishing(p) \cup {h}
  PROVE  CreditOf(p)'
<1>1. /\ queue[p] = 0 /\ OnTask(p) = {} /\ entries[p] = 0
      /\ \A h \in Handlers : hpc[h] = "enqueue" => hprop[h] # p
  BY DEF Undecided, RejectInv, RejectedNeverTraded, ApprovedFirst, Untouched
<1>2. Trading(p) = {} /\ Publishing(p) = {}
  BY <1>1 DEF Trading, Publishing, OnTask
<1>3. /\ Cardinality(Sweeping(p)') \in Nat /\ Cardinality(Publishing(p)') \in Nat
      /\ Cardinality(Sweeping(p)') <= Cardinality(Sweepers) /\ crashes \in Nat
  BY TypedNow, TypedNext DEF CreditTyped
<1>4. Cardinality(Sweeping(p)') <= IF AutoApprove THEN Cardinality(Sweepers) ELSE 0
  <2>1. CASE AutoApprove
    BY <1>3, <2>1
  <2>2. CASE ~AutoApprove
    <3>1. Sweeping(p)' = {}
      BY <2>2 DEF AutoOnly, Sweeping
    <3> QED BY <2>2, <3>1, FS_EmptySet
  <2> QED BY <2>1, <2>2
<1>5. Cardinality(Publishing(p)') <= IF Handlers = {} THEN 0 ELSE 1
  <2>1. CASE Publishing(p)' = {}
    BY <2>1, FS_EmptySet
  <2>2. CASE Publishing(p)' # {}
    <3>1. PICK h \in Handlers : Publishing(p)' = {h}
      BY <1>2, <2>2
    <3>2. Cardinality({h}) = 1
      BY FS_Singleton
    <3> QED BY <3>1, <3>2
  <2> QED BY <2>1, <2>2
<1>6. Cardinality(Trading(p)') = 0
  BY <1>2, FS_EmptySet
<1>7. Credit(p)' <= Approvers + crashes'
  BY <1>1, <1>3, <1>4, <1>5, <1>6, ApproversTyped DEF Credit, Approvers
<1> QED BY <1>7 DEF CreditOf, Approvers


LEMMA Fewer ==
  ASSUME NEW S, IsFiniteSet(S), NEW x \in S, NEW T, T \subseteq S \ {x}
  PROVE  Cardinality(T) + 1 <= Cardinality(S)
<1>1. /\ IsFiniteSet(S \ {x}) /\ Cardinality(S \ {x}) = Cardinality(S) - 1
  BY FS_RemoveElement
<1>2. IsFiniteSet(T) /\ Cardinality(T) <= Cardinality(S \ {x})
  BY <1>1, FS_Subset
<1>3. Cardinality(T) \in Nat /\ Cardinality(S) \in Nat
  BY <1>2, FS_CardinalityType
<1> QED BY <1>1, <1>2, <1>3

LEMMA NoMore ==
  ASSUME NEW S, IsFiniteSet(S), NEW T, T \subseteq S
  PROVE  Cardinality(T) <= Cardinality(S)
  BY FS_Subset

LEMMA OneMore ==
  ASSUME NEW S, IsFiniteSet(S), NEW x, NEW T, T \subseteq S \cup {x}
  PROVE  Cardinality(T) <= Cardinality(S) + 1
<1>1. /\ IsFiniteSet(S \cup {x})
      /\ Cardinality(S \cup {x}) =
           IF x \in S THEN Cardinality(S) ELSE Cardinality(S) + 1
  BY FS_AddElement
<1>2. IsFiniteSet(T) /\ Cardinality(T) <= Cardinality(S \cup {x})
  BY <1>1, FS_Subset
<1>3. Cardinality(T) \in Nat /\ Cardinality(S) \in Nat
  BY <1>2, FS_CardinalityType
<1> QED BY <1>1, <1>2, <1>3

\* From a sweep or a callback to the broker.
LEMMA CreditPublished ==
  ASSUME TypeOK, TypeOK', NEW p \in Proposals, CreditOf(p), ~Undecided(p),
         entries'[p] = entries[p], queue'[p] = queue[p] + 1, crashes' = crashes,
         Trading(p)' = Trading(p),
         \/ /\ Publishing(p)' = Publishing(p)
            /\ \E s \in Sweeping(p) : Sweeping(p)' \subseteq Sweeping(p) \ {s}
         \/ /\ Sweeping(p)' = Sweeping(p)
            /\ \E h \in Publishing(p) : Publishing(p)' \subseteq Publishing(p) \ {h}
  PROVE  CreditOf(p)'
<1>1. /\ entries[p] \in Nat /\ queue[p] \in Nat /\ crashes \in Nat
      /\ IsFiniteSet(Sweeping(p)) /\ Cardinality(Sweeping(p)) \in Nat
      /\ IsFiniteSet(Publishing(p)) /\ Cardinality(Publishing(p)) \in Nat
      /\ Cardinality(Trading(p)) \in Nat
  BY TypedNow DEF CreditTyped
<1>2. /\ Cardinality(Sweeping(p)') \in Nat /\ Cardinality(Publishing(p)') \in Nat
  BY TypedNext DEF CreditTyped
<1>3. Cardinality(Sweeping(p)') + Cardinality(Publishing(p)') + 1
        <= Cardinality(Sweeping(p)) + Cardinality(Publishing(p))
  <2>1. CASE \E s \in Sweeping(p) : /\ Publishing(p)' = Publishing(p)
                                    /\ Sweeping(p)' \subseteq Sweeping(p) \ {s}
    <3>1. Cardinality(Sweeping(p)') + 1 <= Cardinality(Sweeping(p))
      BY <1>1, <2>1, Fewer
    <3>2. Cardinality(Publishing(p)') = Cardinality(Publishing(p))
      BY <2>1
    <3> QED BY <1>1, <1>2, <3>1, <3>2
  <2>2. CASE \E h \in Publishing(p) : /\ Sweeping(p)' = Sweeping(p)
                                      /\ Publishing(p)' \subseteq Publishing(p) \ {h}
    <3>1. Cardinality(Publishing(p)') + 1 <= Cardinality(Publishing(p))
      BY <1>1, <2>2, Fewer
    <3>2. Cardinality(Sweeping(p)') = Cardinality(Sweeping(p))
      BY <2>2
    <3> QED BY <1>1, <1>2, <3>1, <3>2
  <2> QED BY <2>1, <2>2
<1>4. Credit(p)' + crashes <= Credit(p) + crashes'
  BY <1>1, <1>2, <1>3 DEF Credit
<1> QED BY <1>4, CreditMoves

\* The broker's message to a task, a task's call to the exchange, and a lost
\* worker's message back to the broker.
LEMMA CreditWorked ==
  ASSUME TypeOK, TypeOK', NEW p \in Proposals, CreditOf(p), ~Undecided(p),
         NEW w, Sweeping(p)' = Sweeping(p), Publishing(p)' = Publishing(p),
         \/ /\ entries'[p] = entries[p] /\ queue'[p] = queue[p] - 1
            /\ crashes' = crashes
            /\ Trading(p)' \subseteq Trading(p) \cup {w}
         \/ /\ entries'[p] = entries[p] + 1 /\ queue'[p] = queue[p]
            /\ crashes' = crashes
            /\ w \in Trading(p) /\ Trading(p)' \subseteq Trading(p) \ {w}
         \/ /\ entries'[p] = entries[p] /\ queue'[p] = queue[p] + 1
            /\ crashes' = crashes + 1
            /\ Trading(p)' \subseteq Trading(p)
  PROVE  CreditOf(p)'
<1>1. /\ entries[p] \in Nat /\ queue[p] \in Nat /\ crashes \in Nat
      /\ Cardinality(Sweeping(p)) \in Nat /\ Cardinality(Publishing(p)) \in Nat
      /\ IsFiniteSet(Trading(p)) /\ Cardinality(Trading(p)) \in Nat
  BY TypedNow DEF CreditTyped
<1>2. Cardinality(Trading(p)') \in Nat
  BY TypedNext DEF CreditTyped
<1>3. /\ Cardinality(Sweeping(p)') = Cardinality(Sweeping(p))
      /\ Cardinality(Publishing(p)') = Cardinality(Publishing(p))
  OBVIOUS
<1>4. CASE /\ entries'[p] = entries[p] /\ queue'[p] = queue[p] - 1
           /\ crashes' = crashes /\ Trading(p)' \subseteq Trading(p) \cup {w}
  <2>1. Cardinality(Trading(p)') <= Cardinality(Trading(p)) + 1
    BY <1>1, <1>4, OneMore
  <2>2. Credit(p)' + crashes <= Credit(p) + crashes'
    BY <1>1, <1>2, <1>3, <1>4, <2>1 DEF Credit
  <2> QED BY <2>2, CreditMoves
<1>5. CASE /\ entries'[p] = entries[p] + 1 /\ queue'[p] = queue[p]
           /\ crashes' = crashes
           /\ w \in Trading(p) /\ Trading(p)' \subseteq Trading(p) \ {w}
  <2>1. Cardinality(Trading(p)') + 1 <= Cardinality(Trading(p))
    BY <1>1, <1>5, Fewer
  <2>2. Credit(p)' + crashes <= Credit(p) + crashes'
    BY <1>1, <1>2, <1>3, <1>5, <2>1 DEF Credit
  <2> QED BY <2>2, CreditMoves
<1>6. CASE /\ entries'[p] = entries[p] /\ queue'[p] = queue[p] + 1
           /\ crashes' = crashes + 1 /\ Trading(p)' \subseteq Trading(p)
  <2>1. Cardinality(Trading(p)') <= Cardinality(Trading(p))
    BY <1>1, <1>6, NoMore
  <2>2. Credit(p)' + crashes <= Credit(p) + crashes'
    BY <1>1, <1>2, <1>3, <1>6, <2>1 DEF Credit
  <2> QED BY <2>2, CreditMoves
<1> QED BY <1>4, <1>5, <1>6


\* Only a sweep's selection leads to an approval by a sweep.
LEMMA AutoStep == TypeOK /\ AutoOnly /\ [Next]_vars => AutoOnly'
<1> SUFFICES ASSUME TypeOK, AutoOnly, [Next]_vars PROVE AutoOnly'
  OBVIOUS
<1> USE DEF AutoOnly, dbVars, sweepVars, handlerVars, workerVars, exchangeVars
<1>1. CASE spc' = spc
  BY <1>1
<1>2. CASE \E p \in Proposals : Propose(p) \/ PaperMatch(p) \/ ExchangeFill(p)
  BY <1>1, <1>2 DEF Propose, PaperMatch, ExchangeFill
<1>3. CASE Tick \/ NewDay \/ Pause \/ Resume \/ Reconcile
  BY <1>1, <1>3 DEF Tick, NewDay, Pause, Resume, Reconcile, SetSwitch
<1>4. ASSUME NEW s \in Sweepers, Sweep(s) \/ LoseSweeper(s) PROVE AutoOnly'
  <2>0. spc \in [Sweepers -> {"idle", "approve", "enqueue", "scan", "expire"}]
    BY DEF TypeOK
  <2>1. CASE SelectRipe(s)
    <3>1. spc'[s] = "approve" => AutoApprove
      BY <2>0, <2>1 DEF SelectRipe
    <3>2. /\ spc'[s] # "enqueue"
          /\ \A x \in Sweepers : x # s => spc'[x] = spc[x]
      BY <2>0, <2>1 DEF SelectRipe
    <3> QED BY <3>1, <3>2
  <2>2. CASE ApproveBatch(s) \/ EnqueueOne(s) \/ SelectStale(s)
             \/ ExpireBatch(s) \/ LoseSweeper(s)
    BY <2>0, <2>2
       DEF ApproveBatch, EnqueueOne, SelectStale, ExpireBatch, LoseSweeper
  <2> QED BY <1>4, <2>1, <2>2 DEF Sweep
<1>5. CASE \E h \in Handlers :
             \/ Approval(h) \/ LoseHandler(h)
             \/ \E p \in Proposals : ClickApprove(h, p) \/ RejectTx(h, p)
  BY <1>1, <1>5 DEF Approval, ApproveTx, ExpireTx, RefuseTx, EnqueueApproved,
                    LoseHandler, ClickApprove, RejectTx
<1>6. CASE \E w \in Workers : \E p \in Proposals : Take(w, p)
  BY <1>1, <1>6 DEF Take
<1>7. ASSUME NEW w \in Workers, Task(w) PROVE spc' = spc
  <2>1. CASE RailSwitch(w) \/ RailCount(w) \/ RailFirst(w)
    BY <2>1, RailsMove DEF RailsOnly
  <2>2. CASE ~(RailSwitch(w) \/ RailCount(w) \/ RailFirst(w))
    BY <1>7, <2>2 DEF Task, RecordBlock, FailProposal, SubmitPaper, SubmitEntry, Accepted,
                      EntryRefused, SubmitRaises, AttachStop, Persist, Ack
  <2> QED BY <2>1, <2>2
<1>8. CASE \E w \in Workers : LoseWorker(w)
  BY <1>1, <1>8 DEF LoseWorker
<1>9. CASE UNCHANGED vars
  BY <1>1, <1>9 DEF vars
<1> QED BY <1>1, <1>2, <1>3, <1>4, <1>5, <1>6, <1>7, <1>8, <1>9 DEF Next

LEMMA CreditInit == Init => CreditInv
  BY DEF Init, CreditInv, AutoOnly, CreditOf, Undecided

\* A decided proposal: its approvals move on, and none starts.
LEMMA CreditDecided ==
  ASSUME TypeOK, TypeOK', NEW p \in Proposals, CreditOf(p), ~Undecided(p), [Next]_vars
  PROVE  CreditOf(p)'
<1> USE DEF dbVars, sweepVars, handlerVars, workerVars, exchangeVars
<1>1. CASE UNCHANGED <<entries, queue, crashes, spc, batch, hpc, hprop, wpc, wprop>>
  <2>1. Quiet(p)
    BY <1>1 DEF Quiet, Sweeping, Publishing, Trading
  <2> QED BY <2>1, CreditSteady
<1>2. CASE \E q \in Proposals : Propose(q) \/ PaperMatch(q) \/ ExchangeFill(q)
  BY <1>1, <1>2 DEF Propose, PaperMatch, ExchangeFill
<1>3. CASE Tick \/ NewDay \/ Pause \/ Resume \/ Reconcile
  BY <1>1, <1>3 DEF Tick, NewDay, Pause, Resume, Reconcile, SetSwitch
<1>4. ASSUME NEW s \in Sweepers, Sweep(s) \/ LoseSweeper(s) PROVE CreditOf(p)'
  <2>0. /\ spc \in [Sweepers -> {"idle", "approve", "enqueue", "scan", "expire"}]
        /\ batch \in [Sweepers -> SUBSET Proposals]
        /\ queue \in [Proposals -> Nat] /\ crashes \in Nat
    BY ConstantsAssumption DEF TypeOK
  <2>1. CASE SelectRipe(s)
    <3>1. Sweeping(p)' \subseteq Sweeping(p)
      <4>1. batch'[s] \subseteq {q \in Proposals : Ripe(q)} /\ p \notin batch'[s]
        BY <2>0, <2>1 DEF SelectRipe, Ripe, Undecided
      <4>2. \A x \in Sweepers : x # s => spc'[x] = spc[x] /\ batch'[x] = batch[x]
        BY <2>0, <2>1 DEF SelectRipe
      <4> QED BY <4>1, <4>2 DEF Sweeping
    <3>2. Quiet(p)
      BY <2>1, <3>1 DEF SelectRipe, Quiet, Publishing, Trading
    <3> QED BY <3>2, CreditSteady
  <2>2. CASE ApproveBatch(s) \/ SelectStale(s) \/ ExpireBatch(s)
    <3>1. Sweeping(p)' \subseteq Sweeping(p)
      BY <2>0, <2>2 DEF ApproveBatch, SelectStale, ExpireBatch, Sweeping
    <3>2. Quiet(p)
      BY <2>2, <3>1
         DEF ApproveBatch, SelectStale, ExpireBatch, Quiet, Publishing, Trading
    <3> QED BY <3>2, CreditSteady
  <2>3. CASE LoseSweeper(s)
    <3>1. Sweeping(p)' \subseteq Sweeping(p)
      BY <2>0, <2>3 DEF LoseSweeper, Sweeping
    <3>2. Quiet(p)
      BY <2>3, <3>1 DEF LoseSweeper, Lose, Quiet, Publishing, Trading
    <3> QED BY <3>2, CreditSteady
  <2>4. CASE EnqueueOne(s)
    <3>1. PICK q \in batch[s] :
            /\ queue' = Published(q)
            /\ batch' = [batch EXCEPT ![s] = @ \ {q}]
            /\ spc' = [spc EXCEPT ![s] = IF batch[s] = {q} THEN "scan" ELSE "enqueue"]
      BY <2>4 DEF EnqueueOne
    <3>2. /\ spc[s] = "enqueue" /\ entries' = entries /\ crashes' = crashes
          /\ Publishing(p)' = Publishing(p) /\ Trading(p)' = Trading(p)
      BY <2>4 DEF EnqueueOne, Publishing, Trading
    <3>3. CASE q = p
      <4>1. queue'[p] = queue[p] + 1
        BY <2>0, <3>1, <3>3 DEF Published
      <4>2. s \in Sweeping(p)
        BY <3>1, <3>2, <3>3 DEF Sweeping
      <4>3. Sweeping(p)' \subseteq Sweeping(p) \ {s}
        BY <2>0, <3>1, <3>3 DEF Sweeping
      <4> QED BY <3>2, <4>1, <4>2, <4>3, CreditPublished
    <3>4. CASE q # p
      <4>1. queue'[p] = queue[p]
        BY <2>0, <3>1, <3>4 DEF Published
      <4>2. Sweeping(p)' \subseteq Sweeping(p)
        BY <2>0, <3>1, <3>2 DEF Sweeping
      <4>3. Quiet(p)
        BY <3>2, <4>1, <4>2 DEF Quiet
      <4> QED BY <4>3, CreditSteady
    <3> QED BY <3>3, <3>4
  <2> QED BY <1>4, <2>1, <2>2, <2>3, <2>4 DEF Sweep
<1>5. ASSUME NEW h \in Handlers,
             \/ Approval(h) \/ LoseHandler(h)
             \/ \E q \in Proposals : ClickApprove(h, q) \/ RejectTx(h, q)
      PROVE  CreditOf(p)'
  <2>0. /\ hpc \in [Handlers -> {"idle", "lock", "enqueue"}]
        /\ hprop \in [Handlers -> Proposals \cup {NoProposal}]
        /\ hpc[h] # "idle" => hprop[h] \in Proposals
        /\ queue \in [Proposals -> Nat] /\ crashes \in Nat
    BY ConstantsAssumption DEF TypeOK
  <2>1. CASE ApproveTx(h)
    <3>1. Publishing(p)' \subseteq Publishing(p)
      BY <2>0, <2>1 DEF ApproveTx, Publishing, Decidable, Undecided
    <3>2. Quiet(p)
      BY <2>1, <3>1 DEF ApproveTx, Quiet, Sweeping, Trading
    <3> QED BY <3>2, CreditSteady
  <2>2. CASE ExpireTx(h) \/ RefuseTx(h) \/ LoseHandler(h)
    <3>1. Publishing(p)' \subseteq Publishing(p)
      BY <2>0, <2>2 DEF ExpireTx, RefuseTx, LoseHandler, Done, Publishing
    <3>2. Quiet(p)
      BY <2>2, <3>1
         DEF ExpireTx, RefuseTx, LoseHandler, Lose, Quiet, Sweeping, Trading
    <3> QED BY <3>2, CreditSteady
  <2>3. CASE \E q \in Proposals : ClickApprove(h, q) \/ RejectTx(h, q)
    <3>1. Publishing(p)' \subseteq Publishing(p)
      BY <2>0, <2>3 DEF ClickApprove, RejectTx, Publishing
    <3>2. Quiet(p)
      BY <2>3, <3>1 DEF ClickApprove, RejectTx, Quiet, Sweeping, Trading
    <3> QED BY <3>2, CreditSteady
  <2>4. CASE EnqueueApproved(h)
    <3>1. /\ hpc[h] = "enqueue" /\ queue' = Published(hprop[h])
          /\ entries' = entries /\ crashes' = crashes
          /\ Sweeping(p)' = Sweeping(p) /\ Trading(p)' = Trading(p)
      BY <2>4 DEF EnqueueApproved, Sweeping, Trading
    <3>2. Publishing(p)' \subseteq Publishing(p) \ {h}
      BY <2>0, <2>4 DEF EnqueueApproved, Done, Publishing
    <3>3. CASE hprop[h] = p
      <4>1. queue'[p] = queue[p] + 1
        BY <2>0, <3>1, <3>3 DEF Published
      <4>2. h \in Publishing(p)
        BY <3>1, <3>3 DEF Publishing
      <4> QED BY <3>1, <3>2, <4>1, <4>2, CreditPublished
    <3>4. CASE hprop[h] # p
      <4>1. queue'[p] = queue[p]
        BY <2>0, <3>1, <3>4 DEF Published
      <4>2. Quiet(p)
        BY <3>1, <3>2, <4>1 DEF Quiet
      <4> QED BY <4>2, CreditSteady
    <3> QED BY <3>3, <3>4
  <2> QED BY <1>5, <2>1, <2>2, <2>3, <2>4 DEF Approval
<1>6. ASSUME NEW w \in Workers, NEW q \in Proposals, Take(w, q) PROVE CreditOf(p)'
  <2>0. /\ wprop \in [Workers -> Proposals \cup {NoProposal}]
        /\ queue \in [Proposals -> Nat] /\ wpc[w] = "idle"
        /\ DOMAIN wpc = Workers
    BY <1>6 DEF TypeOK, Take
  <2>1. /\ entries' = entries /\ crashes' = crashes
        /\ Sweeping(p)' = Sweeping(p) /\ Publishing(p)' = Publishing(p)
    BY <1>6 DEF Take, Sweeping, Publishing
  <2>2. CASE q = p
    <3>1. queue'[p] = queue[p] - 1
      BY <1>6, <2>0, <2>2 DEF Take
    <3>2. Trading(p)' \subseteq Trading(p) \cup {w}
      BY <1>6, <2>0 DEF Take, Goto, Trading
    <3> QED BY <2>1, <3>1, <3>2, CreditWorked
  <2>3. CASE q # p
    <3>1. queue'[p] = queue[p]
      BY <1>6, <2>0, <2>3 DEF Take
    <3>2. Trading(p)' \subseteq Trading(p)
      BY <1>6, <2>0, <2>3 DEF Take, Goto, Trading
    <3>3. Quiet(p)
      BY <2>1, <3>1, <3>2 DEF Quiet
    <3> QED BY <3>3, CreditSteady
  <2> QED BY <2>2, <2>3
<1>7. ASSUME NEW w \in Workers, Task(w) PROVE CreditOf(p)'
  <2>0. /\ wpc \in [Workers -> {"idle", "switch", "count", "first", "submit", "stop",
                                "persist", "block", "fail", "ack"}]
        /\ wprop \in [Workers -> Proposals \cup {NoProposal}]
        /\ entries \in [Proposals -> Nat]
    BY DEF TypeOK
  <2>1. CASE RailSwitch(w) \/ RailCount(w) \/ RailFirst(w)
    <3>1. PICK to \in {"count", "first", "submit", "block"} : RailsOnly(w, to)
      BY <2>1, RailsMove
    <3>2. Trading(p)' \subseteq Trading(p)
      BY <2>0, <3>1 DEF RailsOnly, Trading
    <3>3. Quiet(p)
      BY <3>1, <3>2 DEF RailsOnly, Quiet, Sweeping, Publishing
    <3> QED BY <3>3, CreditSteady
  <2>2. CASE RecordBlock(w) \/ FailProposal(w) \/ AttachStop(w) \/ Persist(w) \/ Ack(w)
    <3>1. Trading(p)' \subseteq Trading(p)
      BY <2>0, <2>2
         DEF RecordBlock, FailProposal, AttachStop, Persist, Ack, Goto, Trading
    <3>2. UNCHANGED <<entries, queue, crashes, spc, batch, hpc, hprop>>
      BY <2>2 DEF RecordBlock, FailProposal, AttachStop, Persist, Ack
    <3>3. Quiet(p)
      BY <3>1, <3>2 DEF Quiet, Sweeping, Publishing
    <3> QED BY <3>3, CreditSteady
  <2>3. CASE SubmitPaper(w) \/ EntryRefused(w) \/ SubmitRaises(w)
    <3>1. Trading(p)' \subseteq Trading(p)
      BY <2>0, <2>3 DEF SubmitPaper, EntryRefused, SubmitRaises, Goto, Trading
    <3>2. UNCHANGED <<entries, queue, crashes, spc, batch, hpc, hprop>>
      BY <2>3 DEF SubmitPaper, EntryRefused, SubmitRaises
    <3>3. Quiet(p)
      BY <3>1, <3>2 DEF Quiet, Sweeping, Publishing
    <3> QED BY <3>3, CreditSteady
  <2>4. CASE SubmitEntry(w)
    <3>1. /\ wpc[w] = "submit" /\ wprop' = wprop
          /\ wpc' = [wpc EXCEPT ![w] = "stop"] \/ wpc' = [wpc EXCEPT ![w] = "persist"]
          /\ entries' = [entries EXCEPT ![wprop[w]] = @ + 1]
          /\ queue' = queue /\ crashes' = crashes
      BY <2>4 DEF SubmitEntry, Accepted, Goto
    <3>2. Sweeping(p)' = Sweeping(p) /\ Publishing(p)' = Publishing(p)
      BY <2>4 DEF SubmitEntry, Accepted, Sweeping, Publishing
    <3>3. Trading(p)' \subseteq Trading(p) \ {w}
      BY <2>0, <3>1 DEF Trading
    <3>4. CASE wprop[w] = p
      <4>1. entries'[p] = entries[p] + 1
        BY <2>0, <3>1, <3>4
      <4>2. w \in Trading(p)
        BY <3>1, <3>4 DEF Trading
      <4> QED BY <3>1, <3>2, <3>3, <4>1, <4>2, CreditWorked
    <3>5. CASE wprop[w] # p
      <4>1. entries'[p] = entries[p]
        BY <2>0, <3>1, <3>5
      <4>2. Quiet(p)
        BY <3>1, <3>2, <3>3, <4>1 DEF Quiet
      <4> QED BY <4>2, CreditSteady
    <3> QED BY <3>4, <3>5
  <2> QED BY <1>7, <2>1, <2>2, <2>3, <2>4 DEF Task
<1>8. ASSUME NEW w \in Workers, LoseWorker(w) PROVE CreditOf(p)'
  <2>0. /\ DOMAIN wpc = Workers /\ DOMAIN wprop = Workers
        /\ queue \in [Proposals -> Nat]
        /\ wpc[w] # "idle" /\ wprop[w] \in Proposals
    BY <1>8 DEF TypeOK, LoseWorker
  <2>1. /\ entries' = entries /\ crashes' = crashes + 1
        /\ queue' = Requeued(wprop[w])
        /\ Sweeping(p)' = Sweeping(p) /\ Publishing(p)' = Publishing(p)
    BY <1>8 DEF LoseWorker, Lose, Sweeping, Publishing
  <2>2. Trading(p)' \subseteq Trading(p)
    BY <1>8, <2>0 DEF LoseWorker, Goto, Trading
  <2>3. CASE wprop[w] = p
    <3>1. queue'[p] = queue[p] + 1
      BY <2>0, <2>1, <2>3 DEF Requeued
    <3> QED BY <2>1, <2>2, <3>1, CreditWorked
  <2>4. CASE wprop[w] # p
    <3>1. queue'[p] = queue[p]
      BY <2>0, <2>1, <2>4 DEF Requeued
    <3>2. Quiet(p)
      BY <2>1, <2>2, <3>1 DEF Quiet
    <3> QED BY <3>2, CreditSteady
  <2> QED BY <2>3, <2>4
<1>9. CASE UNCHANGED vars
  BY <1>1, <1>9 DEF vars
<1> QED BY <1>2, <1>3, <1>4, <1>5, <1>6, <1>7, <1>8, <1>9 DEF Next


\* The step that decides it: a sweep, a callback or the reject button.  A task
\* cannot, because none is under way before the decision.
LEMMA CreditDecides ==
  ASSUME TypeOK, TypeOK', RejectInv, AutoOnly', NEW p \in Proposals, Undecided(p),
         ~Undecided(p)', [Next]_vars
  PROVE  CreditOf(p)'
<1> USE DEF dbVars, sweepVars, handlerVars, workerVars, exchangeVars
<1>0. /\ status \in [Proposals -> Statuses] /\ status[p] \in {"none", "pending"}
      /\ status'[p] \notin {"none", "pending"}
      /\ \A w \in Workers : wpc[w] # "idle" => wprop[w] # p
  BY DEF TypeOK, Undecided, RejectInv, RejectedNeverTraded, OnTask
<1>1. CASE status' = status
  BY <1>0, <1>1
<1>2. ASSUME NEW q \in Proposals, Propose(q) \/ PaperMatch(q) \/ ExchangeFill(q)
      PROVE  CreditOf(p)'
  BY <1>0, <1>2 DEF Propose, PaperMatch, ExchangeFill
<1>3. CASE Tick \/ NewDay \/ Pause \/ Resume \/ Reconcile
  BY <1>1, <1>3 DEF Tick, NewDay, Pause, Resume, Reconcile, SetSwitch
<1>4. ASSUME NEW s \in Sweepers, Sweep(s) \/ LoseSweeper(s) PROVE CreditOf(p)'
  <2>1. CASE ApproveBatch(s) \/ ExpireBatch(s)
    <3>1. UNCHANGED <<entries, queue, crashes, hpc, hprop, wpc, wprop>>
      BY <2>1 DEF ApproveBatch, ExpireBatch
    <3>2. Trading(p)' = Trading(p) /\ Publishing(p)' = Publishing(p)
      BY <3>1 DEF Trading, Publishing
    <3> QED BY <3>1, <3>2, CreditOpened
  <2>2. CASE SelectRipe(s) \/ EnqueueOne(s) \/ SelectStale(s) \/ LoseSweeper(s)
    BY <1>1, <2>2 DEF SelectRipe, EnqueueOne, SelectStale, LoseSweeper
  <2> QED BY <1>4, <2>1, <2>2 DEF Sweep
<1>5. ASSUME NEW h \in Handlers,
             \/ Approval(h) \/ LoseHandler(h)
             \/ \E q \in Proposals : ClickApprove(h, q) \/ RejectTx(h, q)
      PROVE  CreditOf(p)'
  <2>1. CASE ApproveTx(h) \/ ExpireTx(h) \/ \E q \in Proposals : RejectTx(h, q)
    <3>1. UNCHANGED <<entries, queue, crashes, wpc, wprop>>
      BY <2>1 DEF ApproveTx, ExpireTx, RejectTx
    <3>2. Publishing(p)' \subseteq Publishing(p) \cup {h}
      <4>1. /\ DOMAIN hpc = Handlers /\ DOMAIN hprop = Handlers
        BY DEF TypeOK
      <4>2. \A x \in Handlers : x # h => hpc'[x] = hpc[x] /\ hprop'[x] = hprop[x]
        BY <2>1, <4>1 DEF ApproveTx, ExpireTx, RejectTx, Done
      <4> QED BY <4>2 DEF Publishing
    <3>3. Trading(p)' = Trading(p)
      BY <3>1 DEF Trading
    <3> QED BY <3>1, <3>2, <3>3, CreditOpened
  <2>2. CASE RefuseTx(h) \/ EnqueueApproved(h) \/ LoseHandler(h)
             \/ \E q \in Proposals : ClickApprove(h, q)
    BY <1>1, <2>2 DEF RefuseTx, EnqueueApproved, LoseHandler, ClickApprove
  <2> QED BY <1>5, <2>1, <2>2 DEF Approval
<1>6. CASE \E w \in Workers : LoseWorker(w) \/ \E q \in Proposals : Take(w, q)
  BY <1>1, <1>6 DEF Take, LoseWorker
<1>7. ASSUME NEW w \in Workers, Task(w) PROVE status'[p] = status[p]
  <2>1. CASE RailSwitch(w) \/ RailCount(w) \/ RailFirst(w)
    BY <2>1, RailsMove DEF RailsOnly
  <2>2. CASE FailProposal(w)
    BY <1>0, <2>2 DEF FailProposal
  <2>3. CASE Persist(w)
    BY <1>0, <2>3 DEF Persist
  <2>4. CASE RecordBlock(w) \/ SubmitPaper(w) \/ SubmitEntry(w) \/ EntryRefused(w)
             \/ SubmitRaises(w) \/ AttachStop(w) \/ Ack(w)
    BY <2>4 DEF RecordBlock, SubmitPaper, SubmitEntry, Accepted, EntryRefused, SubmitRaises,
                AttachStop, Ack
  <2> QED BY <1>7, <2>1, <2>2, <2>3, <2>4 DEF Task
<1>8. CASE UNCHANGED vars
  BY <1>1, <1>8 DEF vars
<1> QED
  BY <1>0, <1>2, <1>3, <1>4, <1>5, <1>6, <1>7, <1>8 DEF Next

LEMMA CreditStep ==
  TypeOK /\ TypeOK' /\ RejectInv /\ CreditInv /\ [Next]_vars => CreditInv'
<1> SUFFICES ASSUME TypeOK, TypeOK', RejectInv, CreditInv, [Next]_vars
             PROVE  CreditInv'
  OBVIOUS
<1>1. AutoOnly'
  BY AutoStep DEF CreditInv
<1>2. ASSUME NEW p \in Proposals PROVE CreditOf(p)'
  <2>1. CreditOf(p)
    BY DEF CreditInv
  <2>2. CASE ~Undecided(p)
    BY <2>1, <2>2, CreditDecided
  <2>3. CASE Undecided(p)'
    BY <2>3 DEF CreditOf
  <2>4. CASE Undecided(p) /\ ~Undecided(p)'
    BY <1>1, <2>4, CreditDecides
  <2> QED BY <2>2, <2>3, <2>4
<1> QED BY <1>1, <1>2 DEF CreditInv

LEMMA CreditFollows == TypeOK /\ RejectInv /\ CreditInv => EntriesBounded
<1> SUFFICES ASSUME TypeOK, RejectInv, CreditInv, NEW p \in Proposals
             PROVE  entries[p] <= Approvers + crashes
  BY DEF EntriesBounded
<1>1. /\ entries[p] \in Nat /\ queue[p] \in Nat /\ crashes \in Nat
      /\ Cardinality(Sweeping(p)) \in Nat /\ Cardinality(Publishing(p)) \in Nat
      /\ Cardinality(Trading(p)) \in Nat
  BY TypedNow DEF CreditTyped
<1>2. CASE Undecided(p)
  <2>1. entries[p] = 0
    BY <1>2 DEF Undecided, RejectInv, RejectedNeverTraded
  <2> QED BY <1>1, <2>1, ApproversTyped
<1>3. CASE ~Undecided(p)
  <2>1. Credit(p) <= Approvers + crashes
    BY <1>3 DEF CreditInv, CreditOf
  <2> QED BY <1>1, <2>1, ApproversTyped DEF Credit
<1> QED BY <1>2, <1>3

\* No more entry orders of a proposal than approvers, and one more for each
\* loss (approval.py 36-59, proposal_sweeper.py, worker.py 29-103).
THEOREM EntriesHold == Spec => []EntriesBounded
<1>1. TypeOK /\ RejectInv /\ CreditInv /\ [Next]_vars
        => (TypeOK /\ RejectInv /\ CreditInv)'
  BY TypeStep, RejectStep, CreditStep
<1> QED BY TypeInit, RejectInit, CreditInit, CreditFollows, <1>1, PTL DEF Spec
=============================================================================
