-------------------------- MODULE TradeBook_proofs --------------------------
(* The trades implement the book of proposals, in every deployment.        *)
EXTENDS TradeLifecycle_proofs

(***************************************************************************)
(* A proposal that was decided once has one message, one task or one       *)
(* process about to send the message, and what this carrier finds in the   *)
(* database is what it left there.                                         *)
(***************************************************************************)
BySweep(p, s) == spc[s] = "enqueue" /\ p \in batch[s]
ByClick(p, h) == hpc[h] = "enqueue" /\ hprop[h] = p
ByTask(p, w) == wpc[w] # "idle" /\ wprop[w] = p

OneCarrier(p) ==
  /\ queue[p] <= 1
  /\ queue[p] = 1 => /\ \A s \in Sweepers : ~BySweep(p, s)
                     /\ \A h \in Handlers : ~ByClick(p, h)
                     /\ \A w \in Workers : ~ByTask(p, w)
  /\ \A s, t \in Sweepers : BySweep(p, s) /\ BySweep(p, t) => s = t
  /\ \A h, k \in Handlers : ByClick(p, h) /\ ByClick(p, k) => h = k
  /\ \A v, w \in Workers : ByTask(p, v) /\ ByTask(p, w) => v = w
  /\ \A s \in Sweepers, h \in Handlers : ~(BySweep(p, s) /\ ByClick(p, h))
  /\ \A s \in Sweepers, w \in Workers : ~(BySweep(p, s) /\ ByTask(p, w))
  /\ \A h \in Handlers, w \in Workers : ~(ByClick(p, h) /\ ByTask(p, w))

\* A task at work finds its proposal as it was when the task was taken.
TaskCurrent(p) ==
  \A w \in Workers : wpc[w] \in Working /\ wprop[w] = p => status[p] = "approved"

RowCurrent(p) == orders[p] # "none" => status[p] = Outcome(orders[p])

OnceInv(p) ==
  /\ decisions[p] = 0 => status[p] \in {"none", "pending"}
  /\ decisions[p] <= 1 => OneCarrier(p) /\ TaskCurrent(p) /\ RowCurrent(p)

LEMMA OnceInit == Init => \A p \in Proposals : OnceInv(p)
  BY DEF Init, OnceInv, OneCarrier, TaskCurrent, RowCurrent, BySweep, ByClick, ByTask, Working

\* Before the first decision nobody carries the proposal.
LEMMA NoCarrier ==
  ASSUME TypeOK, RejectInv, NEW p \in Proposals, OnceInv(p), decisions[p] = 0
  PROVE  /\ queue[p] = 0 /\ orders[p] = "none"
         /\ \A s \in Sweepers : ~BySweep(p, s)
         /\ \A h \in Handlers : ~ByClick(p, h)
         /\ \A w \in Workers : ~ByTask(p, w)
  BY DEF OnceInv, RejectInv, RejectedNeverTraded, ApprovedFirst, Untouched, OnTask,
         BySweep, ByClick, ByTask, TypeOK

LEMMA OnceStep ==
  ASSUME TypeOK, RejectInv, NEW p \in Proposals, OnceInv(p), [Next]_vars
  PROVE  OnceInv(p)'
<1> USE ConstantsAssumption
        DEF OnceInv, OneCarrier, TaskCurrent, RowCurrent, BySweep, ByClick, ByTask, Working,
            TypeOK, Statuses, Fills,
            dbVars, sweepVars, handlerVars, workerVars, exchangeVars
<1>0. decisions[p] = 0 =>
        /\ queue[p] = 0 /\ orders[p] = "none"
        /\ \A s \in Sweepers : ~BySweep(p, s)
        /\ \A h \in Handlers : ~ByClick(p, h)
        /\ \A w \in Workers : ~ByTask(p, w)
  BY NoCarrier
<1>1. ASSUME NEW q \in Proposals, Propose(q) PROVE OnceInv(p)'
  BY <1>1 DEF Propose, RejectInv, RejectedNeverTraded, OnTask
<1>2. CASE Tick \/ NewDay \/ Pause \/ Resume \/ Reconcile
  BY <1>2 DEF Tick, NewDay, Pause, Resume, Reconcile, SetSwitch
<1>3. ASSUME NEW q \in Proposals, PaperMatch(q) \/ ExchangeFill(q) PROVE OnceInv(p)'
  BY <1>3 DEF PaperMatch, ExchangeFill, Outcome
<1>4. ASSUME NEW s \in Sweepers, Sweep(s) PROVE OnceInv(p)'
  <2>1. CASE SelectRipe(s)
    BY <2>1 DEF SelectRipe
  <2>2. CASE ApproveBatch(s)
    BY <1>0, <2>2 DEF ApproveBatch, Moved, Decided
  <2>3. CASE EnqueueOne(s)
    BY <2>3 DEF EnqueueOne, Published
  <2>4. CASE SelectStale(s)
    BY <2>4 DEF SelectStale
  <2>5. CASE ExpireBatch(s)
    BY <1>0, <2>5 DEF ExpireBatch, Moved, Decided
  <2> QED BY <1>4, <2>1, <2>2, <2>3, <2>4, <2>5 DEF Sweep
<1>5. ASSUME NEW h \in Handlers, Approval(h) PROVE OnceInv(p)'
  <2> USE DEF Done
  <2>1. CASE ApproveTx(h)
    BY <1>0, <2>1 DEF ApproveTx, Decided
  <2>2. CASE ExpireTx(h)
    BY <1>0, <2>2 DEF ExpireTx, Decided
  <2>3. CASE RefuseTx(h)
    BY <2>3 DEF RefuseTx
  <2>4. CASE EnqueueApproved(h)
    BY <2>4 DEF EnqueueApproved, Published
  <2> QED BY <1>5, <2>1, <2>2, <2>3, <2>4 DEF Approval
<1>6. ASSUME NEW h \in Handlers, NEW q \in Proposals, ClickApprove(h, q) PROVE OnceInv(p)'
  BY <1>6 DEF ClickApprove
<1>7. ASSUME NEW h \in Handlers, NEW q \in Proposals, RejectTx(h, q) PROVE OnceInv(p)'
  BY <1>0, <1>7 DEF RejectTx, Decided
<1>8. ASSUME NEW w \in Workers, NEW q \in Proposals, Take(w, q) PROVE OnceInv(p)'
  BY <1>8 DEF Take, Goto, Actionable
<1>9. ASSUME NEW w \in Workers, Task(w) PROVE OnceInv(p)'
  <2> USE DEF Goto, Receipt
  <2>1. CASE RailSwitch(w) \/ RailCount(w) \/ RailFirst(w)
    BY <2>1, RailsMove DEF RailsOnly
  <2>2. CASE RecordBlock(w)
    BY <2>2 DEF RecordBlock
  <2>3. CASE FailProposal(w)
    BY <1>0, <2>3 DEF FailProposal, Outcome
  <2>4. CASE SubmitPaper(w)
    BY <2>4 DEF SubmitPaper
  <2>5. CASE SubmitEntry(w)
    BY <2>5 DEF SubmitEntry, Accepted
  <2>6. CASE EntryRefused(w) \/ SubmitRaises(w)
    BY <2>6 DEF EntryRefused, SubmitRaises
  <2>7. CASE AttachStop(w)
    BY <2>7 DEF AttachStop
  <2>8. CASE Persist(w)
    BY <1>0, <2>8 DEF Persist, Outcome
  <2>9. CASE Ack(w)
    BY <2>9 DEF Ack
  <2> QED BY <1>9, <2>1, <2>2, <2>3, <2>4, <2>5, <2>6, <2>7, <2>8, <2>9
          DEF Task
<1>10. ASSUME NEW s \in Sweepers, LoseSweeper(s) PROVE OnceInv(p)'
  BY <1>10 DEF LoseSweeper
<1>11. ASSUME NEW h \in Handlers, LoseHandler(h) PROVE OnceInv(p)'
  BY <1>11 DEF LoseHandler, Done
<1>12. ASSUME NEW w \in Workers, LoseWorker(w) PROVE OnceInv(p)'
  BY <1>12 DEF LoseWorker, Requeued, Goto, Receipt
<1>13. CASE UNCHANGED vars
  BY <1>13 DEF vars
<1> QED
  BY <1>1, <1>2, <1>3, <1>4, <1>5, <1>6, <1>7, <1>8, <1>9, <1>10, <1>11, <1>12, <1>13
     DEF Next

\* The order row and the status of a proposal say the same unless it was decided
\* more than once, for any number of sweeps, callbacks, workers and losses
\* (worker.py 65-102, proposal_sweeper.py 62-71).
THEOREM TablesHold == Spec => []TablesAgree
<1> DEFINE Inv == TypeOK /\ RejectInv /\ \A p \in Proposals : OnceInv(p)
<1>1. Init => Inv
  BY TypeInit, RejectInit, OnceInit
<1>2. Inv /\ [Next]_vars => Inv'
  <2> SUFFICES ASSUME Inv, [Next]_vars PROVE Inv'
    OBVIOUS
  <2>1. \A p \in Proposals : OnceInv(p)'
    BY OnceStep
  <2> QED BY <2>1, TypeStep, RejectStep
<1>3. Inv => TablesAgree
  BY DEF TablesAgree, OnceInv, RowCurrent
<1> QED BY <1>1, <1>2, <1>3, PTL DEF Spec

(***************************************************************************)
(* The refinement.  What a sweep has selected exists, and whoever takes a  *)
(* proposal in hand finds it undecided (a sweep) or approved (a task).     *)
(***************************************************************************)
HeldRows == \A p \in Proposals : Contested(p) => status[p] # "none"

\* What a step does to the status of p, and who comes to have p in hand.
StatusMoves(p) ==
  \/ status'[p] = status[p]
  \/ status[p] = "none" /\ status'[p] = "pending"
  \/ status[p] = "pending" /\ status'[p] \in {"approved", "expired", "rejected"}
  \/ Contested(p) /\ status'[p] \in {"approved", "expired"}
  \/ AtWork(p) /\ status'[p] \in {"executed", "failed"}

Moves(p) ==
  /\ StatusMoves(p)
  /\ Contested(p)' => Contested(p) \/ status[p] = "pending"
  /\ AtWork(p)' => AtWork(p) \/ status[p] = "approved"

\* A step of what stands that the book allows.
Arrow(p) == \/ Standing(p)' = Standing(p)
            \/ <<Standing(p), Standing(p)'>> \in Book!Arrows

LEMMA MovesStep ==
  ASSUME TypeOK, NEW p \in Proposals, [Next]_vars
  PROVE  Moves(p)
<1> USE DEF Moves, StatusMoves, Contested, AtWork, Working, TypeOK,
            dbVars, sweepVars, handlerVars, workerVars, exchangeVars
<1>1. ASSUME NEW q \in Proposals, Propose(q) PROVE Moves(p)
  BY <1>1 DEF Propose
<1>2. CASE Tick \/ NewDay \/ Pause \/ Resume \/ Reconcile
  BY <1>2 DEF Tick, NewDay, Pause, Resume, Reconcile, SetSwitch
<1>3. ASSUME NEW q \in Proposals, PaperMatch(q) \/ ExchangeFill(q) PROVE Moves(p)
  BY <1>3 DEF PaperMatch, ExchangeFill
<1>4. ASSUME NEW s \in Sweepers, Sweep(s) PROVE Moves(p)
  <2>1. CASE SelectRipe(s)
    BY <2>1 DEF SelectRipe, Ripe
  <2>2. CASE ApproveBatch(s)
    BY <2>2 DEF ApproveBatch, Moved
  <2>3. CASE EnqueueOne(s)
    BY <2>3 DEF EnqueueOne
  <2>4. CASE SelectStale(s)
    BY <2>4 DEF SelectStale, Stale
  <2>5. CASE ExpireBatch(s)
    BY <2>5 DEF ExpireBatch, Moved
  <2> QED BY <1>4, <2>1, <2>2, <2>3, <2>4, <2>5 DEF Sweep
<1>5. ASSUME NEW h \in Handlers, Approval(h) PROVE Moves(p)
  BY <1>5 DEF Approval, ApproveTx, ExpireTx, RefuseTx, EnqueueApproved, Decidable, Done
<1>6. ASSUME NEW h \in Handlers, NEW q \in Proposals, ClickApprove(h, q) PROVE Moves(p)
  BY <1>6 DEF ClickApprove
<1>7. ASSUME NEW h \in Handlers, NEW q \in Proposals, RejectTx(h, q) PROVE Moves(p)
  BY <1>7 DEF RejectTx, Decidable
<1>8. ASSUME NEW w \in Workers, NEW q \in Proposals, Take(w, q) PROVE Moves(p)
  BY <1>8 DEF Take, Goto, Actionable
<1>9. ASSUME NEW w \in Workers, Task(w) PROVE Moves(p)
  <2> USE DEF Goto, Receipt
  <2>1. CASE RailSwitch(w) \/ RailCount(w) \/ RailFirst(w)
    BY <2>1, RailsMove DEF RailsOnly
  <2>2. CASE RecordBlock(w)
    BY <2>2 DEF RecordBlock
  <2>3. CASE FailProposal(w)
    BY <2>3 DEF FailProposal
  <2>4. CASE SubmitPaper(w)
    BY <2>4 DEF SubmitPaper
  <2>5. CASE SubmitEntry(w)
    BY <2>5 DEF SubmitEntry, Accepted
  <2>6. CASE EntryRefused(w) \/ SubmitRaises(w)
    BY <2>6 DEF EntryRefused, SubmitRaises
  <2>7. CASE AttachStop(w)
    BY <2>7 DEF AttachStop
  <2>8. CASE Persist(w)
    BY <2>8 DEF Persist, Outcome
  <2>9. CASE Ack(w)
    BY <2>9 DEF Ack
  <2> QED BY <1>9, <2>1, <2>2, <2>3, <2>4, <2>5, <2>6, <2>7, <2>8, <2>9
          DEF Task
<1>10. ASSUME NEW s \in Sweepers, LoseSweeper(s) PROVE Moves(p)
  BY <1>10 DEF LoseSweeper
<1>11. ASSUME NEW h \in Handlers, LoseHandler(h) PROVE Moves(p)
  BY <1>11 DEF LoseHandler, Done
<1>12. ASSUME NEW w \in Workers, LoseWorker(w) PROVE Moves(p)
  BY <1>12 DEF LoseWorker, Goto, Receipt
<1>13. CASE UNCHANGED vars
  BY <1>13 DEF vars
<1> QED
  BY <1>1, <1>2, <1>3, <1>4, <1>5, <1>6, <1>7, <1>8, <1>9, <1>10, <1>11, <1>12, <1>13
     DEF Next

\* A task never has an undecided or a rejected proposal in hand.
LEMMA WorkedRow ==
  ASSUME RejectedNeverTraded, NEW p \in Proposals, AtWork(p)
  PROVE  status[p] \notin {"none", "pending", "rejected"}
  BY DEF RejectedNeverTraded, OnTask, AtWork, Working

LEMMA ArrowStep ==
  ASSUME TypeOK, TypeOK', RejectInv, RejectInv', HeldRows,
         NEW p \in Proposals, Moves(p)
  PROVE  Arrow(p)
<1>0. status[p] \in Statuses /\ status'[p] \in Statuses
  BY DEF TypeOK
<1>1. AtWork(p) => status[p] \notin {"none", "pending", "rejected"}
  BY WorkedRow DEF RejectInv
<1>2. AtWork(p)' => status'[p] \notin {"none", "pending", "rejected"}
  BY DEF RejectInv, RejectedNeverTraded, OnTask, AtWork, Working
<1> USE DEF Arrow, Book!Arrows, Book!Ends, Standing, Moves, StatusMoves, Statuses
<1>3. CASE Contested(p)
  <2>1. status[p] # "none" /\ status'[p] # "none"
    BY <1>3 DEF HeldRows
  <2> QED BY <1>0, <1>3, <2>1
<1>4. CASE ~Contested(p) /\ AtWork(p)
  BY <1>0, <1>1, <1>2, <1>4
<1>5. CASE ~Contested(p) /\ ~AtWork(p)
  BY <1>0, <1>2, <1>5
<1> QED BY <1>3, <1>4, <1>5

\* What stands goes one way through the book, in every deployment: overlapping
\* sweeps, callbacks, redelivered tasks and losses may overwrite the status of a
\* row that one of them has in hand, and never what stands once none has
\* (proposal_sweeper.py 62-71, worker.py 65-124).
THEOREM BookImplemented == Spec => OneWay
<1> DEFINE Inv == TypeOK /\ RejectInv /\ HeldRows
<1>1. Init => Inv /\ Book!Init
  BY TypeInit, RejectInit DEF Init, HeldRows, Contested, AtWork, Working, Standing, Book!Init
<1>2. Inv /\ [Next]_vars => Inv' /\ [Book!Next]_([p \in Proposals |-> Standing(p)])
  <2> SUFFICES ASSUME Inv, [Next]_vars PROVE Inv' /\ Book!Next
    OBVIOUS
  <2>1. TypeOK' /\ RejectInv'
    BY TypeStep, RejectStep
  <2>2. \A p \in Proposals : Moves(p)
    BY MovesStep
  <2>3. HeldRows'
    BY <2>2 DEF HeldRows, Moves, StatusMoves
  <2>4. \A p \in Proposals : Arrow(p)
    BY <2>1, <2>2, ArrowStep
  <2> QED BY <2>1, <2>3, <2>4 DEF Book!Next, Arrow
<1> QED BY <1>1, <1>2, PTL DEF Spec, OneWay, Book!Spec
=============================================================================
