---------------------------- MODULE ProposalBook ----------------------------
(***************************************************************************)
(* What the book of trade proposals promises whoever reads it: a proposal  *)
(* is inserted pending and goes one way from there; once it stands         *)
(* rejected, expired, executed or failed it stands so for ever, and one    *)
(* that stands approved is never undecided again.                          *)
(*                                                                         *)
(* The design calls the state machine one-way (Phase 2 design, section     *)
(* 5.2).  There it is one of the column status; here it is one of what     *)
(* stands once the processes that had read the row are done with it.       *)
(* Sweeps that overlap and a task may come and go while the proposal is    *)
(* undecided, so it may pass from "pending" to any end, and an approval    *)
(* that another sweep's expiry overwrote may end expired.  One step may    *)
(* move several proposals: a sweep updates all the rows it selected.       *)
(***************************************************************************)
CONSTANT Proposals
VARIABLE standing

Ends == {"rejected", "expired", "executed", "failed"}
Arrows == {<<"none", "pending">>}
          \cup {<<"pending", to>> : to \in Ends \cup {"approved"}}
          \cup {<<"approved", to>> : to \in Ends \ {"rejected"}}

Init == standing = [p \in Proposals |-> "none"]

Next ==
  /\ DOMAIN standing' = Proposals
  /\ \A p \in Proposals : \/ standing'[p] = standing[p]
                          \/ <<standing[p], standing'[p]>> \in Arrows

Spec == Init /\ [][Next]_standing
=============================================================================
