---------------------------- MODULE MCProposing ----------------------------
(***************************************************************************)
(* The sizes of policy.yaml; one request of each kind the tool treats      *)
(* apart: sized and with an entry, a market order, a size of the agent's   *)
(* own, and those it has to refuse.                                        *)
(***************************************************************************)
EXTENDS Proposing, TLC

AgentSymmetry == Permutations(Agents) \cup Permutations(Signals)

Good == [order |-> "limit", entry |-> 100, stop |-> 90, rr |-> 300, loss |-> 1,
         count |-> 4, win |-> 70, size |-> 0, regime |-> 100]
MCRequests ==
  {Good,
   [Good EXCEPT !.order = "market", !.entry = 0, !.loss = 50],
   [Good EXCEPT !.order = "market", !.entry = 0, !.loss = 50, !.stop = 99],
   [Good EXCEPT !.size = 20000, !.loss = 2041],
   [Good EXCEPT !.size = 20000, !.loss = 2042],
   [Good EXCEPT !.order = "stop", !.entry = 0],
   [Good EXCEPT !.rr = 100],
   [Good EXCEPT !.count = 9],
   [Good EXCEPT !.regime = 0]}
=============================================================================
