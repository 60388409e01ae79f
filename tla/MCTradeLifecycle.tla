-------------------------- MODULE MCTradeLifecycle --------------------------
(* TradeLifecycle on the small instances the .cfg files describe.          *)
EXTENDS TradeLifecycle, TLC

\* Proposals that no constant tells apart can be exchanged for one another.
Alike == UNION {Permutations(S) : S \in {Proposals \ Large, Sweepers, Handlers,
                                         Workers}}
=============================================================================
