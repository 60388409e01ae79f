----------------------------- MODULE MCUniverse -----------------------------
(***************************************************************************)
(* Instances of Universe for TLC.  SHIB is locked and excluded; each       *)
(* active tier has room for one symbol more, watchlist for none.           *)
(***************************************************************************)
EXTENDS Universe

MCTierCap == [core |-> 2, watchlist |-> 1, observation |-> 1]

MCInitialTiers ==
  [core |-> <<"BTC">>, watchlist |-> <<"SOL">>, observation |-> <<>>,
   excluded |-> <<"SHIB">>]

To(types, symbols, targets) ==
  {[type |-> t, symbol |-> s, to |-> d] :
     t \in types, s \in symbols, d \in targets}

\* Every event type, into tiers with and without room, for a symbol of each
\* tier; "sidelist" is no tier of policy.yaml.
MCRequests ==
  To({"add", "promote", "demote", "unexclude"}, {"SHIB"}, {"core", "observation"})
  \cup To({"add", "promote", "demote"}, {"SOL"}, {"observation"})
  \cup To({"demote"}, {"BTC"}, {"watchlist", "excluded"})
  \cup To({"remove", "hard_limit_blocked"}, {"SOL"}, {None})
  \cup To({"exclude"}, {"BTC"}, {None})
  \cup To({"add"}, {"SOL"}, {"sidelist"})

\* One change, made twice, for the run about the feed.
FeedRequests == To({"exclude"}, {"SOL"}, {None})

\* Calls differ by name only, except for the orphans.
SomeCalls == Permutations(Calls \ Orphans)
=============================================================================
