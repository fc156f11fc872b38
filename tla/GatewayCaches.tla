---------------------------- MODULE GatewayCaches ----------------------------
(***************************************************************************)
(* The two caches of the gateway that another component invalidates after  *)
(* a change: the group lists (GroupsCache), when a rate scan has found new *)
(* ratios, and the compiled response rules (RulesCache), when an operator  *)
(* has edited them.  They share no state.                                  *)
(***************************************************************************)
EXTENDS GroupsCache, RulesCache

-----------------------------------------------------------------------------
\* What an invalidation dropped stays dropped: a fetch that was under way
\* brings back neither an older list nor older rules, unless it was already
\* past its last check of the generation, or has none to check.
InvalidationSticks == ListIsCurrent /\ RulesAreCurrent
=============================================================================
