---------------------------- MODULE MCReadCache ----------------------------
(***************************************************************************)
(* What the gateway keeps of its tables, and who rewrites them meanwhile:  *)
(*                                                                         *)
(*   - "rows": the two-second snapshots of ReadCache, with goroutines that *)
(*     are interchangeable; version 1 of every row must not be cached;     *)
(*   - "routes": the routes of a group under administration (RouteAdmin),  *)
(*     under one of a few budgets;                                         *)
(*   - "groups": the group list of a channel (GroupsCache);                *)
(*   - "rules": the compiled response rules of a group (RulesCache).       *)
(*                                                                         *)
(* They share no state.  One of them is followed, the others are at rest.  *)
(***************************************************************************)
EXTENDS ReadCache, RouteAdmin, GatewayCaches

CONSTANTS k1, k2, r1, r2, r3

OneKey == {k1}
MCReaders == {r1, r2, r3}
MCUncacheable == {1}

Budget(e, s, m, w) == [edits |-> e, scans |-> s, moves |-> m, sweeps |-> w]

\* Two edits of a page and two sweeps; a scan of a price that moved, and a
\* sweep; three sweeps; an edit during a scan, with a sweep; with a new price.
MCBudgets == {Budget(2, 0, 0, 2), Budget(0, 1, 1, 1), Budget(0, 0, 0, 3), Budget(1, 1, 0, 1), Budget(1, 1, 1, 0)}

VARIABLE followed

\* Of the routes at rest one initial state is enough.
StoreInit ==
  /\ Init /\ ListInit /\ RulesInit
  /\ followed \in {"rows", "routes", "groups", "rules"}
  /\ AdminInit
  /\ followed # "routes" =>
       left = Budget(0, 0, 0, 3) /\ keys = << >> /\ \A r \in Rows(routes) : r.source = "s1"

StoreNext ==
  /\ UNCHANGED followed
  /\ \/ followed = "rows" /\ Next /\ UNCHANGED <<adminVars, listVars, rulesVars>>
     \/ followed = "routes" /\ AdminNext /\ UNCHANGED <<vars, listVars, rulesVars>>
     \/ followed = "groups" /\ ListNext /\ UNCHANGED <<vars, adminVars, rulesVars>>
     \/ followed = "rules" /\ RulesNext /\ UNCHANGED <<vars, adminVars, listVars>>

StoreSpec == StoreInit /\ [][StoreNext]_<<vars, adminVars, listVars, rulesVars, followed>>
=============================================================================
