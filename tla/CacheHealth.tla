---------------------------- MODULE CacheHealth ----------------------------
(***************************************************************************)
(* Cache health: a route of a gateway group whose requests hit the         *)
(* upstream's prompt cache too seldom is paused, until the pause ends or   *)
(* an operator releases it (backend/gateway/cache_health.go, the           *)
(* CacheHealth statements of backend/storage/gateway.go).                  *)
(*                                                                         *)
(* One group and one source.  A usage row schedules an evaluation, which   *)
(* reads the policy and the usage, then the state row, and writes the      *)
(* whole row back; an operator, the settings page and a restart write      *)
(* between those statements.  A row of an older release has no route and   *)
(* stands for every route that has none of its own.  Evaluators are        *)
(* application instances.  Time is absolute, 0 is SQL NULL, and a unit is  *)
(* long: no statements of one operation span a tick.                       *)
(***************************************************************************)
EXTENDS Integers

CONSTANTS
  Evaluators, PausedRoutes,
  Window, Pause,     \* CacheHitRateWindowMinutes (the grace of a release), CacheHitRateBlacklistMinutes
  MinRequests,       \* the values CacheHitRateMinimumRequests may take
  LastMinute,        \* bound
  HealthScenarios    \* bounds, chosen together

VARIABLES
  clock,
  policy,     \* whether the group is protected and its minimum; a save between its two steps
  health,     \* the gateway_channel_cache_health rows
  eval,       \* the evaluations under way
  release,    \* the release of one route between its two statements
  promised,   \* per route, until when an operator's release is to stand
  budget      \* what is left of the bounds of the scenario

healthVars == <<clock, policy, health, eval, release, promised, budget>>

Legacy == "route 0"
Rows == PausedRoutes \cup {Legacy}

ASSUME HealthBounds ==
  /\ {Window, Pause, LastMinute} \subseteq Nat /\ MinRequests \subseteq Nat /\ Legacy \notin PausedRoutes
  /\ HealthScenarios \subseteq [usages : Nat, releases : Nat, saves : Nat, restarts : Nat]

NoState == [there |-> FALSE, black |-> 0, grace |-> 0, count |-> 0]
Asleep == [pc |-> "idle", route |-> Legacy, at |-> 0, low |-> FALSE, count |-> 0, seen |-> NoState,
           overtaken |-> FALSE]
NoRelease == [pc |-> "idle", route |-> Legacy, seen |-> NoState]

-----------------------------------------------------------------------------
(* What the statements read and write. *)

\* loadCacheHealth: the row of the route, or the one of its source.
StateOf(r) == IF health[r].there THEN health[r] ELSE health[Legacy]
Paused(r) == StateOf(r).black > clock

\* Mutant: the evaluator does not carry the grace over.
Evaluated_DropsGrace(e) ==
  LET seen == eval[e].seen
      active == seen.black > eval[e].at
  IN [there |-> TRUE, count |-> eval[e].count, grace |-> 0,
      black |-> IF seen.grace > eval[e].at THEN 0
                ELSE IF active THEN seen.black ELSE IF eval[e].low THEN eval[e].at + Pause ELSE 0]

\* The row an evaluation writes: a pause goes on, begins, or ends; during the
\* grace of a release there is none.
Evaluated(e) ==
  LET seen == eval[e].seen
      at == eval[e].at
      released == seen.grace > at
  IN [there |-> TRUE, count |-> eval[e].count,
      grace |-> IF released THEN seen.grace ELSE 0,
      black |-> IF released THEN 0
                ELSE IF seen.black > at THEN seen.black
                ELSE IF eval[e].low THEN at + Pause ELSE 0]

Grace == IF policy.on THEN clock + Window ELSE 0
Unrestricted(row) == [row EXCEPT !.black = 0, !.grace = 0]

\* Evaluations that have read the state of r but not yet written it.
Overtaken(routes) ==
  [e \in Evaluators |-> [eval[e] EXCEPT !.overtaken = @ \/ (eval[e].pc = "read" /\ eval[e].route \in routes)]]

-----------------------------------------------------------------------------
\* An installation may have been left with a paused row of an older release.
HealthInit ==
  /\ clock = 1
  /\ policy \in [on : {TRUE}, min : MinRequests, pc : {"idle"}]
  /\ \E old \in BOOLEAN :
       health = [r \in Rows |-> IF r = Legacy /\ old
                                THEN [there |-> TRUE, black |-> 1 + Pause, grace |-> 0, count |-> 1] ELSE NoState]
  /\ eval = [e \in Evaluators |-> Asleep]
  /\ release = NoRelease
  /\ promised = [r \in PausedRoutes |-> 0]
  /\ budget \in HealthScenarios

\* A usage row was written: the route is evaluated soon, once per debounce interval.
ScheduleCacheHealthEvaluation(e, r) ==
  /\ eval[e].pc = "idle" /\ policy.on /\ budget.usages > 0
  /\ eval' = [eval EXCEPT ![e] = [Asleep EXCEPT !.pc = "scheduled", !.route = r]]
  /\ budget' = [budget EXCEPT !.usages = @ - 1]
  /\ UNCHANGED <<clock, policy, health, release, promised>>

\* The timer fires: the policy and the usage in its window are read.  Too few
\* requests are never low.
AggregateUsage(e) ==
  /\ eval[e].pc = "scheduled"
  /\ IF policy.on
     THEN \E count \in MinRequests, low \in BOOLEAN :
            /\ low => count >= policy.min
            /\ eval' = [eval EXCEPT ![e].pc = "counted", ![e].at = clock, ![e].count = count, ![e].low = low]
     ELSE eval' = [eval EXCEPT ![e] = Asleep]
  /\ UNCHANGED <<clock, policy, health, release, promised, budget>>

ReadHealthState(e) ==
  /\ eval[e].pc = "counted"
  /\ eval' = [eval EXCEPT ![e].pc = "read", ![e].seen = health[eval[e].route]]
  /\ UNCHANGED <<clock, policy, health, release, promised, budget>>

UpsertCacheHealth(e) ==
  LET r == eval[e].route IN
  /\ eval[e].pc = "read"
  /\ health' = [health EXCEPT ![r] = Evaluated(e)]
  /\ promised' = IF eval[e].overtaken THEN [promised EXCEPT ![r] = 0] ELSE promised
  /\ eval' = [eval EXCEPT ![e] = Asleep]
  /\ UNCHANGED <<clock, policy, release, budget>>

-----------------------------------------------------------------------------
(* An operator releases one route, in two statements, or every route.  The   *)
(* row of an older release is copied first, so that other routes stay as     *)
(* they are.                                                                 *)

ReadForRelease(r) ==
  /\ release.pc = "idle" /\ budget.releases > 0
  /\ release' = [pc |-> "read", route |-> r, seen |-> StateOf(r)]
  /\ budget' = [budget EXCEPT !.releases = @ - 1]
  /\ UNCHANGED <<clock, policy, health, eval, promised>>

ClearCacheHealthBlacklistForRoute ==
  LET r == release.route IN
  /\ release.pc = "read"
  /\ health' = [health EXCEPT ![r] = [release.seen EXCEPT !.there = TRUE, !.black = 0, !.grace = Grace]]
  /\ promised' = [promised EXCEPT ![r] = Grace]
  /\ eval' = Overtaken({r})
  /\ release' = NoRelease
  /\ UNCHANGED <<clock, policy, budget>>

\* Routes without a row of their own get no grace of their own either.
ClearCacheHealthBlacklistForGroup ==
  /\ budget.releases > 0 /\ \E r \in Rows : health[r].there
  /\ health' = [r \in Rows |-> IF health[r].there THEN [health[r] EXCEPT !.black = 0, !.grace = Grace] ELSE NoState]
  /\ promised' = [r \in PausedRoutes |-> IF health[r].there THEN Grace ELSE promised[r]]
  /\ eval' = Overtaken({r \in PausedRoutes : health[r].there})
  /\ budget' = [budget EXCEPT !.releases = @ - 1]
  /\ UNCHANGED <<clock, policy, release>>

-----------------------------------------------------------------------------
(* The policy, a restart, and time. *)

\* The settings are saved: the policy first, then every row of the group is reset.
SavePolicy ==
  /\ policy.pc = "idle" /\ budget.saves > 0
  /\ \E on \in BOOLEAN, min \in MinRequests :
       /\ on # policy.on \/ min # policy.min
       /\ policy' = [on |-> on, min |-> min, pc |-> "saved"]
  /\ budget' = [budget EXCEPT !.saves = @ - 1]
  /\ UNCHANGED <<clock, health, eval, release, promised>>

ResetCacheHealthForGroup ==
  /\ policy.pc = "saved"
  /\ policy' = [policy EXCEPT !.pc = "idle"]
  /\ health' = [r \in Rows |-> Unrestricted(health[r])]
  /\ promised' = [r \in PausedRoutes |-> 0]
  /\ UNCHANGED <<clock, eval, release, budget>>

\* An instance starts again: its evaluations are lost.  Without protection the
\* rows are reset; otherwise pauses on too few requests end.
ReconcileInitialCacheHealthPolicies(e) ==
  /\ budget.restarts > 0 /\ policy.pc = "idle"
  /\ eval' = [eval EXCEPT ![e] = Asleep]
  /\ health' = [r \in Rows |-> IF ~policy.on THEN Unrestricted(health[r])
                               ELSE IF health[r].count < policy.min THEN [health[r] EXCEPT !.black = 0]
                               ELSE health[r]]
  /\ promised' = IF policy.on THEN promised ELSE [r \in PausedRoutes |-> 0]
  /\ budget' = [budget EXCEPT !.restarts = @ - 1]
  /\ UNCHANGED <<clock, policy, release>>

HealthTick ==
  /\ clock < LastMinute /\ policy.pc = "idle" /\ release.pc = "idle"
  /\ \A e \in Evaluators : eval[e].pc \in {"idle", "scheduled"}
  /\ clock' = clock + 1
  /\ UNCHANGED <<policy, health, eval, release, promised, budget>>

-----------------------------------------------------------------------------
EvaluatorStep(e) ==
  \/ \E r \in PausedRoutes : ScheduleCacheHealthEvaluation(e, r)
  \/ AggregateUsage(e) \/ ReadHealthState(e) \/ UpsertCacheHealth(e)
  \/ ReconcileInitialCacheHealthPolicies(e)

HealthNext ==
  \/ \E e \in Evaluators : EvaluatorStep(e)
  \/ \E r \in PausedRoutes : ReadForRelease(r)
  \/ ClearCacheHealthBlacklistForRoute \/ ClearCacheHealthBlacklistForGroup
  \/ SavePolicy \/ ResetCacheHealthForGroup
  \/ HealthTick

HealthSpec == HealthInit /\ [][HealthNext]_healthVars

-----------------------------------------------------------------------------
(* Properties. *)

\* Once an operator has released a route, no evaluation pauses it again before
\* the grace has passed, however many of them, on however many instances, come
\* in between.  Two cases are left out because the code loses them: the release
\* is written over by an evaluation that had read the row before, and a release
\* of the whole group gives no grace to a route that has no row of its own.
ReleaseStands == \A r \in PausedRoutes : promised[r] > clock => ~Paused(r)
=============================================================================
