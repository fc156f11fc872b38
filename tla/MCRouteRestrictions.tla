------------------------ MODULE MCRouteRestrictions ------------------------
(***************************************************************************)
(* The three automatic restrictions that take a route out of scheduling    *)
(* (IsRouteSchedulableForModel reads all of them): model cooldowns, candy  *)
(* checks and cache health.  They write rows of their own and read none of *)
(* the others', so one at a time is followed here, the others at rest.     *)
(* Countdowns and clocks are short: a pause may be shorter or longer than  *)
(* a lease.                                                                *)
(***************************************************************************)
EXTENDS ModelCooldown, CandyCheck, CacheHealth

CONSTANTS r1, r2, r3, w1, w2, o1, a, b

ThreeRequests == {r1, r2, r3}
TwoWorkers == {w1, w2}
OneOperator == {o1}
TwoRoutes == {a, b}
LongPauses == {1, 3}
MCBackoffs == {1}
MCMinRequests == {1, 2}

\* Enough requests for a success to outlive its failure; two saves; one save
\* and a lost prober; an operator and a lost prober.
MCScenarios ==
  {[requests |-> ThreeRequests, faults |-> 0, asks |-> 0, saves |-> 0],
   [requests |-> {r1}, faults |-> 0, asks |-> 0, saves |-> 2],
   [requests |-> {r1, r2}, faults |-> 1, asks |-> 0, saves |-> 1],
   [requests |-> {r1, r2}, faults |-> 1, asks |-> 1, saves |-> 0]}

CheckOf(w, r, manual, nr) == [worker |-> w, route |-> r, manual |-> manual, nr |-> nr]
TwoDue == {CheckOf(w1, a, FALSE, 1), CheckOf(w2, b, FALSE, 1)}

\* A check that waits for two others; two due ones, with a route cleared and a
\* worker lost, or the group saved; a due and a forced check of one route, and
\* of two; a route saved and cleared between its checks; one cleared and forced between them.
MCCheckScenarios ==
  {[checks |-> {CheckOf(w1, b, FALSE, 1), CheckOf(w1, b, TRUE, 2), CheckOf(w2, a, FALSE, 1)},
    saves |-> {}, clears |-> {}, faults |-> 0],
   [checks |-> TwoDue, saves |-> {}, clears |-> {a}, faults |-> 1],
   [checks |-> TwoDue, saves |-> {"group"}, clears |-> {}, faults |-> 0],
   [checks |-> {CheckOf(w1, a, FALSE, 1), CheckOf(w2, a, TRUE, 1)}, saves |-> {}, clears |-> {a}, faults |-> 1],
   [checks |-> {CheckOf(w1, b, FALSE, 1), CheckOf(w2, a, TRUE, 1)}, saves |-> {}, clears |-> {}, faults |-> 1],
   [checks |-> {CheckOf(w1, a, FALSE, 1), CheckOf(w1, a, FALSE, 2)}, saves |-> {a}, clears |-> {a}, faults |-> 0],
   [checks |-> {CheckOf(w1, a, FALSE, 1), CheckOf(w2, a, TRUE, 1), CheckOf(w1, a, FALSE, 2)}, saves |-> {},
    clears |-> {a}, faults |-> 0]}

\* Evaluations before and after a release, then a save or a restart between them.
MCHealthScenarios ==
  {[usages |-> 2, releases |-> 1, saves |-> 0, restarts |-> 0],
   [usages |-> 1, releases |-> 1, saves |-> 1, restarts |-> 0],
   [usages |-> 1, releases |-> 1, saves |-> 0, restarts |-> 1]}

VARIABLE followed  \* which of the three

allVars == <<vars, checkVars, healthVars, followed>>

\* One of several initial states of a part that is at rest.
CandyAtRest == CheckInit /\ left = CHOOSE s \in CheckScenarios : TRUE
HealthAtRest ==
  /\ HealthInit /\ budget = (CHOOSE s \in HealthScenarios : TRUE)
  /\ policy.min = 1 /\ ~health[Legacy].there
CooldownAtRest == Init /\ used.of = CHOOSE s \in Scenarios : TRUE

RestrictionsInit ==
  \/ followed = "cooldown" /\ Init /\ CandyAtRest /\ HealthAtRest
  \/ followed = "candy" /\ CooldownAtRest /\ CheckInit /\ HealthAtRest
  \/ followed = "health" /\ CooldownAtRest /\ CandyAtRest /\ HealthInit

RestrictionsNext ==
  \/ followed = "cooldown" /\ Next /\ UNCHANGED <<checkVars, healthVars, followed>>
  \/ followed = "candy" /\ CheckNext /\ UNCHANGED <<vars, healthVars, followed>>
  \/ followed = "health" /\ HealthNext /\ UNCHANGED <<vars, checkVars, followed>>

RestrictionsSpec == RestrictionsInit /\ [][RestrictionsNext]_allVars /\ Fairness
=============================================================================
