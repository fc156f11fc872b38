--------------------------- MODULE ForwardRequest ---------------------------
(***************************************************************************)
(* HandleForward (backend/gateway/runtime_forward.go) on its sequential    *)
(* path: requests of one group and model walk through the group's routes,  *)
(* retrying, failing over, pausing routes that failed and keeping each     *)
(* conversation on the route that holds its prompt cache.                  *)
(*                                                                         *)
(* What the requests share are the cooldown rows (their own life is in     *)
(* ModelCooldown), the map from conversations to routes with its half-open *)
(* probes (route_affinity.go) and the memory of routes that failed a       *)
(* client's request id.  Times are countdowns: 0 is past, None is NULL.    *)
(* Rates, load balancing, cache hit rates and scheduler statistics order   *)
(* the candidates: within what the code guarantees of that order, any is   *)
(* possible.                                                               *)
(***************************************************************************)
EXTENDS Integers, FiniteSets, FiniteSetsExt

CONSTANTS
    Routes, Reserve,  \* the group's routes; those that are FallbackOnly
    Price, Premium,   \* effective rates; SchedulingPremiumPercent, as a difference
    Requests,
    SessionOf,        \* the conversation of each request
    RetryKeyOf,       \* the client's request id of each
    Policies,         \* what the group may be configured to
    Pauses,           \* lengths of CooldownSeconds (0: off)
    Hold,             \* routeAffinityProbeHold
    Lead,             \* a probe is due this long before the pause ends
    Emergency,        \* emergencyRestrictionRecoveryRouteCount
    Scenarios         \* bounds, chosen together: the requests that come, the
                      \* group's configuration, the routes paused and the
                      \* conversations' routes as they find them, and how
                      \* much else happens

None == -1
Nobody == "nobody"
Earlier == "an earlier request"
NoRoute == "no route"

ASSUME ForwardAssumption ==
    /\ Reserve \subseteq Routes /\ IsFiniteSet(Routes) /\ NoRoute \notin Routes
    /\ {Nobody, Earlier} \cap Requests = {}
    /\ Price \in [Routes -> Nat] /\ Premium \in Nat
    /\ Policies \subseteq [retry : BOOLEAN, count : Nat, failover : BOOLEAN, fmax : Nat,
                           attempts : Nat, pause : Pauses, late : BOOLEAN,
                           adaptive : BOOLEAN, armed : BOOLEAN]
    /\ Pauses \subseteq Nat /\ (\E longest \in Pauses : \A p \in Pauses : p <= longest)
    /\ Hold \in Nat \ {0} /\ Lead \in Nat /\ Emergency \in Nat \ {0}
    /\ Scenarios \subseteq [requests : SUBSET Requests, paused : SUBSET Routes,
                             bound : SUBSET Routes, groups : SUBSET Policies, events : Nat]

VARIABLES
    row,     \* the model's cooldown on each route
    quiet,   \* routes that cache health or a candy check keeps out
    entry,   \* routeAffinities
    failed,  \* requestRouteFailures
    req,     \* the requests
    group,   \* the group's configuration
    events   \* what else may still happen

vars == <<row, quiet, entry, failed, req, group, events>>
settings == <<group, events>>

Sessions == {SessionOf[q] : q \in Requests}
Keys == {RetryKeyOf[q] : q \in Requests}

\* gen: the request whose failure it is; armed: a background probe will come.
\* (Group and source keep a row each; the scheduler reads their union.)
NoRow == [until |-> None, gen |-> Nobody, armed |-> FALSE]
NoEntry == [route |-> NoRoute, probe |-> 0, blocked |-> 0]

Live(t) == t > 0
Due(c) == c.armed /\ c.until # None /\ c.until <= Lead

(***************************************************************************)
(* What becomes of an attempt that is not delivered (failover.go).         *)
(*   transient  no answer, 500, 502                                        *)
(*   source     408, 429, 503, 504; this source's model, key or quota; an  *)
(*              error envelope inside a 200                                *)
(*   late       no first token in time                                     *)
(*   caller     another 4xx; no slot of the source in time                 *)
(* Every status from 400 up is a failure here, so nothing reaches the      *)
(* branch that would pass an upstream error on.                            *)
(***************************************************************************)
Failures == {"transient", "source", "late", "caller"}

isSameRouteRetryableUpstreamFailure(f) == f = "transient"
shouldCooldownUpstreamFailure(f) == f \in {"transient", "source", "late"}
Pausing(f) ==
    /\ group.retry /\ group.pause > 0
    /\ shouldCooldownUpstreamFailure(f)
    /\ f = "late" => group.late

-----------------------------------------------------------------------------
\* A request: the rows and blacklists as it has them (its view), the routes it
\* will recover, its affinity context (pref, preserve, recovery, until), the
\* route it is on, the time left of the hold it took, and what it did.
Fresh == [pc |-> "new", view |-> [r \in Routes |-> NoRow], quiet |-> {}, todo |-> {},
          pref |-> NoRoute, preserve |-> FALSE, recovery |-> NoRoute, until |-> None,
          tried |-> {}, route |-> NoRoute, probe |-> FALSE, hold |-> 0, more |-> FALSE,
          tries |-> 0, max |-> 0, attempts |-> 0, ceiling |-> None,
          last |-> [r \in Routes |-> ""], out |-> ""]

Init ==
    /\ quiet = {}
    /\ failed = [k \in Keys |-> {}]
    /\ \E s \in Scenarios :
         /\ group \in s.groups /\ events = s.events
         /\ row = [r \in Routes |-> IF r \in s.paused
                     THEN [until |-> Max(Pauses), gen |-> Earlier, armed |-> group.armed] ELSE NoRow]
         /\ entry \in [Sessions -> {[NoEntry EXCEPT !.route = r] :
                                      r \in IF s.bound = {} THEN {NoRoute} ELSE s.bound}]
         /\ req = [q \in Requests |->
                     IF q \in s.requests THEN Fresh ELSE [Fresh EXCEPT !.pc = "ended"]]

\* IsRouteSchedulableForModel, on a request's copies of the rows.
Schedulable(q, r) ==
    /\ ~Live(req[q].view[r].until)
    /\ ~Due(req[q].view[r])
    /\ r \notin req[q].quiet

(***************************************************************************)
(* The routes are read, and when every one is restricted a few of them are *)
(* recovered: those that only a blacklist keeps out first.                 *)
(***************************************************************************)
ModelRestricted(r) == Live(row[r].until) \/ Due(row[r])

Recoverable ==
    IF \E r \in Routes : ~ModelRestricted(r) /\ r \notin quiet THEN {{}}
    ELSE {S \in kSubset(Min({Emergency, Cardinality(Routes)}), Routes) :
            \A a \in S, b \in Routes \ S : ModelRestricted(a) => ModelRestricted(b)}

ListRoutes(q) ==
    /\ req[q].pc = "new"
    /\ \E S \in Recoverable :
         req' = [req EXCEPT ![q].pc = "recovering", ![q].view = row, ![q].quiet = quiet, ![q].todo = S]
    /\ UNCHANGED <<row, quiet, entry, failed, settings>>

\* One of them: its pause is lifted for everybody, if it is still the one that
\* was read; otherwise the route stays restricted for this request.
Recover(q) ==
    /\ req[q].pc = "recovering"
    /\ \E r \in req[q].todo :
         LET seen == req[q].view[r]
             lifted == [seen EXCEPT !.until = None, !.armed = FALSE]
             same == row[r].until = seen.until /\ row[r].gen = seen.gen
         IN  /\ row' = IF Live(seen.until) /\ same THEN [row EXCEPT ![r] = lifted] ELSE row
             /\ IF Live(seen.until) => same
                THEN req' = [req EXCEPT ![q].todo = @ \ {r}, ![q].view[r] = lifted, ![q].quiet = @ \ {r}]
                ELSE req' = [req EXCEPT ![q].todo = @ \ {r}]
    /\ UNCHANGED <<quiet, entry, failed, settings>>

\* lookupRouteAffinity
LookUp(q) ==
    /\ req[q].pc = "recovering" /\ req[q].todo = {}
    /\ req' = [req EXCEPT ![q].pc = "planning", ![q].pref = entry[SessionOf[q]].route]
    /\ UNCHANGED <<row, quiet, entry, failed, settings>>

(***************************************************************************)
(* The next route.                                                         *)
(***************************************************************************)
\* SortRoutesForModel
Untried(q) == {r \in Routes \ req[q].tried : Schedulable(q, r)}

\* sortRoutesWithAffinity: the conversation's route is paused, and nothing
\* else keeps it out; a reserve is not probed while other routes are there.
MayProbe(q) ==
    LET p == req[q].pref IN
    /\ p # NoRoute /\ p \notin req[q].tried
    /\ p \in Reserve => Untried(q) \subseteq Reserve
    /\ Live(req[q].view[p].until) /\ ~Due(req[q].view[p]) /\ p \notin req[q].quiet

\* mutant: a hold that is still running does not matter.
claimRouteAffinityProbe_Shared(q) ==
    LET e == entry[SessionOf[q]] IN e.route = req[q].pref /\ ~Live(e.blocked)

claimRouteAffinityProbe(q) ==
    LET e == entry[SessionOf[q]] IN e.route = req[q].pref /\ ~Live(e.probe) /\ ~Live(e.blocked)

\* adaptiveRequest.filter: the first pool priced sets the ceiling of the
\* request; a recovered route sets none while there are others.
Ceiling(q, C, recovery) ==
    LET tier == C \ Reserve
        pool == IF Cardinality(tier) > 1 THEN tier \ {recovery} ELSE tier
    IN  IF ~group.adaptive \/ req[q].ceiling # None \/ pool = {} THEN req[q].ceiling
        ELSE Premium + Min({Price[r] : r \in pool})

Affordable(C, ceiling) ==
    IF group.adaptive THEN {r \in C : r \in Reserve \/ Price[r] <= ceiling} ELSE C

\* Which candidate comes first (orderCandidateTier, orderLoadBalancedCandidates,
\* applyCacheHitRatePriority, filterPreviouslyFailedRequestRoutes): what did not
\* fail this request id before what did, reserves after the others, and the
\* pinned route before those of its tier.
Heads(q, C, pinned) ==
    LET known == failed[RetryKeyOf[q]]
        rest == IF C \subseteq known THEN C ELSE C \ known
        tier == IF rest \subseteq Reserve THEN rest ELSE rest \ Reserve
    IN  IF pinned \in tier \ Reserve THEN {pinned} ELSE tier

Choose(q, r, recovery, until, ceiling) ==
    LET probe == req[q].tried = {} /\ recovery = r
    IN  [req[q] EXCEPT
          !.pc = "ready", !.route = r, !.tried = @ \cup {r}, !.tries = 0, !.probe = probe,
          !.max = IF probe THEN 1 ELSE 1 + (IF group.retry THEN group.count ELSE 0),
          !.more = Affordable(Untried(q) \ {r}, ceiling) # {}, !.ceiling = ceiling,
          !.recovery = IF recovery = NoRoute THEN @ ELSE recovery,
          !.until = IF recovery = NoRoute THEN @ ELSE until,
          !.hold = IF recovery = NoRoute THEN @ ELSE Hold]

\* The handler returns: what it knew goes with it; of what it did, only how a
\* failed request left its last route is looked at later.
Ended(rec, out) ==
    IF out # "failed" THEN [Fresh EXCEPT !.pc = "ended", !.out = out]
    ELSE [Fresh EXCEPT !.pc = "ended", !.out = out, !.last[rec.route] = rec.last[rec.route]]

Plan(q) ==
    LET s == SessionOf[q]
        claims == MayProbe(q) /\ claimRouteAffinityProbe(q)
        p == req[q].pref
        C == Untried(q) \cup (IF claims THEN {p} ELSE {})
        ceiling == Ceiling(q, C, IF claims THEN p ELSE NoRoute)
        A == Affordable(C, ceiling)
        \* A probe that costs too much is given back, and the conversation let go.
        passedOver == claims /\ p \notin A /\ req[q].tried = {}
        recovery == IF claims /\ ~passedOver THEN p ELSE NoRoute
        pinned == IF claims THEN recovery ELSE IF group.adaptive THEN NoRoute ELSE p
    IN  /\ req[q].pc = "planning"
        /\ IF A = {} THEN req' = [req EXCEPT ![q] = Ended(req[q], IF req[q].tried = {} THEN "unroutable" ELSE "failed")]
           ELSE \E r \in Heads(q, A, pinned) :
                  req' = [req EXCEPT ![q] =
                    [Choose(q, r, recovery, req[q].view[p].until, ceiling) EXCEPT
                       !.pref = IF passedOver THEN NoRoute ELSE @,
                       !.preserve = ~passedOver /\ (@ \/ MayProbe(q))]]
        /\ entry' = IF passedOver THEN [entry EXCEPT ![s].blocked = req[q].view[p].until]
                    ELSE IF claims THEN [entry EXCEPT ![s].probe = Hold] ELSE entry
        /\ UNCHANGED <<row, quiet, failed, settings>>

-----------------------------------------------------------------------------
(***************************************************************************)
(* The attempts on a route.                                                *)
(***************************************************************************)
Limited(q) == group.attempts > 0 /\ req[q].attempts >= group.attempts

\* claimRequestAttempt
Attempt(q) ==
    /\ req[q].pc = "ready"
    /\ IF Limited(q) THEN req' = [req EXCEPT ![q] = Ended(@, "failed")]
       ELSE req' = [req EXCEPT ![q].pc = "flying", ![q].tries = @ + 1,
                               ![q].attempts = IF group.attempts > 0 THEN @ + 1 ELSE @]
    /\ UNCHANGED <<row, quiet, entry, failed, settings>>

\* finishRouteAffinityProbe: a probe that failed keeps others away until the
\* later of the new pause and the one it set out to test.
Finished(q, success, pause) ==
    LET s == SessionOf[q]
        longest == Max({pause, req[q].until})
    IN  IF entry[s].route # req[q].route THEN entry
        ELSE [entry EXCEPT ![s].probe = 0,
                           ![s].blocked = IF success THEN 0 ELSE IF Live(longest) THEN longest ELSE @]

\* mutant: whatever served is remembered.
shouldRememberRoute_Always(q) == TRUE

shouldRememberRoute(q) ==
    req[q].preserve /\ req[q].pref # NoRoute => req[q].route = req[q].pref

\* Delivered (a client that leaves a committed stream counts as served): the
\* pause the request knew of is over, and its conversation stays here.
Serve(q) ==
    LET r == req[q].route
        s == SessionOf[q]
        gen == req[q].view[r].gen
        freed == Finished(q, TRUE, None)
    IN  /\ req[q].pc = "flying"
        /\ row' = IF gen # Nobody /\ row[r].gen = gen
                  THEN [row EXCEPT ![r].until = None, ![r].armed = FALSE] ELSE row
        /\ entry' = IF shouldRememberRoute(q) /\ freed[s].route # r
                    THEN [freed EXCEPT ![s] = [NoEntry EXCEPT !.route = r]] ELSE freed
        /\ req' = [req EXCEPT ![q] = Ended(req[q], "served")]
        /\ UNCHANGED <<quiet, failed, settings>>

Remembering(q, r) == [failed EXCEPT ![RetryKeyOf[q]] = @ \cup {r}]

\* The stream broke after it was committed, or its first visible output came
\* too late: no second attempt, no pause.
Break(q) ==
    /\ req[q].pc = "flying"
    /\ entry' = IF req[q].probe THEN Finished(q, FALSE, None) ELSE entry
    /\ \E slow \in BOOLEAN : failed' = IF slow THEN failed ELSE Remembering(q, req[q].route)
    /\ req' = [req EXCEPT ![q] = Ended(req[q], "broken")]
    /\ UNCHANGED <<row, quiet, settings>>

\* finishRecoveryProbe
Returned(q) == IF req[q].recovery = req[q].route THEN Finished(q, FALSE, None) ELSE entry

\* The request cannot be converted for this upstream, or the answer cannot be
\* written to the client.
Reject(q) ==
    /\ req[q].pc = "flying"
    /\ entry' = Returned(q)
    /\ req' = [req EXCEPT ![q] = Ended(req[q], "rejected")]
    /\ UNCHANGED <<row, quiet, failed, settings>>

FailoverLeft(q) == group.retry /\ group.failover /\ Cardinality(req[q].tried) - 1 < group.fmax

Onward(q, rec) ==
    IF FailoverLeft(q) THEN [rec EXCEPT !.pc = "planning"]
    ELSE Ended(rec, "failed")

\* The route's channel, key or provider does not resolve: the next route.
Misconfigured(q) ==
    /\ req[q].pc = "flying"
    /\ entry' = Returned(q)
    /\ req' = [req EXCEPT ![q] = Onward(q, [req[q] EXCEPT !.last[req[q].route] = "config"])]
    /\ UNCHANGED <<row, quiet, failed, settings>>

\* mutant: the request's own limit does not make an attempt the last one.
LastTry_OwnRoute(q, max) == req[q].tries >= max

LastTry(q, max) == req[q].tries >= max \/ Limited(q)

\* Another route is preferred to a second try on this one.
TriesAfter(q, f) ==
    IF (FailoverLeft(q) /\ req[q].more) \/ ~isSameRouteRetryableUpstreamFailure(f)
    THEN req[q].tries ELSE req[q].max

Paused(q, f, max) == Pausing(f) /\ LastTry(q, max)

Fail(q, f) ==
    LET r == req[q].route
        max == TriesAfter(q, f)
        pausing == Paused(q, f, max)
        rec == [req[q] EXCEPT !.max = max, !.last[r] = f,
                              !.preserve = @ \/ (pausing /\ r = req[q].pref)]
    IN  /\ req[q].pc = "flying"
        /\ failed' = IF shouldCooldownUpstreamFailure(f) THEN Remembering(q, r) ELSE failed
        /\ row' = IF pausing THEN [row EXCEPT ![r] = [until |-> group.pause, gen |-> q, armed |-> group.armed]]
                  ELSE row
        /\ entry' = IF req[q].probe /\ LastTry(q, max)
                    THEN Finished(q, FALSE, IF pausing THEN group.pause ELSE None) ELSE entry
        /\ req' = [req EXCEPT ![q] =
             IF group.retry /\ req[q].tries < max THEN [rec EXCEPT !.pc = "ready"] ELSE Onward(q, rec)]
        /\ UNCHANGED <<quiet, settings>>

\* The client leaves, or the whole request has waited too long for its first
\* visible output: nothing is blamed on the route.
Cancel(q) ==
    /\ req[q].pc \in {"ready", "flying"}
    /\ entry' = IF req[q].pc = "flying" /\ req[q].probe THEN Finished(q, FALSE, None) ELSE entry
    /\ req' = [req EXCEPT ![q] = Ended(req[q], "canceled")]
    /\ UNCHANGED <<row, quiet, failed, settings>>

-----------------------------------------------------------------------------
(***************************************************************************)
(* The rest of the system, and time.                                       *)
(***************************************************************************)
Spend == events > 0 /\ events' = events - 1

\* The background probe of a due row (ModelCooldown).
ProbeSettles(r) ==
    /\ Due(row[r])
    /\ \/ row' = [row EXCEPT ![r].until = None, ![r].armed = FALSE] /\ UNCHANGED events
       \/ Spend /\ row' = [row EXCEPT ![r].until = Lead + 1]
    /\ UNCHANGED <<quiet, entry, failed, req, group>>

\* An administrator clears a route's pauses.
ClearTempUnschedulable(r) ==
    /\ row[r] # NoRow /\ Spend
    /\ row' = [row EXCEPT ![r] = NoRow]
    /\ UNCHANGED <<quiet, entry, failed, req, group>>

\* Cache health or a candy check blacklists routes, or lets them back in.
Blacklist(S) ==
    /\ S # quiet /\ Spend
    /\ quiet' = S
    /\ UNCHANGED <<row, entry, failed, req, group>>

\* An affinity, or the memory of a request id, expires or is evicted.
Forget ==
    /\ Spend
    /\ \/ \E s \in Sessions : entry[s] # NoEntry /\ entry' = [entry EXCEPT ![s] = NoEntry] /\ UNCHANGED failed
       \/ \E k \in Keys : failed[k] # {} /\ failed' = [failed EXCEPT ![k] = {}] /\ UNCHANGED entry
    /\ UNCHANGED <<row, quiet, req, group>>

Aged(t) == IF Live(t) THEN t - 1 ELSE t
AgedRow(c) == [c EXCEPT !.until = Aged(@)]

\* A unit of time is long: requests wait for it in flight.
Tick ==
    /\ \A q \in Requests : req[q].pc \in {"new", "flying", "ended"}
    /\ \/ \E r \in Routes : Live(row[r].until)
       \/ \E s \in Sessions : Live(entry[s].probe) \/ Live(entry[s].blocked)
    /\ row' = [r \in Routes |-> AgedRow(row[r])]
    /\ entry' = [s \in Sessions |-> [entry[s] EXCEPT !.probe = Aged(@), !.blocked = Aged(@)]]
    /\ req' = [q \in Requests |->
         IF req[q].pc # "flying" THEN req[q]
         ELSE [req[q] EXCEPT !.view = [r \in Routes |-> AgedRow(@[r])], !.until = Aged(@), !.hold = Aged(@)]]
    /\ UNCHANGED <<quiet, failed, settings>>

RequestStep(q) ==
    \/ ListRoutes(q) \/ Recover(q) \/ LookUp(q) \/ Plan(q) \/ Attempt(q)
    \/ Serve(q) \/ Break(q) \/ Reject(q) \/ Misconfigured(q) \/ Cancel(q)
    \/ \E f \in Failures : Fail(q, f)

Next ==
    \/ \E q \in Requests : RequestStep(q)
    \/ \E r \in Routes : ProbeSettles(r) \/ ClearTempUnschedulable(r)
    \/ \E S \in SUBSET Routes : Blacklist(S)
    \/ Forget
    \/ Tick

Spec == Init /\ [][Next]_vars

-----------------------------------------------------------------------------
(***************************************************************************)
(* Properties.                                                             *)
(***************************************************************************)
\* The shape of the state.
TypeOK ==
    /\ row \in [Routes -> [until : {None} \cup Nat, gen : Requests \cup {Nobody, Earlier}, armed : BOOLEAN]]
    /\ quiet \in SUBSET Routes
    /\ entry \in [Sessions -> [route : Routes \cup {NoRoute}, probe : Nat, blocked : Nat]]
    /\ failed \in [Keys -> SUBSET Routes]
    /\ group \in Policies /\ events \in Nat
    /\ \A q \in Requests :
         /\ req[q].pc \in {"new", "recovering", "planning", "ready", "flying", "ended"}
         /\ req[q].tried \subseteq Routes

\* A request pauses exactly the routes it leaves after a failure that tells
\* something of their health: not when another try on the same route follows,
\* not for the client's own mistake, not because the client left
\* (runtime_forward.go:588); and no such route is missed, whether its retries,
\* the limit of attempts or a better route ended the walk on it.
PauseIsEarned ==
    [][\A q \in Requests : req[q].pc = "flying" /\ req'[q].pc # "flying" =>
        LET r == req[q].route
            left == IF req'[q].pc = "ready" THEN Limited(q) ELSE req'[q].out \in {"", "failed"}
        IN  row'[r].gen = q <=> left /\ Pausing(req'[q].last[r])]_vars

\* A conversation leaves the route that holds its prompt cache for good only by
\* a request that did not know of it or did not find it paused: while the route
\* is paused, others serve the conversation and it comes back afterwards.
AffinityKept ==
    [][\A q \in Requests :
        LET s == SessionOf[q]
            p == entry[s].route
            halfOpen == Live(req[q].view[p].until) /\ ~Due(req[q].view[p])
                          /\ p \notin req[q].quiet /\ p \notin Reserve
        IN  req'[q].out = "served" /\ req[q].out = "" /\ p # NoRoute /\ entry'[s].route # p
              => ~(req[q].pref = p /\ (halfOpen \/ (p # req[q].route /\ Pausing(req[q].last[p]))))]_vars

\* Of the requests of one conversation a single one tests its paused route
\* while its hold lasts: of two, a third one was on that route before and gave
\* back a hold that was not its own (whoever is through clears it, a delivered
\* answer as well as a probe that outlived its hold).
OneRecoveryProbe ==
    \A q1, q2 \in Requests :
        LET testing(q) == req[q].pc = "flying" /\ req[q].probe /\ Live(req[q].hold)
            r == req[q1].route
        IN  /\ q1 # q2 /\ SessionOf[q1] = SessionOf[q2]
            /\ testing(q1) /\ testing(q2) /\ req[q2].route = r
            => \E q \in Requests \ {q1, q2} :
                 /\ SessionOf[q] = SessionOf[q1]
                 /\ r \in req[q].tried \/ req[q].out \notin {"", "unroutable"}

=============================================================================
