----------------------------- MODULE AttemptPlan -----------------------------
(***************************************************************************)
(* The launch plan of one coordinated request (runtime_forward_            *)
(* coordinated.go): which source each numbered attempt of the hedge         *)
(* coordinator calls, how often a source may be called again after a        *)
(* transport failure and after a rejected answer, and when the request      *)
(* pauses a source for everybody else.  HedgeRace models the race itself,   *)
(* the gates and the cancellations; here an attempt is called, answers and  *)
(* is reported, and the reports of concurrent attempts come in any order.   *)
(*                                                                         *)
(* An answer is one of                                                     *)
(*   "ok"         accepted                                                 *)
(*   "caller"     the caller's own mistake, passed on as it is             *)
(*   "config"     the attempt could not be prepared                        *)
(*   "retryable"  a failure the same source may overcome (a 502)           *)
(*   "fixed"      one it will not (a revoked key, no first token in time)  *)
(*   "queue"      no slot of the source became free in time                *)
(*   "rejected"   the text matched a rule                                  *)
(*   "matched"    an error body of a 5xx matched a rule                    *)
(*   "declared"   an error declared inside a 200 stream matched a rule     *)
(*   "policy"     the same, and the error is one that will not go away     *)
(*   "audit"      refused for its model name or for missing usage          *)
(***************************************************************************)
EXTENDS Integers, Sequences, FiniteSets

CONSTANT PlanScenarios   \* records [group, routes]: see MCForwardRequest

Rejections == {"rejected", "matched", "declared", "policy", "audit"}
TransportFailures == {"retryable", "fixed", "queue"}
Recorded == {"retryable", "fixed"}   \* a full queue is not held against a retry
AnswerKinds == {"ok", "caller", "config"} \cup TransportFailures \cup Rejections

\* What the gateway group's settings may be.
PolicyRecord ==
  [hedge : BOOLEAN, hedgeMax : Nat \ {0}, parallel : Nat \ {0}, validation : BOOLEAN,
   retry : BOOLEAN, failover : BOOLEAN, failoverMax : Nat, retries : Nat,
   responseRetries : Int, limit : Nat, recovery : BOOLEAN, answers : SUBSET AnswerKinds]

ASSUME PlanScenariosSound ==
  \A s \in PlanScenarios : s.group \in PolicyRecord /\ s.routes \in Nat \ {0}

VARIABLES
  policy,      \* the policy of the gateway group, with recovery and answers
  entries,     \* coordinatedPlanScheduler.entries
  started,     \* coordinatedPlanScheduler.started
  budget,      \* retryBudgetByRoute; latestTry is -1 where there is none
  attempts,    \* the attempts by number: the entry they took and their answer
  excluded, suppressed,   \* the two sync.Maps of handleForwardCoordinated
  claimed,     \* attempts charged to request_max_attempts
  outcome      \* "open", "won", "failed" or "exhausted"

planVars == <<policy, entries, started, budget, attempts, excluded, suppressed,
              claimed, outcome>>

Larger(a, b) == IF a < b THEN b ELSE a
Smaller(a, b) == IF a < b THEN a ELSE b

-----------------------------------------------------------------------------
(* The plan.                                                               *)

coordinatedTransportFailoverEnabled ==
  policy.retry /\ policy.failover /\ policy.failoverMax > 0

RouteLimit(g, n) ==
  CASE g.hedge -> Smaller(n, g.hedgeMax)
    [] ~g.hedge /\ g.validation ->
         IF g.failoverMax > 0 THEN Smaller(n, 1 + g.failoverMax) ELSE n
    [] OTHER -> IF g.retry /\ g.failover THEN Smaller(n, 1 + g.failoverMax) ELSE 1

TransportRetries(g) == IF g.retry THEN g.retries ELSE 0

\* A negative count inherits the transport retries.
effectiveResponseValidationRetryCount(g) ==
  IF ~g.retry THEN 0
  ELSE Smaller(10, IF g.responseRetries < 0 THEN g.retries ELSE g.responseRetries)

ResponseRetries(g) ==
  IF g.validation THEN effectiveResponseValidationRetryCount(g) ELSE TransportRetries(g)

\* Rounds over the sources where sources are to be switched, otherwise source
\* after source; the best candidate is route 1.
buildCoordinatedRoutePlan(g, n) ==
  LET limit == RouteLimit(g, n)
      tries == 1 + Larger(TransportRetries(g), ResponseRetries(g))
      inRounds == g.hedge \/ g.validation \/ (g.retry /\ g.failover /\ g.failoverMax > 0)
      Entry(r, t) == [route |-> r, try |-> t, maxTries |-> 1 + TransportRetries(g),
                      responseMaxTries |-> 1 + ResponseRetries(g)]
  IN [i \in 1..(limit * tries) |->
        IF inRounds THEN Entry(((i - 1) % limit) + 1, (i - 1) \div limit)
        ELSE Entry(((i - 1) \div tries) + 1, (i - 1) % tries)]

\* What a sequence has at the places given, in its order.
Ascending(places) ==
  {o \in [1..Cardinality(places) -> places] :
     \A i, j \in 1..Cardinality(places) : i < j => o[i] < o[j]}
AtPlaces(plan, places) ==
  LET order == CHOOSE o \in Ascending(places) : TRUE
  IN [i \in 1..Cardinality(places) |-> plan[order[i]]]

\* The request probes a cooled source: one call, then the others.
removeRecoveryRouteRetries(plan, route) ==
  AtPlaces(plan, {i \in DOMAIN plan : ~(plan[i].route = route /\ plan[i].try > 0)})

maxAttempts == IF policy.hedge THEN Smaller(Len(entries), policy.hedgeMax) ELSE Len(entries)
MaxParallel == IF policy.hedge THEN Smaller(policy.parallel, maxAttempts) ELSE 1

NoBudget == [latestTry |-> -1, originTry |-> -1, maxTries |-> 0, responseRejected |-> FALSE]

\* A recovery is probed alone: it switches hedging off.
PlanInit ==
  \E s \in PlanScenarios :
    LET g == [s.group EXCEPT !.hedge = @ /\ ~s.group.recovery]
        plan == buildCoordinatedRoutePlan(g, s.routes)
    IN /\ policy = g
       /\ entries = IF g.recovery THEN removeRecoveryRouteRetries(plan, 1) ELSE plan
       /\ budget = [r \in 1..s.routes |-> NoBudget]
       /\ started = 0 /\ attempts = <<>> /\ excluded = {} /\ suppressed = {}
       /\ claimed = 0 /\ outcome = "open"

-----------------------------------------------------------------------------
(* The scheduler: each operation is one critical section.                  *)

\* What a launch may call: response is set when the retry was opened by a
\* rejected answer, and origin then names the try that was rejected.
Reserved(n) ==
  LET e == entries[n]
      b == budget[e.route]
      opened == e.try > b.latestTry /\ b.responseRejected
  IN [route |-> e.route, try |-> e.try, maxTries |-> e.maxTries,
      responseMaxTries |-> e.responseMaxTries,
      retryMaxTries |-> IF opened THEN b.maxTries ELSE e.maxTries,
      response |-> opened, origin |-> IF opened THEN b.originTry ELSE 0]

recordRejection(a) ==
  IF a.try < budget[a.route].latestTry THEN budget
  ELSE [budget EXCEPT ![a.route] =
          [latestTry |-> a.try, originTry |-> a.try,
           maxTries |-> Larger(1, a.responseMaxTries), responseRejected |-> TRUE]]

\* Mutant: a failure in transit leaves the retries of the rejection open.
recordFailure_Kept(a) == budget

recordFailure(a) ==
  LET b == budget[a.route] IN
  IF b.responseRejected /\ a.response /\ b.originTry = a.origin /\ a.try > b.latestTry
  THEN [budget EXCEPT ![a.route] =
          [latestTry |-> a.try, originTry |-> b.originTry,
           maxTries |-> a.maxTries, responseRejected |-> FALSE]]
  ELSE budget

\* Mutant: the slot after the next one is exchanged.
prioritizeRouteRetry_OneLate(a, maxTries) ==
  LET next == started + 2
      retries == {i \in next..Len(entries) :
                    entries[i].route = a.route /\ entries[i].try = a.try + 1}
  IN IF next > maxAttempts \/ maxTries <= a.try + 1 \/ retries = {} THEN entries
     ELSE LET i == CHOOSE i \in retries : \A j \in retries : i <= j
          IN [entries EXCEPT ![next] = entries[i], ![i] = entries[next]]

\* The next try of the source changes places with the next entry not started.
prioritizeRouteRetry(a, maxTries) ==
  LET next == started + 1
      retries == {i \in next..Len(entries) :
                    entries[i].route = a.route /\ entries[i].try = a.try + 1}
  IN IF started >= maxAttempts \/ maxTries <= a.try + 1 \/ retries = {} THEN entries
     ELSE LET i == CHOOSE i \in retries : \A j \in retries : i <= j
          IN [entries EXCEPT ![next] = entries[i], ![i] = entries[next]]

-----------------------------------------------------------------------------
(* What an answer means.                                                   *)

requestAttemptsRemaining == policy.limit = 0 \/ claimed < policy.limit

\* An untried other source behind number n in the launched part of the plan.
coordinatedPlanHasLaterAlternative(plan, n, route) ==
  \E i \in (n + 1)..maxAttempts : plan[i].try = 0 /\ plan[i].route # route

coordinatedPlanHasLaterRoute(plan, n, route) ==
  \E i \in (n + 1)..maxAttempts : plan[i].route = route

coordinatedAttemptSuppressesSameRouteRetries(kind) ==
  kind \in {"fixed", "queue", "caller", "policy", "declared"}

\* An error declared inside a 200 may be tried again at the last source.
coordinatedShouldSuppressSameRouteRetry(kind, n, route) ==
  /\ coordinatedAttemptSuppressesSameRouteRetries(kind)
  /\ kind = "declared" => coordinatedPlanHasLaterAlternative(entries, n, route)

PrefersAlternative(kind, plan, n, route) ==
  /\ kind = "audit" /\ requestAttemptsRemaining
  /\ coordinatedPlanHasLaterAlternative(plan, n, route)

\* Failures that are the source's and not the caller's or the gateway's.
CountsAgainstSource == {"retryable", "fixed", "matched", "declared", "policy", "audit"}

\* publishCoordinatedFailure: the source is paused unless this very request
\* means to come back to it.
Publishes(kind, plan, n, route) ==
  /\ kind \in CountsAgainstSource /\ policy.retry
  /\ \/ coordinatedAttemptSuppressesSameRouteRetries(kind)
     \/ coordinatedTransportFailoverEnabled
        /\ coordinatedPlanHasLaterAlternative(plan, n, route)
     \/ PrefersAlternative(kind, plan, n, route)
     \/ ~requestAttemptsRemaining
     \/ ~coordinatedPlanHasLaterRoute(plan, n, route)

-----------------------------------------------------------------------------
(* The attempts.                                                           *)

Numbers == 1..Len(attempts)
Active == {n \in Numbers : attempts[n].pc # "done"}
Unreserved == [route |-> 0, try |-> 0, maxTries |-> 0, responseMaxTries |-> 0,
               retryMaxTries |-> 0, response |-> FALSE, origin |-> 0]
NewAttempt == [pc |-> "launched", plan |-> Unreserved, answer |-> "none", known |-> {},
          healthRecorded |-> FALSE]

\* runHedge and runSequentialHedge launch the next number.
Launch ==
  /\ outcome = "open" /\ Len(attempts) < maxAttempts
  /\ Cardinality(Active) < MaxParallel
  /\ attempts' = Append(attempts, NewAttempt)
  /\ UNCHANGED <<policy, entries, started, budget, excluded, suppressed,
                 claimed, outcome>>

\* known is history: the attempts already reported when this one took its entry.
TakeAttempt(n) ==
  /\ attempts[n].pc = "launched"
  /\ attempts' = [attempts EXCEPT ![n].pc = "reserved", ![n].plan = Reserved(n),
                                  ![n].known = Numbers \ Active]
  /\ started' = Larger(started, n)
  /\ UNCHANGED <<policy, entries, budget, excluded, suppressed, claimed, outcome>>

Skips(a) ==
  \/ a.try > 0 /\ a.route \in suppressed
  \/ a.route \in excluded
  \/ a.try > 0 /\ a.try >= a.retryMaxTries

Answered(n, kind) ==
  attempts' = [attempts EXCEPT ![n].pc = "answered", ![n].answer = kind]

\* The entry is skipped, refused by the request's budget, or called.
Admit(n) ==
  /\ attempts[n].pc = "reserved"
  /\ IF Skips(attempts[n].plan) \/ ~requestAttemptsRemaining
     THEN Answered(n, "skipped") /\ UNCHANGED claimed
     ELSE attempts' = [attempts EXCEPT ![n].pc = "calling"] /\ claimed' = claimed + 1
  /\ UNCHANGED <<policy, entries, started, budget, excluded, suppressed, outcome>>

\* One source at a time and no failover: a transport failure may only go on
\* with the retries of its own source.
Confined == ~policy.hedge /\ ~coordinatedTransportFailoverEnabled

Stops(a, kind, n) ==
  \/ kind = "caller"
  \/ Confined /\ kind = "config"
  \/ /\ Confined /\ kind \in TransportFailures
     /\ \/ coordinatedShouldSuppressSameRouteRetry(kind, n, a.route)
        \/ ~(policy.retry /\ a.try + 1 < a.maxTries)

\* The attempt ends; what it decides by itself, before the coordinator hears
\* of it.
Answer(n, kind) ==
  LET a == attempts[n].plan IN
  /\ attempts[n].pc = "calling"
  /\ attempts' = [attempts EXCEPT ![n].pc = IF Stops(a, kind, n) THEN "stopped" ELSE "answered",
                                  ![n].answer = kind]
  /\ excluded' = IF kind = "config" THEN excluded \cup {a.route} ELSE excluded
  /\ suppressed' = IF kind # "config" /\ coordinatedShouldSuppressSameRouteRetry(kind, n, a.route)
                   THEN suppressed \cup {a.route} ELSE suppressed
  /\ entries' = IF Confined /\ kind \in TransportFailures /\ ~Stops(a, kind, n)
                THEN prioritizeRouteRetry(a, a.maxTries) ELSE entries
  /\ UNCHANGED <<policy, started, budget, claimed, outcome>>

\* A rejection is noted and, without failover, its retry moved forward.
Rejected(a, kind, n) ==
  /\ budget' = recordRejection(a)
  /\ entries' = IF coordinatedTransportFailoverEnabled
                   \/ coordinatedAttemptSuppressesSameRouteRetries(kind)
                   \/ PrefersAlternative(kind, entries, n, a.route)
                THEN entries ELSE prioritizeRouteRetry(a, a.responseMaxTries)

\* The coordinator takes the report of attempt n: validate, OnComplete, and
\* what runHedge does with the verdict.  A good answer is refused when another
\* attempt of its source could meanwhile not be prepared.
Complete(n) ==
  LET a == attempts[n].plan
      kind == attempts[n].answer
      accepted == kind = "ok" /\ a.route \notin excluded
  IN /\ outcome = "open" /\ attempts[n].pc \in {"answered", "stopped"}
     /\ \/ kind \in Rejections /\ Rejected(a, kind, n)
        \/ kind \in Recorded /\ budget' = recordFailure(a) /\ UNCHANGED entries
        \/ kind \notin Rejections \cup Recorded /\ UNCHANGED <<budget, entries>>
     /\ attempts' = [attempts EXCEPT ![n].pc = "done",
          ![n].healthRecorded = Publishes(kind, entries', n, a.route)]
     /\ outcome' = CASE accepted -> "won"
                     [] attempts[n].pc = "stopped" -> "failed"
                     [] OTHER -> "open"
     /\ UNCHANGED <<policy, started, excluded, suppressed, claimed>>

Exhausted ==
  /\ outcome = "open" /\ Len(attempts) = maxAttempts /\ Active = {}
  /\ outcome' = "exhausted"
  /\ UNCHANGED <<policy, entries, started, budget, attempts, excluded, suppressed,
                 claimed>>

PlanNext ==
  \/ Launch \/ Exhausted
  \/ \E n \in Numbers :
       \/ TakeAttempt(n) \/ Admit(n) \/ Complete(n)
       \/ \E kind \in policy.answers : Answer(n, kind)

PlanSpec == PlanInit /\ [][PlanNext]_planVars

-----------------------------------------------------------------------------
(* Properties.                                                             *)

Called(n) == attempts[n].answer # "skipped" /\ attempts[n].pc \notin {"launched", "reserved"}
PlanOf(n) == attempts[n].plan
SameRoute(m, n) == PlanOf(m).route = PlanOf(n).route

\* "Response-validation and transport retries have independent budgets": a call
\* beyond the transport retries of its source was opened by a rejected answer
\* of that source to an earlier try, reported before the entry was taken, and
\* no retry which that rejection opened had failed in transport by then.
RetriesAreEarned ==
  \A n \in Numbers :
    Called(n) /\ PlanOf(n).try >= PlanOf(n).maxTries =>
      \E m \in attempts[n].known :
        /\ SameRoute(m, n) /\ attempts[m].answer \in Rejections
        /\ PlanOf(m).try < PlanOf(n).try /\ PlanOf(n).try < PlanOf(m).responseMaxTries
        /\ ~ \E k \in attempts[n].known :
               /\ SameRoute(k, n) /\ attempts[k].answer \in Recorded
               /\ PlanOf(k).response /\ PlanOf(k).origin = PlanOf(m).try

\* m was called, and n is the next attempt called after it.
NextCall(m, n) == m < n /\ Called(m) /\ Called(n) /\ \A k \in (m + 1)..(n - 1) : ~Called(k)

\* A rejection that asks for another try of the same source.
AsksAgain(m) ==
  /\ attempts[m].answer \in {"rejected", "matched"}
  /\ PlanOf(m).try + 1 < PlanOf(m).responseMaxTries

\* The next try of m's source came before m: where two retries of another
\* source were moved forward, the first try of this one went behind its second.
Overtaken(m) ==
  \E k \in 1..(m - 1) : SameRoute(k, m) /\ PlanOf(k).try = PlanOf(m).try + 1

\* "With failover on and other candidates the source is switched first;
\* otherwise the same source is retried": without failover the call after a
\* rejection with tries left, or after a transport failure, goes to the same
\* source, and a request that runs out of attempts has not left such a
\* rejection unanswered; with failover every source has had its turn before
\* any is called again.  (The source of a recovery probe has no retries.)
\* And without failover the request does not call a source that it has paused
\* for everybody, unless the pause was for switching to an alternative or for
\* an error declared inside a 200.
SourceOrder ==
  /\ Confined =>
       \A m \in Numbers :
         /\ \A n \in Numbers :
              NextCall(m, n) /\ (AsksAgain(m) \/ attempts[m].answer \in TransportFailures) =>
                \/ SameRoute(m, n) /\ PlanOf(n).try = PlanOf(m).try + 1
                \/ Overtaken(m)
                \/ policy.recovery /\ PlanOf(m).route = 1
         /\ outcome = "exhausted" /\ Called(m) /\ AsksAgain(m) =>
              \/ \E n \in Numbers : NextCall(m, n)
              \/ ~requestAttemptsRemaining \/ Overtaken(m)
              \/ policy.recovery /\ PlanOf(m).route = 1
  /\ Confined =>
       \A n \in Numbers : Called(n) =>
         ~ \E m \in attempts[n].known :
             /\ SameRoute(m, n) /\ attempts[m].healthRecorded
             /\ attempts[m].answer \notin {"audit", "declared"}
  /\ coordinatedTransportFailoverEnabled =>
       \A n \in Numbers : Called(n) /\ PlanOf(n).try > 0 =>
         \A i \in DOMAIN entries :
           \E m \in 1..(n - 1) : entries[m].route = entries[i].route /\ entries[m].try = 0
=============================================================================
