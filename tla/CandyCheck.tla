----------------------------- MODULE CandyCheck -----------------------------
(***************************************************************************)
(* The candy check: a fixed puzzle that is put to the upstream of a route, *)
(* and a cooldown for a route whose upstream answers it wrongly            *)
(* (backend/storage/candy_check.go, candy_check_shared.go,                 *)
(* backend/gateway/candy_check.go).                                        *)
(*                                                                         *)
(* Routes that resolve to the same upstream request share one observation: *)
(* a row with a lease of its own, next to the row and the lease each route *)
(* has.  Here all routes share one.  Checkers are the jobs of one or more   *)
(* application instances; a lease token is the worker that drew it.        *)
(* Time is absolute and starts at 1; 0 is SQL NULL.  Any step may take     *)
(* long, except that what runs under the probe's context ends at its       *)
(* deadline.                                                               *)
(***************************************************************************)
EXTENDS Integers, FiniteSets

CONSTANTS
  Checkers, Routes,
  CheckLease, Timeout, \* candyCheckTimeout + 30 s, candyCheckTimeout
  Interval, Cooldown,  \* of the group's policy; an error of the source is shared for Retry
  Retry, Tries,        \* how often the shared row is asked
  MaxTime,             \* bound
  CheckScenarios       \* bounds, chosen together: which checks each worker starts, the
                       \* settings saved, the routes cleared, the faults

ASSUME CheckTimes ==
  /\ {CheckLease, Timeout, Interval, Cooldown, Retry, Tries, MaxTime} \subseteq Nat
  /\ Timeout < CheckLease

VARIABLES
  now,
  conf,    \* the saved settings: a version of each route, CandyCheckEnabled of their group
  check,   \* the gateway_route_candy_checks rows
  shared,  \* the gateway_candy_check_shared_results row
  work,    \* the workers
  told,    \* when the upstream answered wrongly and when that was published, and when an
           \* operator last cleared a route, unless the settings have changed since its last
           \* check or a check of it has failed since, before it reached the shared row
  left     \* what is left of the bounds of the scenario

checkVars == <<now, conf, check, shared, work, told, left>>

Noone == "no worker"
ASSUME ScenariosSound ==
  /\ Noone \notin Checkers
  /\ CheckScenarios \subseteq
       [checks : SUBSET [worker : Checkers, route : Routes, manual : BOOLEAN, nr : Nat],
        saves : SUBSET (Routes \cup {"group"}), clears : SUBSET Routes, faults : Nat]

Verdicts == {"correct", "incorrect"}

-----------------------------------------------------------------------------
(***************************************************************************)
(* The answer.  An envelope is complete or not, reports an error or not,   *)
(* and has the answer "21", another one, or none.  A stream collects the   *)
(* text of its deltas and may end with a whole response; it may break off, *)
(* report a failure, stop for another reason than the end of the answer,   *)
(* or never say that it ended.                                             *)
(***************************************************************************)

Texts == {"21", "other", ""}
Envelope == [complete : BOOLEAN, error : BOOLEAN, text : Texts]
Stream == [sound : BOOLEAN, ended : BOOLEAN, text : Texts, whole : {{}} \cup {{e} : e \in Envelope}]

\* candyJSONAnswer: the text of an envelope, {} when there is no final answer.
AnswerOf(e) == IF e.complete /\ ~e.error /\ e.text # "" THEN {e.text} ELSE {}

\* parseCandyCheckAnswer: the deltas and the whole response must agree.  A whole
\* response that only omits the text leaves it to the deltas.
StreamedAnswerOf(s) ==
  LET whole == UNION {AnswerOf(e) : e \in s.whole}
      deltas == IF s.text = "" THEN {} ELSE {s.text}
  IN IF ~s.sound THEN {}
     ELSE IF whole # {} THEN IF deltas \subseteq whole THEN whole ELSE {}
     ELSE IF \E e \in s.whole : ~e.complete \/ e.error THEN {}
     ELSE IF s.ended \/ s.whole # {} THEN deltas ELSE {}

\* candyCheckAnswerCorrect
Graded(answer) == IF answer = {} THEN "error" ELSE IF answer = {"21"} THEN "correct" ELSE "incorrect"

\* What a request may come to: a graded answer; refused as a request (400, 404,
\* 405, 413, 415, 422); any other failure.
Outcomes ==
  {Graded(AnswerOf(e)) : e \in Envelope} \cup {Graded(StreamedAnswerOf(s)) : s \in Stream}
    \cup {"rejected", "error"}

-----------------------------------------------------------------------------
NoKey == <<0, FALSE>>

\* GatewayCandyCheckConfigKey: the policy is part of it.
ConfigKey(r) == <<conf.version[r], conf.auto>>

NewCheck(key) == [key |-> key, status |-> "pending", lease |-> 0, token |-> Noone, next |-> 0,
                  cool |-> 0, streak |-> 0, back |-> 0]
NoResult == [status |-> "none", obs |-> 0, reused |-> FALSE]
Resting == [pc |-> "idle", route |-> Noone, manual |-> FALSE, key |-> NoKey, cool |-> 0, streak |-> 0,
            dead |-> 0, tries |-> 0, news |-> FALSE, owns |-> FALSE, res |-> NoResult]

-----------------------------------------------------------------------------
(* What the statements test and write. *)

Active(r) == check[r].key = ConfigKey(r)
Blocks(r) == Active(r) /\ check[r].cool > now
Leased(r) == check[r].lease > now
BackoffOf(streak) == <<1, 2, 4>>[streak]  \* 15 s, 30 s, 60 s
Later(t, u) == IF t > u THEN t ELSE u

\* candySharedResultUsable
Usable ==
  \/ shared.status \in Verdicts /\ shared.obs + Interval > now
  \/ shared.status \in {"error", "rejected"} /\ shared.retry > now

\* A claim starts afresh when the settings changed since the last one.
ClaimedCheck(w, r) ==
  LET c == IF Active(r) THEN check[r] ELSE NewCheck(ConfigKey(r))
  IN [c EXCEPT !.lease = now + CheckLease, !.token = w]

\* The observation time of a result; a reused one keeps the source's.
SeenAt(res) == IF res.obs # 0 THEN res.obs ELSE now

\* The row after a check whose claim still holds: a verdict replaces the
\* cooldown, an error or a skipped check keeps the claim's.
Finished(c, job) ==
  LET res == job.res
      seen == SeenAt(res)
      until == IF res.status \in Verdicts
               THEN IF conf.auto /\ res.status = "incorrect" THEN seen + Cooldown ELSE 0
               ELSE job.cool
      failed == res.status = "error"
      streak == IF failed THEN IF job.streak < 2 THEN job.streak + 1 ELSE 3
                ELSE IF res.status \in Verdicts \cup {"rejected"} THEN 0 ELSE c.streak
      due == IF failed THEN now + BackoffOf(streak) ELSE Later(seen + Interval, until)
  IN [c EXCEPT
        !.lease = 0, !.token = Noone,
        !.next = IF conf.auto THEN due ELSE 0,
        !.streak = streak,
        !.back = IF failed THEN IF conf.auto THEN due ELSE @ ELSE IF streak = 0 THEN 0 ELSE @,
        !.cool = IF res.status \in {"skipped", "deferred"} THEN @ ELSE until,
        !.status = IF res.status = "deferred" THEN @ ELSE res.status]

\* Mutant: the result is written whoever holds the lease by now.
ClaimHolds_WithoutToken(w) == check[work[w].route].key = work[w].key

\* The WHERE clause of the UPDATE.
ClaimHolds(w) ==
  LET c == check[work[w].route]
  IN c.key = work[w].key /\ c.token = w /\ c.lease > now

-----------------------------------------------------------------------------
CheckInit ==
  /\ now = 1
  /\ conf = [version |-> [r \in Routes |-> 1], auto |-> TRUE]
  /\ check = [r \in Routes |-> NewCheck(NoKey)]
  /\ shared = [status |-> "pending", obs |-> 0, retry |-> 0, lease |-> 0, token |-> Noone]
  /\ work = [w \in Checkers |-> Resting]
  /\ told = [wrong |-> {}, cleared |-> [r \in Routes |-> 0]]
  /\ left \in CheckScenarios

Go(w, pc) == work' = [work EXCEPT ![w].pc = pc]
Judge(w, status) == work' = [work EXCEPT ![w].pc = "judged", ![w].res.status = status]
StandDown(w) == work' = [work EXCEPT ![w] = Resting]

Start(c) ==
  /\ c \in left.checks /\ work[c.worker].pc = "idle"
  /\ work' = [work EXCEPT ![c.worker] = [Resting EXCEPT !.pc = "picked", !.route = c.route, !.manual = c.manual,
                                                       !.key = ConfigKey(c.route)]]
  /\ left' = [left EXCEPT !.checks = @ \ {c}]
  /\ UNCHANGED <<now, conf, check, shared, told>>

\* The periodic job finds the check of a route due.
RunCandyChecks(c) ==
  /\ ~c.manual /\ conf.auto /\ ~Leased(c.route)
  /\ ~(Active(c.route) /\ check[c.route].next > now)
  /\ Start(c)

\* An operator asks for a check, whatever the interval or cooldown.
RunCandyCheckNow(c) == c.manual /\ Start(c)

\* claimCandyCheck, in one transaction.
ClaimCandyCheck(w) ==
  LET r == work[w].route IN
  /\ work[w].pc = "picked"
  /\ IF /\ work[w].manual \/ conf.auto
        /\ work[w].key = ConfigKey(r) /\ ~Leased(r)
        /\ work[w].manual \/ ~(Active(r) /\ check[r].next > now)
     THEN /\ check' = [check EXCEPT ![r] = ClaimedCheck(w, r)]
          /\ work' = [work EXCEPT ![w] = [@ EXCEPT !.pc = "acquiring", !.dead = now + Timeout,
                                                   !.cool = check'[r].cool, !.streak = check'[r].streak]]
     ELSE check' = check /\ StandDown(w)
  /\ UNCHANGED <<now, conf, shared, told, left>>

\* The check ends before it reaches the shared row: the model is not served
\* there, the upstream is not ready, or no request can be built.
Skip(w) ==
  /\ work[w].pc = "acquiring" /\ work[w].tries = 0
  /\ \E status \in {"skipped", "error"} : Judge(w, status)
  /\ UNCHANGED <<now, conf, check, shared, told, left>>

Reuse(w) ==
  work' = [work EXCEPT ![w].pc = "judged", ![w].news = FALSE,
             ![w].res = [status |-> shared.status, obs |-> shared.obs, reused |-> TRUE]]

TakeLease(w) ==
  /\ shared' = [shared EXCEPT !.lease = now + CheckLease, !.token = w]
  /\ work' = [work EXCEPT ![w].pc = "queueing", ![w].owns = TRUE, ![w].news = FALSE]

\* Mutant: a manual check takes the lease away from the check under way.
AcquireSharedCandyCheck_ForceSteals(w) ==
  /\ work[w].pc = "acquiring"
  /\ \/ shared.lease > now /\ ~work[w].manual /\ Go(w, "waiting") /\ shared' = shared
     \/ shared.lease <= now /\ ~work[w].manual /\ Usable /\ Reuse(w) /\ shared' = shared
     \/ shared.lease <= now /\ ~work[w].manual /\ ~Usable /\ TakeLease(w)
     \/ work[w].manual /\ TakeLease(w)
  /\ UNCHANGED <<now, conf, check, told, left>>

\* In one transaction: another check is under way and is waited for; the
\* shared observation is fresh and is reused, but not by a manual check; or
\* the lease is taken.
AcquireSharedCandyCheck(w) ==
  /\ work[w].pc = "acquiring"
  /\ \/ shared.lease > now /\ Go(w, "waiting") /\ shared' = shared
     \/ shared.lease <= now /\ Usable /\ ~work[w].manual /\ Reuse(w) /\ shared' = shared
     \/ shared.lease <= now /\ (~Usable \/ work[w].manual) /\ TakeLease(w)
  /\ UNCHANGED <<now, conf, check, told, left>>

\* The lease waited for is free.  Only an observation published meanwhile is
\* consumed; otherwise the lease is asked for again, Tries times in all.
WaitForSharedCandyCheck(w) ==
  /\ work[w].pc = "waiting" /\ shared.lease <= now
  /\ \/ Usable /\ work[w].news /\ Reuse(w)
     \/ /\ ~(Usable /\ work[w].news) /\ work[w].tries + 1 < Tries
        /\ work' = [work EXCEPT ![w].pc = "acquiring", ![w].news = FALSE, ![w].tries = @ + 1]
     \/ ~(Usable /\ work[w].news) /\ work[w].tries + 1 = Tries /\ Judge(w, "deferred")
  /\ UNCHANGED <<now, conf, check, shared, told, left>>

\* The wait, or the queue of the upstream's concurrency limit, lasts too long.
WaitTimesOut(w) ==
  /\ \/ work[w].pc = "waiting" /\ now >= work[w].dead
     \/ work[w].pc = "queueing"
  /\ Judge(w, "deferred")
  /\ UNCHANGED <<now, conf, check, shared, told, left>>

\* A slot of the upstream is acquired and the request goes out.
SendRequest(w) ==
  /\ work[w].pc = "queueing" /\ now < work[w].dead
  /\ Go(w, "calling")
  /\ UNCHANGED <<now, conf, check, shared, told, left>>

\* The answer is graded: right, wrong, refused as a request, or no verdict.
ProbeCandyRequest(w) ==
  /\ work[w].pc = "calling"
  /\ \E status \in Outcomes :
       /\ work' = [work EXCEPT ![w].pc = "judged",
                     ![w].res = [status |-> status, obs |-> IF status \in Verdicts THEN now ELSE 0,
                                 reused |-> FALSE]]
       /\ told' = IF status = "incorrect"
                  THEN [told EXCEPT !.wrong = @ \cup {[seen |-> now, known |-> MaxTime + 1]}] ELSE told
  /\ UNCHANGED <<now, conf, check, shared, left>>

\* The caller of the check goes away (an operator's request, a shutdown).
Cancel(w) ==
  /\ work[w].pc \in {"acquiring", "waiting", "queueing", "calling", "judged"} /\ left.faults > 0
  /\ Judge(w, "deferred")
  /\ left' = [left EXCEPT !.faults = @ - 1]
  /\ UNCHANGED <<now, conf, check, shared, told>>

\* A check that failed before it reached the shared row, which keeps what it had.
FailedAlone(job) == job.res.status = "error" /\ ~job.owns /\ ~job.res.reused

\* finishSharedCandyCheckTx: what the routes of the source share from now on.  An
\* error, and a refused request, is shared for a short time.
Published(job) ==
  [status |-> job.res.status, obs |-> SeenAt(job.res),
   retry |-> IF job.res.status \in Verdicts THEN 0 ELSE now + Retry, lease |-> 0, token |-> Noone]

Publishes(w) == work[w].owns /\ work[w].res.status # "deferred"

\* finishCandyCheck: the row of the route and the shared row, in one
\* transaction, or neither.
FinishCandyCheck(w) ==
  LET job == work[w]
      r == job.route
      stands == /\ job.manual \/ conf.auto
                /\ job.key = ConfigKey(r) /\ ClaimHolds(w)
                /\ Publishes(w) => shared.token = w /\ shared.lease > now
      published == stands /\ Publishes(w)
  IN /\ job.pc = "judged"
     /\ check' = IF stands THEN [check EXCEPT ![r] = Finished(@, job)] ELSE check
     /\ shared' = IF published THEN Published(job) ELSE shared
     /\ work' = [v \in Checkers |->
                   IF v # w THEN [work[v] EXCEPT !.news = @ \/ (published /\ work[v].pc = "waiting")]
                   ELSE IF job.owns /\ ~published THEN [job EXCEPT !.pc = "releasing"] ELSE Resting]
     /\ told' = [wrong |-> {IF published /\ t.seen = job.res.obs THEN [t EXCEPT !.known = now] ELSE t
                             : t \in told.wrong},
                 cleared |-> IF stands /\ FailedAlone(job) THEN [told.cleared EXCEPT ![r] = 0] ELSE told.cleared]
     /\ UNCHANGED <<now, conf, left>>

ReleaseSharedCandyCheck(w) ==
  /\ work[w].pc = "releasing"
  /\ shared' = IF shared.token = w THEN [shared EXCEPT !.lease = 0, !.token = Noone] ELSE shared
  /\ StandDown(w)
  /\ UNCHANGED <<now, conf, check, told, left>>

\* The process of a worker stops; its leases stay in the rows.
LoseWorker(w) ==
  /\ work[w].pc # "idle" /\ left.faults > 0
  /\ StandDown(w)
  /\ left' = [left EXCEPT !.faults = @ - 1]
  /\ UNCHANGED <<now, conf, check, shared, told>>

-----------------------------------------------------------------------------
(* The management plane, and time. *)

\* A route is edited, or the automatic checks of the group are switched.
SaveSettings ==
  \E what \in left.saves :
    /\ left' = [left EXCEPT !.saves = @ \ {what}]
    /\ conf' = IF what = "group" THEN [conf EXCEPT !.auto = ~@] ELSE [conf EXCEPT !.version[what] = @ + 1]
    /\ told' = [told EXCEPT !.cleared = [r \in Routes |-> IF what \in {r, "group"} THEN 0 ELSE @[r]]]
    /\ UNCHANGED <<now, check, shared, work>>

ClearCandyCheck(r) ==
  /\ r \in left.clears /\ check[r].key # NoKey
  /\ check' = [check EXCEPT ![r] = [@ EXCEPT !.lease = 0, !.token = Noone, !.next = now + Interval, !.streak = 0,
                                             !.back = 0, !.cool = 0, !.status = "manual"]]
  /\ told' = IF Active(r) THEN [told EXCEPT !.cleared[r] = now] ELSE told
  /\ left' = [left EXCEPT !.clears = @ \ {r}]
  /\ UNCHANGED <<now, conf, shared, work>>

\* The context of a probe ends what runs under it at the deadline.
CheckTick ==
  /\ now < MaxTime
  /\ \A w \in Checkers : work[w].pc \in {"acquiring", "waiting", "queueing", "calling"} => now < work[w].dead
  /\ now' = now + 1
  /\ UNCHANGED <<conf, check, shared, work, told, left>>

-----------------------------------------------------------------------------
WorkerStep(w) ==
  \/ ClaimCandyCheck(w) \/ Skip(w) \/ AcquireSharedCandyCheck(w) \/ WaitForSharedCandyCheck(w)
  \/ WaitTimesOut(w) \/ SendRequest(w) \/ ProbeCandyRequest(w) \/ Cancel(w)
  \/ FinishCandyCheck(w) \/ ReleaseSharedCandyCheck(w) \/ LoseWorker(w)

CheckNext ==
  \/ \E w \in Checkers : WorkerStep(w)
  \/ \E c \in left.checks : RunCandyChecks(c) \/ RunCandyCheckNow(c)
  \/ \E r \in Routes : ClearCandyCheck(r)
  \/ SaveSettings
  \/ CheckTick

CheckSpec == CheckInit /\ [][CheckNext]_checkVars

-----------------------------------------------------------------------------
(* Properties. *)

\* However many routes, instances, operators and lost workers there are, the
\* upstream has one candy request in flight at a time: a lease outlives the
\* request it covers, and a forced check waits like any other.
OneSourceCall == Cardinality({w \in Checkers : work[w].pc = "calling"}) <= 1

\* A route is out of scheduling only for a wrong answer the upstream really
\* gave, no longer than the cooldown after that answer, and not for an answer
\* that was known before an operator cleared the route: neither a check that
\* was under way then nor the observation that is still shared brings the pause
\* back.  Two cases are left out because the code loses them: the settings have
\* changed since the route's last check, so that the next one starts afresh and
\* may reuse what is still shared; and a forced check has failed before it
\* reached the shared row, so that the next one comes after a short backoff,
\* while the old observation is still shared.
BlockIsEarned ==
  \A r \in Routes : Blocks(r) =>
    \E t \in told.wrong : check[r].cool <= t.seen + Cooldown /\ t.known >= told.cleared[r]
=============================================================================
