----------------------- MODULE RouteRestrictions_proofs -----------------------
(***************************************************************************)
(* The three automatic restrictions of a route, for any routes, workers,   *)
(* lengths and scenarios.                                                  *)
(*                                                                         *)
(* Candy checks: the upstream has one request in flight at a time, because *)
(* who sends it holds the shared lease past its deadline (ProbeCovered);   *)
(* a route is blocked only for an answer that still counts, because every  *)
(* check that may write its row is fair to it (ClaimIsFair): while an      *)
(* outdated answer is shared, no periodic check of the route is due        *)
(* (OutdatedIsNotDue), and none that has news of it is told of that one.   *)
(*                                                                         *)
(* Cache health: an operator's release stands, because an evaluation that  *)
(* was not overtaken has seen its grace (NotBehind).                       *)
(*                                                                         *)
(* Model cooldowns: two instances do not probe one failure at a time, and  *)
(* the bookkeeping of a success wipes no pause that is still on.  Neither  *)
(* is inductive.  A probe with a live lease must be known to be            *)
(* the row's own, or its failure to be over: the row has another           *)
(* generation, or none of its statements can make it due again (ClaimHeld).*)
(* A generation never comes back, because a request fails once             *)
(* (GenerationsEnd), and a row without one, or with a success counted, is  *)
(* not paused (QuietRows).                                                 *)
(***************************************************************************)
EXTENDS ModelCooldown, CandyCheck, CacheHealth, TLAPS, FiniteSetTheorems

-----------------------------------------------------------------------------
(* Candy checks: the types of the rows and the jobs. *)

SettingsKeys == Nat \X BOOLEAN
Grades == {"correct", "incorrect", "rejected", "error", "skipped", "deferred"}
CheckRow == [key : SettingsKeys, status : Grades \cup {"pending", "manual"}, lease : Nat,
             token : Checkers \cup {Noone}, next : Nat, cool : Nat, streak : 0 .. 3, back : Nat]
SharedRow == [status : Grades \cup {"pending"}, obs : Nat, retry : Nat, lease : Nat, token : Checkers \cup {Noone}]
CheckResult == [status : Grades \cup {"none", "pending"}, obs : Nat, reused : BOOLEAN]
CheckJob == [pc : {"idle", "picked", "acquiring", "waiting", "queueing", "calling", "judged", "releasing"},
             route : Routes \cup {Noone}, manual : BOOLEAN, key : SettingsKeys, cool : Nat, streak : 0 .. 3,
             dead : Nat, tries : Nat, news : BOOLEAN, owns : BOOLEAN, res : CheckResult]
CheckBudget == [checks : SUBSET [worker : Checkers, route : Routes, manual : BOOLEAN, nr : Nat],
                saves : SUBSET (Routes \cup {"group"}), clears : SUBSET Routes, faults : Nat]

\* A job has a route from its start to its end.
JobTyped(job) == job \in CheckJob /\ (job.pc # "idle" => job.route \in Routes)
WorkTyped == work \in [Checkers -> CheckJob] /\ \A w \in Checkers : JobTyped(work[w])

CheckTypeOK ==
  /\ now \in Nat \ {0}
  /\ conf \in [version : [Routes -> Nat], auto : BOOLEAN]
  /\ check \in [Routes -> CheckRow]
  /\ shared \in SharedRow
  /\ WorkTyped
  /\ told \in [wrong : SUBSET [seen : Nat, known : Nat], cleared : [Routes -> Nat]]
  /\ left \in CheckBudget

(* What a route is blocked for. *)

\* The upstream answered wrongly at that time, and it was not known before r was cleared.
Deserved(r, seen) == \E t \in told.wrong : t.seen = seen /\ t.known >= told.cleared[r]

\* The pause ends in time after a wrong answer that counts against r.
PauseEarned(r, cool) == cool = 0 \/ \E t \in told.wrong : cool <= t.seen + Cooldown /\ t.known >= told.cleared[r]

\* What is shared is a wrong answer that no longer counts against r.
Outdated(r) == shared.status = "incorrect" /\ ~Deserved(r, shared.obs)

\* Observations lie in the past.
TimesPast ==
  /\ now <= MaxTime + 1 /\ shared.obs <= now
  /\ \A w \in Checkers : work[w].res.obs <= now
  /\ \A t \in told.wrong : t.seen \in 1 .. now
  /\ \A r \in Routes : told.cleared[r] <= now /\ told.cleared[r] <= MaxTime + 1

\* A route that counts as cleared has been checked under the current settings.
ClearedIsActive == \A r \in Routes : told.cleared[r] > 0 => Active(r)
\* What is shared as a wrong answer was one.
SharedWasTold == shared.status = "incorrect" => \E t \in told.wrong : t.seen = shared.obs

\* While the outdated answer is shared, no periodic check of the route is due.
OutdatedIsNotDue == \A r \in Routes : conf.auto /\ Outdated(r) => check[r].next >= shared.obs + Interval

\* The claim of w is still in the row.
HoldsClaim(w) ==
  work[w].pc \in {"acquiring", "waiting", "queueing", "calling", "judged"} /\ check[work[w].route].token = w

\* What the check of w may yet write is fair: it reuses no outdated answer, and its own
\* is not older than what is shared.
ClaimIsFair(w) ==
  LET job == work[w] IN
  /\ PauseEarned(job.route, job.cool)
  /\ job.pc \in {"acquiring", "waiting"} /\ ~job.manual /\ Outdated(job.route) => shared.obs + Interval <= now
  /\ job.news => ~Outdated(job.route)
  /\ job.pc = "judged" =>
       /\ job.res.status = "incorrect" => Deserved(job.route, job.res.obs)
       /\ job.res.obs # 0 /\ Outdated(job.route) => job.res.obs >= shared.obs
       /\ job.res.status = "error" /\ job.res.reused => ~Outdated(job.route)

-----------------------------------------------------------------------------
\* What the statements read and write has its type.
LEMMA RowPartsTyped ==
  ASSUME CheckTypeOK
  PROVE  /\ \A r \in Routes : ConfigKey(r) \in SettingsKeys
         /\ \A key \in SettingsKeys : NewCheck(key) \in CheckRow
         /\ NoKey \in SettingsKeys /\ Resting \in CheckJob /\ NoResult \in CheckResult
         /\ \A w \in Checkers, r \in Routes : ClaimedCheck(w, r) \in CheckRow
<1>1. \A r \in Routes : ConfigKey(r) \in SettingsKeys
  BY DEF CheckTypeOK, ConfigKey, SettingsKeys
<1>2. \A key \in SettingsKeys : NewCheck(key) \in CheckRow
  BY DEF NewCheck, CheckRow
<1>3. NoKey \in SettingsKeys /\ NoResult \in CheckResult
  BY DEF NoKey, SettingsKeys, NoResult, CheckResult
<1>4. Resting \in CheckJob
  BY <1>3 DEF Resting, CheckJob
<1>5. ASSUME NEW w \in Checkers, NEW r \in Routes PROVE ClaimedCheck(w, r) \in CheckRow
  <2>1. now + CheckLease \in Nat
    BY CheckTimes DEF CheckTypeOK
  <2>2. check[r] \in CheckRow /\ NewCheck(ConfigKey(r)) \in CheckRow
    BY <1>1, <1>2 DEF CheckTypeOK
  <2> QED BY <2>1, <2>2 DEF ClaimedCheck, CheckRow
<1> QED BY <1>1, <1>2, <1>3, <1>4, <1>5

\* An answer is graded right, wrong or neither; the upstream may refuse the request.
LEMMA GradesGiven == Outcomes \subseteq {"correct", "incorrect", "rejected", "error"}
  BY DEF Outcomes, Graded

\* A row that is written by a check or by an operator is a row.
LEMMA RowRewritten ==
  ASSUME NEW c \in CheckRow, NEW next \in Nat, NEW streak \in 0 .. 3, NEW back \in Nat, NEW cool \in Nat,
         NEW status \in Grades \cup {"pending", "manual"}
  PROVE  [c EXCEPT !.lease = 0, !.token = Noone, !.next = next, !.streak = streak, !.back = back, !.cool = cool,
                   !.status = status] \in CheckRow
  BY DEF CheckRow

\* The row after a check is a row.
LEMMA FinishedTyped ==
  ASSUME CheckTypeOK, NEW c \in CheckRow, NEW job \in CheckJob, job.res.status \in Grades
  PROVE  Finished(c, job) \in CheckRow
<1>1. SeenAt(job.res) \in Nat
  BY DEF CheckTypeOK, SeenAt, CheckJob, CheckResult
<1>2. \A s \in 0 .. 3 : (IF s < 2 THEN s + 1 ELSE 3) \in 1 .. 3
  OBVIOUS
<1>3. \A s \in 1 .. 3 : BackoffOf(s) \in Nat
  <2>1. BackoffOf(1) = 1 /\ BackoffOf(2) = 2 /\ BackoffOf(3) = 4
    BY DEF BackoffOf
  <2> QED BY <2>1
<1> DEFINE res == job.res
           seen == SeenAt(res)
           until == IF res.status \in Verdicts
                    THEN IF conf.auto /\ res.status = "incorrect" THEN seen + Cooldown ELSE 0
                    ELSE job.cool
           streak == IF res.status = "error" THEN IF job.streak < 2 THEN job.streak + 1 ELSE 3
                     ELSE IF res.status \in Verdicts \cup {"rejected"} THEN 0 ELSE c.streak
           due == IF res.status = "error" THEN now + BackoffOf(streak) ELSE Later(seen + Interval, until)
<1>4. until \in Nat
  BY <1>1, CheckTimes DEF CheckJob
<1>5. streak \in 0 .. 3 /\ (res.status = "error" => streak \in 1 .. 3)
  BY <1>2 DEF CheckJob, CheckRow
<1>6. due \in Nat
  BY <1>1, <1>3, <1>4, <1>5, CheckTimes DEF Later, CheckTypeOK
<1> DEFINE next == IF conf.auto THEN due ELSE 0
           back == IF res.status = "error" THEN IF conf.auto THEN due ELSE c.back ELSE IF streak = 0 THEN 0 ELSE c.back
           cool == IF res.status \in {"skipped", "deferred"} THEN c.cool ELSE until
           status == IF res.status = "deferred" THEN c.status ELSE res.status
<1>7. next \in Nat /\ back \in Nat /\ cool \in Nat /\ status \in Grades \cup {"pending", "manual"}
  BY <1>4, <1>6 DEF CheckRow
<1>8. Finished(c, job) = [c EXCEPT !.lease = 0, !.token = Noone, !.next = next, !.streak = streak, !.back = back,
                                   !.cool = cool, !.status = status]
  BY Zenon DEF Finished
<1>9. [c EXCEPT !.lease = 0, !.token = Noone, !.next = next, !.streak = streak, !.back = back, !.cool = cool,
                !.status = status] \in CheckRow
  <2> HIDE DEF next, back, cool, status, streak
  <2> QED BY <1>5, <1>7, RowRewritten
<1> QED BY Zenon, <1>8, <1>9

\* The first states have their types.
LEMMA CheckInitTyped == CheckInit => CheckTypeOK
<1> SUFFICES ASSUME CheckInit PROVE CheckTypeOK
  OBVIOUS
<1>1. NoKey \in SettingsKeys /\ NoResult \in CheckResult
  BY DEF NoKey, SettingsKeys, NoResult, CheckResult
<1>2. NewCheck(NoKey) \in CheckRow /\ Resting \in CheckJob
  BY <1>1 DEF NewCheck, CheckRow, Resting, CheckJob
<1>3. check \in [Routes -> CheckRow] /\ work \in [Checkers -> CheckJob]
  BY <1>2 DEF CheckInit
<1>4. shared \in SharedRow /\ left \in CheckBudget
  BY ScenariosSound DEF CheckInit, SharedRow, CheckBudget
<1>5. told \in [wrong : SUBSET [seen : Nat, known : Nat], cleared : [Routes -> Nat]]
  BY DEF CheckInit
<1>6. now \in Nat \ {0} /\ conf \in [version : [Routes -> Nat], auto : BOOLEAN]
  BY DEF CheckInit
<1>7. \A w \in Checkers : work[w].pc = "idle"
  BY DEF CheckInit, Resting
<1> QED BY <1>3, <1>4, <1>5, <1>6, <1>7 DEF CheckTypeOK, WorkTyped, JobTyped

\* A step that replaces one job.
LEMMA JobReplaced ==
  ASSUME WorkTyped, NEW w \in Checkers, NEW job, JobTyped(job), work' = [work EXCEPT ![w] = job]
  PROVE  WorkTyped' /\ work'[w] = job /\ \A v \in Checkers \ {w} : work'[v] = work[v]
  BY DEF WorkTyped, JobTyped

\* A worker at rest has its type.
LEMMA RestingTyped == ASSUME CheckTypeOK PROVE JobTyped(Resting)
  BY RowPartsTyped DEF JobTyped, Resting

\* What the steps of a worker make of its job.
LEMMA JudgeTyped ==
  ASSUME CheckTypeOK, NEW w \in Checkers, NEW status \in Grades, Judge(w, status), work[w].pc # "idle"
  PROVE  WorkTyped' /\ work' = [work EXCEPT ![w] = [work[w] EXCEPT !.pc = "judged", !.res.status = status]]
<1>1. JobTyped(work[w])
  BY DEF CheckTypeOK, WorkTyped
<1>2. work' = [work EXCEPT ![w] = [work[w] EXCEPT !.pc = "judged", !.res.status = status]]
  BY DEF Judge, CheckTypeOK, WorkTyped
<1>3. JobTyped([work[w] EXCEPT !.pc = "judged", !.res.status = status])
  BY <1>1 DEF JobTyped, CheckJob, CheckResult
<1> QED BY <1>2, <1>3, JobReplaced DEF CheckTypeOK

\* The reuse of the shared observation keeps the types.
LEMMA ReuseTyped ==
  ASSUME CheckTypeOK, NEW w \in Checkers, Reuse(w), work[w].pc # "idle"
  PROVE  WorkTyped' /\ work' = [work EXCEPT ![w] = [work[w] EXCEPT !.pc = "judged", !.news = FALSE,
                                 !.res = [status |-> shared.status, obs |-> shared.obs, reused |-> TRUE]]]
<1> DEFINE res == [status |-> shared.status, obs |-> shared.obs, reused |-> TRUE]
<1>1. JobTyped(work[w])
  BY DEF CheckTypeOK, WorkTyped
<1>2. work' = [work EXCEPT ![w] = [work[w] EXCEPT !.pc = "judged", !.news = FALSE, !.res = res]]
  BY DEF Reuse, CheckTypeOK, WorkTyped
<1>3. res \in CheckResult
  BY DEF CheckTypeOK, SharedRow, CheckResult, Grades
<1>4. JobTyped([work[w] EXCEPT !.pc = "judged", !.news = FALSE, !.res = res])
  BY <1>1, <1>3 DEF JobTyped, CheckJob
<1> QED BY <1>2, <1>4, JobReplaced DEF CheckTypeOK

\* claimCandyCheck keeps the types.
LEMMA ClaimTyped ==
  ASSUME CheckTypeOK, NEW w \in Checkers, ClaimCandyCheck(w)
  PROVE  CheckTypeOK'
<1> DEFINE r == work[w].route
<1>1. JobTyped(work[w]) /\ r \in Routes
  BY DEF CheckTypeOK, WorkTyped, JobTyped, ClaimCandyCheck
<1>2. CASE /\ check' = [check EXCEPT ![r] = ClaimedCheck(w, r)]
           /\ work' = [work EXCEPT ![w] = [@ EXCEPT !.pc = "acquiring", !.dead = now + Timeout,
                                                    !.cool = check'[r].cool, !.streak = check'[r].streak]]
  <2> DEFINE job == [work[w] EXCEPT !.pc = "acquiring", !.dead = now + Timeout,
                                    !.cool = check'[r].cool, !.streak = check'[r].streak]
  <2>1. ClaimedCheck(w, r) \in CheckRow
    BY <1>1, RowPartsTyped
  <2>2. check' \in [Routes -> CheckRow] /\ check'[r] \in CheckRow
    BY <1>1, <1>2, <2>1 DEF CheckTypeOK
  <2>3. check'[r].cool \in Nat /\ check'[r].streak \in 0 .. 3 /\ now + Timeout \in Nat
    BY <2>2, CheckTimes DEF CheckRow, CheckTypeOK
  <2>4. JobTyped(job)
    BY <1>1, <2>3 DEF JobTyped, CheckJob
  <2>5. work' = [work EXCEPT ![w] = job]
    BY <1>2 DEF CheckTypeOK, WorkTyped
  <2>6. WorkTyped'
    BY <2>4, <2>5, JobReplaced DEF CheckTypeOK
  <2> QED BY <2>2, <2>6 DEF ClaimCandyCheck, CheckTypeOK
<1>3. CASE check' = check /\ StandDown(w)
  <2>1. WorkTyped'
    BY <1>3, RestingTyped, JobReplaced DEF StandDown, CheckTypeOK
  <2> QED BY <1>3, <2>1 DEF ClaimCandyCheck, CheckTypeOK
<1> QED BY <1>2, <1>3 DEF ClaimCandyCheck

\* The acquisition of the shared row keeps the types.
LEMMA AcquireTyped ==
  ASSUME CheckTypeOK, NEW w \in Checkers, AcquireSharedCandyCheck(w)
  PROVE  CheckTypeOK'
<1>1. JobTyped(work[w]) /\ work[w].pc # "idle"
  BY DEF CheckTypeOK, WorkTyped, AcquireSharedCandyCheck
<1>2. CASE Go(w, "waiting") /\ shared' = shared
  <2>1. work' = [work EXCEPT ![w] = [work[w] EXCEPT !.pc = "waiting"]]
    BY <1>2 DEF Go, CheckTypeOK, WorkTyped
  <2>2. JobTyped([work[w] EXCEPT !.pc = "waiting"])
    BY <1>1 DEF JobTyped, CheckJob
  <2>3. WorkTyped'
    BY <2>1, <2>2, JobReplaced DEF CheckTypeOK
  <2> QED BY <1>2, <2>3 DEF AcquireSharedCandyCheck, CheckTypeOK
<1>3. CASE Reuse(w) /\ shared' = shared
  <2>1. WorkTyped'
    BY <1>1, <1>3, ReuseTyped
  <2> QED BY <1>3, <2>1 DEF AcquireSharedCandyCheck, CheckTypeOK
<1>4. CASE TakeLease(w)
  <2>1. work' = [work EXCEPT ![w] = [work[w] EXCEPT !.pc = "queueing", !.owns = TRUE, !.news = FALSE]]
    BY <1>4 DEF TakeLease, CheckTypeOK, WorkTyped
  <2>2. JobTyped([work[w] EXCEPT !.pc = "queueing", !.owns = TRUE, !.news = FALSE])
    BY <1>1 DEF JobTyped, CheckJob
  <2>3. WorkTyped'
    BY <2>1, <2>2, JobReplaced DEF CheckTypeOK
  <2>4. now + CheckLease \in Nat
    BY CheckTimes DEF CheckTypeOK
  <2>5. shared' \in SharedRow
    BY <1>4, <2>4 DEF TakeLease, SharedRow, CheckTypeOK
  <2> QED BY <2>3, <2>5 DEF AcquireSharedCandyCheck, CheckTypeOK
<1> QED BY <1>2, <1>3, <1>4 DEF AcquireSharedCandyCheck

\* The wait for the shared row keeps the types.
LEMMA WaitTyped ==
  ASSUME CheckTypeOK, NEW w \in Checkers, WaitForSharedCandyCheck(w)
  PROVE  CheckTypeOK'
<1>1. JobTyped(work[w]) /\ work[w].pc # "idle"
  BY DEF CheckTypeOK, WorkTyped, WaitForSharedCandyCheck
<1>2. WorkTyped'
  <2>1. CASE Reuse(w)
    BY <1>1, <2>1, ReuseTyped
  <2>2. CASE work' = [work EXCEPT ![w].pc = "acquiring", ![w].news = FALSE, ![w].tries = @ + 1]
    <3>1. work' = [work EXCEPT ![w] = [work[w] EXCEPT !.pc = "acquiring", !.news = FALSE, !.tries = work[w].tries + 1]]
      BY <2>2 DEF CheckTypeOK, WorkTyped
    <3>2. work[w].tries + 1 \in Nat
      BY <1>1 DEF JobTyped, CheckJob
    <3>3. JobTyped([work[w] EXCEPT !.pc = "acquiring", !.news = FALSE, !.tries = work[w].tries + 1])
      BY <1>1, <3>2 DEF JobTyped, CheckJob
    <3> QED BY <3>1, <3>3, JobReplaced DEF CheckTypeOK
  <2>3. CASE Judge(w, "deferred")
    BY <1>1, <2>3, JudgeTyped DEF Grades
  <2> QED BY <2>1, <2>2, <2>3 DEF WaitForSharedCandyCheck
<1> QED BY <1>2 DEF WaitForSharedCandyCheck, CheckTypeOK

\* The answer of the upstream keeps the types.
LEMMA ProbeTyped ==
  ASSUME CheckTypeOK, NEW w \in Checkers, ProbeCandyRequest(w)
  PROVE  CheckTypeOK'
<1>1. JobTyped(work[w]) /\ work[w].pc # "idle"
  BY DEF CheckTypeOK, WorkTyped, ProbeCandyRequest
<1>2. PICK status \in Outcomes :
        /\ work' = [work EXCEPT ![w].pc = "judged",
                      ![w].res = [status |-> status, obs |-> IF status \in Verdicts THEN now ELSE 0, reused |-> FALSE]]
        /\ told' = IF status = "incorrect"
                   THEN [told EXCEPT !.wrong = @ \cup {[seen |-> now, known |-> MaxTime + 1]}] ELSE told
  BY DEF ProbeCandyRequest
<1> DEFINE res == [status |-> status, obs |-> IF status \in Verdicts THEN now ELSE 0, reused |-> FALSE]
<1>3. res \in CheckResult
  BY GradesGiven DEF CheckResult, Grades, CheckTypeOK
<1>4. JobTyped([work[w] EXCEPT !.pc = "judged", !.res = res])
  BY <1>1, <1>3 DEF JobTyped, CheckJob
<1>5. work' = [work EXCEPT ![w] = [work[w] EXCEPT !.pc = "judged", !.res = res]]
  BY <1>2 DEF CheckTypeOK, WorkTyped
<1>6. WorkTyped'
  BY <1>4, <1>5, JobReplaced DEF CheckTypeOK
<1>7. [seen |-> now, known |-> MaxTime + 1] \in [seen : Nat, known : Nat]
  BY CheckTimes DEF CheckTypeOK
<1>8. told' \in [wrong : SUBSET [seen : Nat, known : Nat], cleared : [Routes -> Nat]]
  BY <1>2, <1>7 DEF CheckTypeOK
<1> QED BY <1>6, <1>8 DEF ProbeCandyRequest, CheckTypeOK

\* What finishCandyCheck tests before it writes, and whether it publishes.
ClaimStands(w) ==
  /\ work[w].manual \/ conf.auto
  /\ work[w].key = ConfigKey(work[w].route) /\ ClaimHolds(w)
  /\ Publishes(w) => shared.token = w /\ shared.lease > now
SharesResult(w) == ClaimStands(w) /\ Publishes(w)

\* The job of v after a check of w has ended.
AfterFinish(w, v) ==
  IF v # w THEN [work[v] EXCEPT !.news = @ \/ (SharesResult(w) /\ work[v].pc = "waiting")]
  ELSE IF work[w].owns /\ ~SharesResult(w) THEN [work[w] EXCEPT !.pc = "releasing"] ELSE Resting

\* What finishCandyCheck writes, field by field.
LEMMA FinishShape ==
  ASSUME NEW w \in Checkers, FinishCandyCheck(w)
  PROVE  /\ work[w].pc = "judged"
         /\ check' = IF ClaimStands(w) THEN [check EXCEPT ![work[w].route] = Finished(@, work[w])] ELSE check
         /\ shared' = IF SharesResult(w) THEN Published(work[w]) ELSE shared
         /\ work' = [v \in Checkers |-> AfterFinish(w, v)]
         /\ told' = [wrong |-> {IF SharesResult(w) /\ t.seen = work[w].res.obs THEN [t EXCEPT !.known = now] ELSE t
                                : t \in told.wrong},
                     cleared |-> IF ClaimStands(w) /\ FailedAlone(work[w])
                                 THEN [told.cleared EXCEPT ![work[w].route] = 0] ELSE told.cleared]
         /\ UNCHANGED <<now, conf, left>>
  BY Zenon DEF FinishCandyCheck, ClaimStands, SharesResult, AfterFinish

\* A result is graded before its check ends.
JudgedIsGraded == \A w \in Checkers : work[w].pc = "judged" => work[w].res.status \in Grades

\* The end of a check keeps the types.
LEMMA FinishTyped ==
  ASSUME CheckTypeOK, JudgedIsGraded, NEW w \in Checkers, FinishCandyCheck(w)
  PROVE  CheckTypeOK'
<1> DEFINE r == work[w].route
<1>1. JobTyped(work[w]) /\ r \in Routes /\ work[w].res.status \in Grades /\ work[w] \in CheckJob
  BY FinishShape DEF CheckTypeOK, WorkTyped, JobTyped, JudgedIsGraded
<1>2. check' \in [Routes -> CheckRow]
  <2>1. Finished(check[r], work[w]) \in CheckRow
    BY <1>1, FinishedTyped DEF CheckTypeOK
  <2> QED BY <1>1, <2>1, FinishShape DEF CheckTypeOK
<1>3. shared' \in SharedRow
  <2>1. SeenAt(work[w].res) \in Nat
    BY <1>1 DEF CheckTypeOK, SeenAt, CheckJob, CheckResult
  <2>2. Published(work[w]) \in SharedRow
    BY <1>1, <2>1, CheckTimes DEF Published, SharedRow, CheckTypeOK
  <2> QED BY <2>2, FinishShape DEF CheckTypeOK
<1>4. WorkTyped'
  <2>1. ASSUME NEW v \in Checkers PROVE JobTyped(AfterFinish(w, v))
    <3>1. JobTyped(work[v])
      BY DEF CheckTypeOK, WorkTyped
    <3>2. JobTyped([work[v] EXCEPT !.news = work[v].news \/ (SharesResult(w) /\ work[v].pc = "waiting")])
      BY <3>1 DEF JobTyped, CheckJob
    <3>3. JobTyped([work[w] EXCEPT !.pc = "releasing"])
      BY <1>1 DEF JobTyped, CheckJob
    <3> QED BY <3>2, <3>3, RestingTyped DEF AfterFinish
  <2> QED BY <2>1, FinishShape DEF WorkTyped, JobTyped
<1>5. told' \in [wrong : SUBSET [seen : Nat, known : Nat], cleared : [Routes -> Nat]]
  <2>1. \A t \in told.wrong : t \in [seen : Nat, known : Nat] /\ [t EXCEPT !.known = now] \in [seen : Nat, known : Nat]
    BY DEF CheckTypeOK
  <2>2. [told.cleared EXCEPT ![r] = 0] \in [Routes -> Nat] /\ told.cleared \in [Routes -> Nat]
    BY DEF CheckTypeOK
  <2> DEFINE wrong == {IF SharesResult(w) /\ t.seen = work[w].res.obs THEN [t EXCEPT !.known = now] ELSE t : t \in told.wrong}
             cleared == IF ClaimStands(w) /\ FailedAlone(work[w]) THEN [told.cleared EXCEPT ![r] = 0] ELSE told.cleared
  <2>3. wrong \in SUBSET [seen : Nat, known : Nat]
    BY <2>1
  <2>4. cleared \in [Routes -> Nat]
    BY <2>2
  <2>5. told' = [wrong |-> wrong, cleared |-> cleared]
    BY FinishShape
  <2> HIDE DEF wrong, cleared
  <2> QED BY <2>3, <2>4, <2>5
<1> QED BY <1>2, <1>3, <1>4, <1>5, FinishShape DEF CheckTypeOK

\* Every step of a worker keeps the types.
LEMMA WorkerTyped ==
  ASSUME CheckTypeOK, JudgedIsGraded, NEW w \in Checkers, WorkerStep(w)
  PROVE  CheckTypeOK'
<1>1. JobTyped(work[w])
  BY DEF CheckTypeOK, WorkTyped
<1>2. ASSUME NEW status \in Grades, Judge(w, status), work[w].pc # "idle" PROVE WorkTyped'
  BY <1>2, JudgeTyped
<1>3. CASE Skip(w)
  BY <1>2, <1>3 DEF Skip, CheckTypeOK, Grades
<1>4. CASE WaitTimesOut(w)
  BY <1>2, <1>4 DEF WaitTimesOut, CheckTypeOK, Grades
<1>5. CASE SendRequest(w)
  <2>1. work' = [work EXCEPT ![w] = [work[w] EXCEPT !.pc = "calling"]]
    BY <1>5 DEF SendRequest, Go, CheckTypeOK, WorkTyped
  <2>2. JobTyped([work[w] EXCEPT !.pc = "calling"])
    BY <1>1, <1>5 DEF SendRequest, JobTyped, CheckJob
  <2>3. WorkTyped'
    BY <2>1, <2>2, JobReplaced DEF CheckTypeOK
  <2> QED BY <1>5, <2>3 DEF SendRequest, CheckTypeOK
<1>6. CASE Cancel(w)
  <2>1. WorkTyped'
    BY <1>2, <1>6 DEF Cancel, Grades
  <2>2. left' \in CheckBudget
    BY <1>6 DEF Cancel, CheckTypeOK, CheckBudget
  <2> QED BY <1>6, <2>1, <2>2 DEF Cancel, CheckTypeOK
<1>7. CASE ReleaseSharedCandyCheck(w)
  <2>1. WorkTyped'
    BY <1>7, RestingTyped, JobReplaced DEF ReleaseSharedCandyCheck, StandDown, CheckTypeOK
  <2>2. shared' \in SharedRow
    BY <1>7 DEF ReleaseSharedCandyCheck, CheckTypeOK, SharedRow
  <2> QED BY <1>7, <2>1, <2>2 DEF ReleaseSharedCandyCheck, CheckTypeOK
<1>8. CASE LoseWorker(w)
  <2>1. WorkTyped'
    BY <1>8, RestingTyped, JobReplaced DEF LoseWorker, StandDown, CheckTypeOK
  <2>2. left' \in CheckBudget
    BY <1>8 DEF LoseWorker, CheckTypeOK, CheckBudget
  <2> QED BY <1>8, <2>1, <2>2 DEF LoseWorker, CheckTypeOK
<1> QED
  BY <1>3, <1>4, <1>5, <1>6, <1>7, <1>8, ClaimTyped, AcquireTyped, WaitTyped, ProbeTyped, FinishTyped DEF WorkerStep

\* Every step keeps the types.
LEMMA CheckStepTyped == CheckTypeOK /\ JudgedIsGraded /\ [CheckNext]_checkVars => CheckTypeOK'
<1> SUFFICES ASSUME CheckTypeOK, JudgedIsGraded, [CheckNext]_checkVars PROVE CheckTypeOK'
  OBVIOUS
<1>1. CASE \E w \in Checkers : WorkerStep(w)
  BY <1>1, WorkerTyped
<1>2. ASSUME NEW c \in left.checks, Start(c) PROVE CheckTypeOK'
  <2>1. c \in [worker : Checkers, route : Routes, manual : BOOLEAN, nr : Nat]
    BY <1>2 DEF CheckTypeOK, CheckBudget
  <2> DEFINE job == [Resting EXCEPT !.pc = "picked", !.route = c.route, !.manual = c.manual, !.key = ConfigKey(c.route)]
  <2>2. JobTyped(job)
    BY <2>1, RowPartsTyped DEF JobTyped, CheckJob
  <2>3. WorkTyped'
    BY <1>2, <2>1, <2>2, JobReplaced DEF Start, CheckTypeOK
  <2>4. left' \in CheckBudget
    BY <1>2 DEF Start, CheckTypeOK, CheckBudget
  <2> QED BY <1>2, <2>3, <2>4 DEF Start, CheckTypeOK
<1>3. CASE \E c \in left.checks : RunCandyChecks(c) \/ RunCandyCheckNow(c)
  BY <1>2, <1>3 DEF RunCandyChecks, RunCandyCheckNow
<1>4. ASSUME NEW r \in Routes, ClearCandyCheck(r) PROVE CheckTypeOK'
  <2>1. check[r] \in CheckRow /\ now + Interval \in Nat
    BY CheckTimes DEF CheckTypeOK
  <2>2. [check[r] EXCEPT !.lease = 0, !.token = Noone, !.next = now + Interval, !.streak = 0, !.back = 0, !.cool = 0,
                         !.status = "manual"] \in CheckRow
    <3>1. 0 \in Nat /\ 0 \in 0 .. 3 /\ "manual" \in Grades \cup {"pending", "manual"}
      OBVIOUS
    <3> QED BY <2>1, <3>1, RowRewritten, Zenon
  <2>3. check' = [check EXCEPT ![r] = [check[r] EXCEPT !.lease = 0, !.token = Noone, !.next = now + Interval,
                                                      !.streak = 0, !.back = 0, !.cool = 0, !.status = "manual"]]
    BY <1>4 DEF ClearCandyCheck, CheckTypeOK
  <2>4. check' \in [Routes -> CheckRow]
    BY <2>2, <2>3 DEF CheckTypeOK
  <2>5. told' \in [wrong : SUBSET [seen : Nat, known : Nat], cleared : [Routes -> Nat]]
    BY <1>4 DEF ClearCandyCheck, CheckTypeOK
  <2>6. left' \in CheckBudget
    BY <1>4 DEF ClearCandyCheck, CheckTypeOK, CheckBudget
  <2> QED BY <1>4, <2>4, <2>5, <2>6 DEF ClearCandyCheck, CheckTypeOK, WorkTyped
<1>5. CASE SaveSettings
  <2>1. PICK what \in left.saves :
          /\ left' = [left EXCEPT !.saves = @ \ {what}]
          /\ conf' = IF what = "group" THEN [conf EXCEPT !.auto = ~@] ELSE [conf EXCEPT !.version[what] = @ + 1]
          /\ told' = [told EXCEPT !.cleared = [r \in Routes |-> IF what \in {r, "group"} THEN 0 ELSE @[r]]]
    BY <1>5 DEF SaveSettings
  <2>2. left' \in CheckBudget
    BY <2>1 DEF CheckTypeOK, CheckBudget
  <2>3. conf' \in [version : [Routes -> Nat], auto : BOOLEAN]
    <3>1. [conf.version EXCEPT ![what] = conf.version[what] + 1] \in [Routes -> Nat]
      <4>1. conf.version \in [Routes -> Nat]
        BY DEF CheckTypeOK
      <4>2. \A r \in Routes : conf.version[r] + 1 \in Nat
        BY <4>1
      <4> QED BY <4>1, <4>2
    <3>2. conf' = IF what = "group" THEN [conf EXCEPT !.auto = ~conf.auto]
                  ELSE [conf EXCEPT !.version = [conf.version EXCEPT ![what] = conf.version[what] + 1]]
      BY <2>1 DEF CheckTypeOK
    <3> QED BY <3>1, <3>2 DEF CheckTypeOK
  <2>4. told' \in [wrong : SUBSET [seen : Nat, known : Nat], cleared : [Routes -> Nat]]
    BY <2>1 DEF CheckTypeOK
  <2> QED BY <1>5, <2>2, <2>3, <2>4 DEF SaveSettings, CheckTypeOK, WorkTyped
<1>6. CASE CheckTick
  BY <1>6 DEF CheckTick, CheckTypeOK, WorkTyped
<1>7. CASE UNCHANGED checkVars
  BY <1>7 DEF checkVars, CheckTypeOK, WorkTyped
<1> QED BY <1>1, <1>3, <1>4, <1>5, <1>6, <1>7 DEF CheckNext

-----------------------------------------------------------------------------
(* Candy checks: one request at a time. *)

\* What the times and the routes of the jobs are made of.
LEMMA TimesTyped ==
  ASSUME CheckTypeOK
  PROVE  /\ now \in Nat /\ now > 0 /\ shared.lease \in Nat /\ shared.obs \in Nat
         /\ \A w \in Checkers : /\ work[w].dead \in Nat /\ work[w].cool \in Nat /\ work[w].res.obs \in Nat
                                /\ work[w].pc # "idle" => work[w].route \in Routes
         /\ \A r \in Routes : check[r].next \in Nat /\ check[r].cool \in Nat /\ told.cleared[r] \in Nat
         /\ \A t \in told.wrong : t.seen \in Nat /\ t.known \in Nat
  BY DEF CheckTypeOK, SharedRow, WorkTyped, JobTyped, CheckJob, CheckResult, CheckRow

\* The probe of v ends in time, and holds the source's lease while it sends.
ProbeCovered(v) ==
  /\ work[v].pc \in {"acquiring", "waiting", "queueing", "calling"} =>
       now <= work[v].dead /\ work[v].dead <= now + Timeout
  /\ work[v].pc \in {"queueing", "calling"} => shared.token = v /\ shared.lease > work[v].dead

\* Nobody takes the source's lease while somebody sends under it.
LEMMA WorkerCovered ==
  ASSUME CheckTypeOK, \A v \in Checkers : ProbeCovered(v), NEW w \in Checkers, WorkerStep(w), NEW v \in Checkers
  PROVE  ProbeCovered(v)'
<1> USE TimesTyped, CheckTimes
<1>0. ProbeCovered(v) /\ ProbeCovered(w)
  OBVIOUS
<1>d. DOMAIN work = Checkers
  BY DEF CheckTypeOK, WorkTyped
<1>1. CASE ClaimCandyCheck(w)
  <2>1. UNCHANGED <<now, shared>>
    BY <1>1 DEF ClaimCandyCheck
  <2>2. CASE v # w
    BY <1>0, <1>1, <1>d, <2>1, <2>2 DEF ClaimCandyCheck, StandDown, ProbeCovered
  <2>3. CASE v = w /\ work'[w].pc = "acquiring" /\ work'[w].dead = now + Timeout
    BY <2>1, <2>3 DEF ProbeCovered
  <2>4. CASE v = w /\ work'[w].pc = "idle"
    BY <2>4 DEF ProbeCovered
  <2>5. \/ work'[w].pc = "acquiring" /\ work'[w].dead = now + Timeout
        \/ work'[w].pc = "idle"
    <3>1. work[w] \in CheckJob
      BY DEF CheckTypeOK, WorkTyped
    <3>2. ASSUME NEW cool, NEW streak,
                 work' = [work EXCEPT ![w] = [@ EXCEPT !.pc = "acquiring", !.dead = now + Timeout, !.cool = cool,
                                                       !.streak = streak]]
          PROVE  work'[w].pc = "acquiring" /\ work'[w].dead = now + Timeout
      BY <1>d, <3>1, <3>2 DEF CheckJob
    <3>3. StandDown(w) => work'[w].pc = "idle"
      BY <1>d DEF StandDown, Resting
    <3> QED BY <1>1, <3>2, <3>3 DEF ClaimCandyCheck
  <2> QED BY <2>2, <2>3, <2>4, <2>5
<1>2. ASSUME NEW status, Judge(w, status), UNCHANGED <<now, shared>> PROVE ProbeCovered(v)'
  <2>1. v # w => work'[v] = work[v]
    BY <1>2, <1>d DEF Judge
  <2>2. work'[w].pc = "judged"
    BY <1>2, <1>d DEF Judge, CheckTypeOK, WorkTyped, CheckJob
  <2> QED BY <1>0, <1>2, <2>1, <2>2 DEF ProbeCovered
<1>3. CASE Skip(w) \/ WaitTimesOut(w) \/ Cancel(w)
  BY <1>2, <1>3 DEF Skip, WaitTimesOut, Cancel
<1>4. ASSUME Reuse(w), UNCHANGED <<now, shared>>, work[w].pc # "idle" PROVE ProbeCovered(v)'
  <2>1. work'[w].pc = "judged" /\ (v # w => work'[v] = work[v])
    BY <1>4, <1>d DEF Reuse, CheckTypeOK, WorkTyped, CheckJob
  <2> QED BY <1>0, <1>4, <2>1 DEF ProbeCovered
<1>5. CASE AcquireSharedCandyCheck(w)
  <2>1. CASE Go(w, "waiting") /\ shared' = shared
    <3>1. work'[w].pc = "waiting" /\ work'[w].dead = work[w].dead /\ (v # w => work'[v] = work[v])
      BY <1>d, <2>1 DEF Go, CheckTypeOK, WorkTyped, CheckJob
    <3> QED BY <1>0, <1>5, <2>1, <3>1 DEF AcquireSharedCandyCheck, ProbeCovered
  <2>2. CASE Reuse(w) /\ shared' = shared
    BY <1>4, <1>5, <2>2 DEF AcquireSharedCandyCheck
  <2>3. CASE TakeLease(w) /\ shared.lease <= now
    <3>1. work'[w].pc = "queueing" /\ work'[w].dead = work[w].dead /\ (v # w => work'[v] = work[v])
      BY <1>d, <2>3 DEF TakeLease, CheckTypeOK, WorkTyped, CheckJob
    <3>2. shared'.token = w /\ shared'.lease = now + CheckLease
      BY <2>3 DEF TakeLease, CheckTypeOK, SharedRow
    <3>3. work[v].pc \notin {"queueing", "calling"}
      BY <1>0, <2>3 DEF ProbeCovered
    <3> QED BY <1>0, <1>5, <3>1, <3>2, <3>3 DEF AcquireSharedCandyCheck, ProbeCovered
  <2> QED BY <1>5, <2>1, <2>2, <2>3 DEF AcquireSharedCandyCheck
<1>6. CASE WaitForSharedCandyCheck(w)
  <2>1. CASE Reuse(w)
    BY <1>4, <1>6, <2>1 DEF WaitForSharedCandyCheck
  <2>2. CASE work' = [work EXCEPT ![w].pc = "acquiring", ![w].news = FALSE, ![w].tries = @ + 1]
    <3>1. work'[w].pc = "acquiring" /\ work'[w].dead = work[w].dead /\ (v # w => work'[v] = work[v])
      BY <1>d, <2>2 DEF CheckTypeOK, WorkTyped, CheckJob
    <3> QED BY <1>0, <1>6, <3>1 DEF WaitForSharedCandyCheck, ProbeCovered
  <2>3. CASE Judge(w, "deferred")
    BY <1>2, <1>6, <2>3 DEF WaitForSharedCandyCheck
  <2> QED BY <1>6, <2>1, <2>2, <2>3 DEF WaitForSharedCandyCheck
<1>7. CASE SendRequest(w)
  <2>1. work'[w].pc = "calling" /\ work'[w].dead = work[w].dead /\ (v # w => work'[v] = work[v])
    BY <1>7, <1>d DEF SendRequest, Go, CheckTypeOK, WorkTyped, CheckJob
  <2> QED BY <1>0, <1>7, <2>1 DEF SendRequest, ProbeCovered
<1>8. CASE ProbeCandyRequest(w)
  <2>1. work'[w].pc = "judged" /\ (v # w => work'[v] = work[v])
    BY <1>8, <1>d DEF ProbeCandyRequest, CheckTypeOK, WorkTyped, CheckJob
  <2> QED BY <1>0, <1>8, <2>1 DEF ProbeCandyRequest, ProbeCovered
<1>9. CASE FinishCandyCheck(w)
  <2>1. now' = now /\ work' = [u \in Checkers |-> AfterFinish(w, u)] /\ work[w].pc = "judged"
    BY <1>9, FinishShape
  <2>2. CASE v = w
    <3>1. work'[w].pc \in {"idle", "releasing"}
      BY <2>1 DEF AfterFinish, Resting, CheckTypeOK, WorkTyped, CheckJob
    <3> QED BY <2>2, <3>1 DEF ProbeCovered
  <2>3. CASE v # w
    <3>1. work'[v].pc = work[v].pc /\ work'[v].dead = work[v].dead
      BY <2>1, <2>3 DEF AfterFinish, CheckTypeOK, WorkTyped, CheckJob
    <3>2. CASE shared' = shared
      BY <1>0, <2>1, <3>1, <3>2 DEF ProbeCovered
    <3>3. CASE SharesResult(w)
      <4>1. shared.token = w
        BY <3>3 DEF SharesResult, ClaimStands
      <4> QED BY <1>0, <2>1, <2>3, <3>1, <4>1 DEF ProbeCovered
    <3> QED BY <1>9, <3>2, <3>3, FinishShape
  <2> QED BY <2>2, <2>3
<1>10. CASE ReleaseSharedCandyCheck(w)
  <2>1. work'[w].pc = "idle" /\ (v # w => work'[v] = work[v]) /\ now' = now
    BY <1>10, <1>d DEF ReleaseSharedCandyCheck, StandDown, Resting
  <2> QED BY <1>0, <1>10, <2>1 DEF ReleaseSharedCandyCheck, ProbeCovered
<1>11. CASE LoseWorker(w)
  <2>1. work'[w].pc = "idle" /\ (v # w => work'[v] = work[v])
    BY <1>11, <1>d DEF LoseWorker, StandDown, Resting
  <2> QED BY <1>0, <1>11, <2>1 DEF LoseWorker, ProbeCovered
<1> QED
  BY <1>1, <1>3, <1>5, <1>6, <1>7, <1>8, <1>9, <1>10, <1>11 DEF WorkerStep

\* Every step leaves every probe covered.
LEMMA CoveredStep ==
  CheckTypeOK /\ (\A v \in Checkers : ProbeCovered(v)) /\ [CheckNext]_checkVars => \A v \in Checkers : ProbeCovered(v)'
<1> SUFFICES ASSUME CheckTypeOK, \A v \in Checkers : ProbeCovered(v), [CheckNext]_checkVars, NEW v \in Checkers
             PROVE  ProbeCovered(v)'
  OBVIOUS
<1> USE TimesTyped, CheckTimes
<1>1. CASE \E w \in Checkers : WorkerStep(w)
  BY <1>1, WorkerCovered
<1>2. ASSUME NEW c \in left.checks, Start(c) PROVE ProbeCovered(v)'
  <2>1. v # c.worker => work'[v] = work[v]
    BY <1>2 DEF Start, CheckTypeOK, WorkTyped
  <2>2. v = c.worker => work'[v].pc = "picked"
    BY <1>2 DEF Start, CheckTypeOK, WorkTyped, Resting
  <2> QED BY <1>2, <2>1, <2>2 DEF Start, ProbeCovered
<1>3. CASE \E c \in left.checks : RunCandyChecks(c) \/ RunCandyCheckNow(c)
  BY <1>2, <1>3 DEF RunCandyChecks, RunCandyCheckNow
<1>4. CASE UNCHANGED <<now, work, shared>>
  BY <1>4 DEF ProbeCovered
<1>5. CASE CheckTick
  BY <1>5 DEF CheckTick, ProbeCovered
<1> QED BY <1>1, <1>3, <1>4, <1>5 DEF CheckNext, ClearCandyCheck, SaveSettings, checkVars

-----------------------------------------------------------------------------
(* Candy checks: what a step does to one job, to the history and to what is  *)
(* shared.                                                                   *)

\* The jobs of the other workers go on, but for news.
OthersGoOn(w) ==
  \A v \in Checkers \ {w} : /\ work'[v].pc = work[v].pc /\ work'[v].route = work[v].route
                            /\ work'[v].manual = work[v].manual /\ work'[v].cool = work[v].cool
                            /\ work'[v].res = work[v].res
                            /\ work'[v].news => work[v].news \/ (SharesResult(w) /\ FinishCandyCheck(w))
                            /\ work'[v].news /\ work[v].pc = "picked" => work[v].news

\* A step that replaces one job leaves the others as they are.
LEMMA JobEdited ==
  ASSUME CheckTypeOK, NEW w \in Checkers, NEW job, work' = [work EXCEPT ![w] = job]
  PROVE  OthersGoOn(w) /\ work'[w] = job
  BY DEF CheckTypeOK, WorkTyped, OthersGoOn

\* The job after a judgement, and after the reuse of the shared observation.
LEMMA JudgeShape ==
  ASSUME CheckTypeOK, NEW w \in Checkers, NEW status \in Grades, Judge(w, status), work[w].pc # "idle"
  PROVE  /\ OthersGoOn(w) /\ work'[w].pc = "judged" /\ work'[w].route = work[w].route
         /\ work'[w].manual = work[w].manual /\ work'[w].cool = work[w].cool /\ work'[w].news = work[w].news
         /\ work'[w].res = [work[w].res EXCEPT !.status = status]
         /\ work'[w].res.status = status /\ work'[w].res.obs = work[w].res.obs
         /\ work'[w].res.reused = work[w].res.reused
<1>1. work' = [work EXCEPT ![w] = [work[w] EXCEPT !.pc = "judged", !.res.status = status]]
  BY JudgeTyped
<1>2. work[w] \in CheckJob
  BY DEF CheckTypeOK, WorkTyped, JobTyped
<1>3. OthersGoOn(w) /\ work'[w] = [work[w] EXCEPT !.pc = "judged", !.res.status = status]
  BY <1>1, JobEdited
<1> QED BY <1>2, <1>3 DEF CheckJob, CheckResult

\* The job after the reuse of the shared observation.
LEMMA ReuseShape ==
  ASSUME CheckTypeOK, NEW w \in Checkers, Reuse(w), work[w].pc # "idle"
  PROVE  /\ OthersGoOn(w) /\ work'[w].pc = "judged" /\ work'[w].route = work[w].route
         /\ work'[w].manual = work[w].manual /\ work'[w].cool = work[w].cool /\ work'[w].news = FALSE
         /\ work'[w].res.status = shared.status /\ work'[w].res.obs = shared.obs /\ work'[w].res.reused
<1> DEFINE res == [status |-> shared.status, obs |-> shared.obs, reused |-> TRUE]
<1>1. work' = [work EXCEPT ![w] = [work[w] EXCEPT !.pc = "judged", !.news = FALSE, !.res = res]]
  BY ReuseTyped
<1>2. work[w] \in CheckJob
  BY DEF CheckTypeOK, WorkTyped, JobTyped
<1>3. OthersGoOn(w) /\ work'[w] = [work[w] EXCEPT !.pc = "judged", !.news = FALSE, !.res = res]
  BY <1>1, JobEdited
<1>4. work'[w].res = res
  BY <1>2, <1>3 DEF CheckJob
<1> QED BY <1>2, <1>3, <1>4 DEF CheckJob

\* The job of a worker on its way to a result.
Moved(w, pc) ==
  /\ OthersGoOn(w)
  /\ work'[w].pc = pc /\ work'[w].route = work[w].route /\ work'[w].manual = work[w].manual
  /\ work'[w].cool = work[w].cool /\ work'[w].res = work[w].res /\ (work'[w].news => work[w].news)

\* Which steps only move a job.
LEMMA MovedShape ==
  ASSUME CheckTypeOK, NEW w \in Checkers, work[w].pc # "idle"
  PROVE  /\ \A pc \in {"waiting", "calling"} : Go(w, pc) => Moved(w, pc)
         /\ TakeLease(w) => Moved(w, "queueing")
         /\ work' = [work EXCEPT ![w].pc = "acquiring", ![w].news = FALSE, ![w].tries = @ + 1] => Moved(w, "acquiring")
<1>1. work[w] \in CheckJob /\ DOMAIN work = Checkers
  BY DEF CheckTypeOK, WorkTyped, JobTyped
<1>2. ASSUME NEW pc \in {"waiting", "calling"}, Go(w, pc) PROVE Moved(w, pc)
  BY <1>1, <1>2 DEF Go, Moved, OthersGoOn, CheckJob
<1>3. ASSUME TakeLease(w) PROVE Moved(w, "queueing")
  BY <1>1, <1>3 DEF TakeLease, Moved, OthersGoOn, CheckJob
<1>4. ASSUME work' = [work EXCEPT ![w].pc = "acquiring", ![w].news = FALSE, ![w].tries = @ + 1]
      PROVE  Moved(w, "acquiring")
  BY <1>1, <1>4 DEF Moved, OthersGoOn, CheckJob
<1> QED BY <1>2, <1>3, <1>4

\* A claim begins with the row's cooldown, and only when the check is due or asked for.
LEMMA ClaimShape ==
  ASSUME CheckTypeOK, NEW w \in Checkers, ClaimCandyCheck(w)
  PROVE  /\ OthersGoOn(w) /\ work[w].pc = "picked"
         /\ \/ StandDown(w) /\ work'[w].pc = "idle" /\ check' = check
            \/ /\ work'[w].pc = "acquiring" /\ work'[w].route = work[w].route /\ work'[w].manual = work[w].manual
               /\ work'[w].cool = check'[work[w].route].cool /\ work'[w].res = work[w].res
               /\ work'[w].news = work[w].news
               /\ check' = [check EXCEPT ![work[w].route] = ClaimedCheck(w, work[w].route)]
               /\ work[w].manual \/ (conf.auto /\ ~(Active(work[w].route) /\ check[work[w].route].next > now))
<1> DEFINE r == work[w].route
<1>1. work[w] \in CheckJob
  BY DEF CheckTypeOK, WorkTyped, JobTyped
<1>2. CASE check' = check /\ StandDown(w)
  <2>1. OthersGoOn(w) /\ work'[w] = Resting
    BY <1>2, JobEdited DEF StandDown
  <2> QED BY <1>2, <2>1 DEF Resting, ClaimCandyCheck
<1>3. ASSUME NEW cool, NEW streak, NEW dead,
             work' = [work EXCEPT ![w] = [@ EXCEPT !.pc = "acquiring", !.dead = dead, !.cool = cool, !.streak = streak]]
      PROVE  /\ OthersGoOn(w)
             /\ work'[w].pc = "acquiring" /\ work'[w].route = work[w].route /\ work'[w].manual = work[w].manual
             /\ work'[w].cool = cool /\ work'[w].res = work[w].res /\ work'[w].news = work[w].news
  <2>1. OthersGoOn(w) /\ work'[w] = [work[w] EXCEPT !.pc = "acquiring", !.dead = dead, !.cool = cool, !.streak = streak]
    BY <1>3, JobEdited
  <2> QED BY <1>1, <2>1 DEF CheckJob
<1>4. CASE /\ check' = [check EXCEPT ![r] = ClaimedCheck(w, r)]
           /\ work' = [work EXCEPT ![w] = [@ EXCEPT !.pc = "acquiring", !.dead = now + Timeout,
                                                    !.cool = check'[r].cool, !.streak = check'[r].streak]]
           /\ work[w].manual \/ (conf.auto /\ ~(Active(r) /\ check[r].next > now))
  <2>1. /\ OthersGoOn(w)
        /\ work'[w].pc = "acquiring" /\ work'[w].route = work[w].route /\ work'[w].manual = work[w].manual
        /\ work'[w].cool = check'[r].cool /\ work'[w].res = work[w].res /\ work'[w].news = work[w].news
    BY <1>3, <1>4
  <2> QED BY <1>4, <2>1 DEF ClaimCandyCheck
<1> QED BY <1>2, <1>4 DEF ClaimCandyCheck

\* The jobs after a check has ended.
LEMMA FinishJobs ==
  ASSUME CheckTypeOK, NEW w \in Checkers, FinishCandyCheck(w)
  PROVE  OthersGoOn(w) /\ work'[w].pc \in {"idle", "releasing"}
<1>1. work' = [v \in Checkers |-> AfterFinish(w, v)]
  BY FinishShape
<1>2. \A v \in Checkers : work[v] \in CheckJob
  BY DEF CheckTypeOK, WorkTyped, JobTyped
<1>3. work'[w].pc \in {"idle", "releasing"}
  BY <1>1, <1>2 DEF AfterFinish, Resting, CheckJob
<1> QED BY <1>1, <1>2, <1>3 DEF OthersGoOn, AfterFinish, CheckJob

\* The release of the lease and the loss of a worker change no row of a route.
LEMMA ReleaseOrLoss ==
  ASSUME CheckTypeOK, NEW w \in Checkers, ReleaseSharedCandyCheck(w) \/ LoseWorker(w)
  PROVE  OthersGoOn(w) /\ work'[w].pc = "idle" /\ UNCHANGED <<now, conf, check, told>>
         /\ shared'.status = shared.status /\ shared'.obs = shared.obs
<1>1. StandDown(w)
  BY DEF ReleaseSharedCandyCheck, LoseWorker
<1>2. OthersGoOn(w) /\ work'[w] = Resting
  BY <1>1, JobEdited DEF StandDown
<1>3. shared'.status = shared.status /\ shared'.obs = shared.obs
  BY DEF ReleaseSharedCandyCheck, LoseWorker, CheckTypeOK, SharedRow
<1>4. UNCHANGED <<now, conf, check, told>>
  BY DEF ReleaseSharedCandyCheck, LoseWorker
<1> QED BY <1>2, <1>3, <1>4 DEF Resting

\* A check begins without a result.
LEMMA StartShape ==
  ASSUME CheckTypeOK, NEW c \in left.checks, Start(c)
  PROVE  /\ c.worker \in Checkers /\ OthersGoOn(c.worker)
         /\ work'[c.worker].pc = "picked" /\ work'[c.worker].res = NoResult /\ ~work'[c.worker].news
<1>1. c.worker \in Checkers
  BY DEF CheckTypeOK, CheckBudget
<1> DEFINE job == [Resting EXCEPT !.pc = "picked", !.route = c.route, !.manual = c.manual, !.key = ConfigKey(c.route)]
<1>2. OthersGoOn(c.worker) /\ work'[c.worker] = job
  BY <1>1, JobEdited DEF Start
<1>3. job.pc = "picked" /\ job.res = NoResult /\ ~job.news
  BY DEF Resting
<1> QED BY <1>1, <1>2, <1>3

\* Before it is judged a check has no result, and news comes only to one that waits.
ResultInOrder(v) ==
  /\ work[v].pc \in {"picked", "acquiring", "waiting", "queueing", "calling"} => work[v].res = NoResult
  /\ work[v].pc = "picked" => ~work[v].news
  /\ work[v].pc = "judged" => work[v].res.status \in Grades

\* A step of a worker leaves the jobs of the others alone.
LEMMA JobsGoOn ==
  ASSUME CheckTypeOK, NEW w \in Checkers, WorkerStep(w)
  PROVE  OthersGoOn(w)
<1>1. ASSUME NEW status \in Grades, Judge(w, status), work[w].pc # "idle" PROVE OthersGoOn(w)
  BY <1>1, JudgeShape
<1>2. CASE Skip(w) \/ WaitTimesOut(w) \/ Cancel(w)
  BY <1>1, <1>2 DEF Skip, WaitTimesOut, Cancel, Grades
<1>3. CASE ClaimCandyCheck(w)
  BY <1>3, ClaimShape
<1>4. CASE AcquireSharedCandyCheck(w)
  BY <1>4, MovedShape, ReuseShape DEF AcquireSharedCandyCheck, Moved
<1>5. CASE WaitForSharedCandyCheck(w)
  BY <1>1, <1>5, MovedShape, ReuseShape DEF WaitForSharedCandyCheck, Moved, Grades
<1>6. CASE SendRequest(w)
  BY <1>6, MovedShape DEF SendRequest, Moved
<1>7. CASE ProbeCandyRequest(w)
  BY <1>7 DEF ProbeCandyRequest, CheckTypeOK, WorkTyped, CheckJob, OthersGoOn
<1>8. CASE FinishCandyCheck(w)
  BY <1>8, FinishJobs
<1>9. CASE ReleaseSharedCandyCheck(w) \/ LoseWorker(w)
  BY <1>9, ReleaseOrLoss
<1> QED BY <1>2, <1>3, <1>4, <1>5, <1>6, <1>7, <1>8, <1>9 DEF WorkerStep

\* Every step keeps results and news in order.
LEMMA ResultStep ==
  ASSUME CheckTypeOK, \A v \in Checkers : ResultInOrder(v), [CheckNext]_checkVars
  PROVE  \A v \in Checkers : ResultInOrder(v)'
<1>0. ASSUME NEW w \in Checkers, OthersGoOn(w), ResultInOrder(w)' PROVE \A v \in Checkers : ResultInOrder(v)'
  BY <1>0 DEF OthersGoOn, ResultInOrder
<1>1. ASSUME NEW w \in Checkers, WorkerStep(w) PROVE ResultInOrder(w)' /\ OthersGoOn(w)
  <2> USE DEF ResultInOrder
  <2>0. ResultInOrder(w)
    OBVIOUS
  <2>1. ASSUME NEW status \in Grades, Judge(w, status), work[w].pc # "idle" PROVE ResultInOrder(w)' /\ OthersGoOn(w)
    BY <2>1, JudgeShape
  <2>2. CASE Skip(w) \/ WaitTimesOut(w) \/ Cancel(w)
    BY <2>1, <2>2 DEF Skip, WaitTimesOut, Cancel, Grades
  <2>3. ASSUME Reuse(w), Usable, work[w].pc # "idle" PROVE ResultInOrder(w)' /\ OthersGoOn(w)
    BY <2>3, ReuseShape DEF Usable, Verdicts, Grades
  <2>4. ASSUME NEW pc \in {"acquiring", "waiting", "queueing", "calling"}, Moved(w, pc),
               work[w].pc \in {"acquiring", "waiting", "queueing"}
        PROVE  ResultInOrder(w)' /\ OthersGoOn(w)
    BY <2>0, <2>4 DEF Moved
  <2>5. CASE ClaimCandyCheck(w)
    BY <2>0, <2>5, ClaimShape
  <2>6. CASE AcquireSharedCandyCheck(w)
    BY <2>3, <2>4, <2>6, MovedShape DEF AcquireSharedCandyCheck
  <2>7. CASE WaitForSharedCandyCheck(w)
    BY <2>1, <2>3, <2>4, <2>7, MovedShape DEF WaitForSharedCandyCheck, Grades
  <2>8. CASE SendRequest(w)
    BY <2>4, <2>8, MovedShape DEF SendRequest
  <2>9. CASE ProbeCandyRequest(w)
    <3>0. PICK status \in Outcomes :
            work' = [work EXCEPT ![w].pc = "judged",
                       ![w].res = [status |-> status, obs |-> IF status \in Verdicts THEN now ELSE 0, reused |-> FALSE]]
      BY <2>9 DEF ProbeCandyRequest
    <3> DEFINE res == [status |-> status, obs |-> IF status \in Verdicts THEN now ELSE 0, reused |-> FALSE]
    <3>1. work' = [work EXCEPT ![w].pc = "judged", ![w].res = res] /\ res.status \in Outcomes
      BY <3>0
    <3>2. work'[w].pc = "judged" /\ work'[w].res = res /\ OthersGoOn(w)
      BY <3>1 DEF CheckTypeOK, WorkTyped, CheckJob, OthersGoOn
    <3> QED BY <3>1, <3>2, GradesGiven DEF Grades
  <2>10. CASE FinishCandyCheck(w)
    BY <2>10, FinishJobs
  <2>11. CASE ReleaseSharedCandyCheck(w) \/ LoseWorker(w)
    BY <2>11, ReleaseOrLoss
  <2> QED
    BY <1>1, <2>2, <2>5, <2>6, <2>7, <2>8, <2>9, <2>10, <2>11 DEF WorkerStep
<1>2. CASE \E w \in Checkers : WorkerStep(w)
  BY <1>0, <1>1, <1>2
<1>3. ASSUME NEW c \in left.checks, Start(c) PROVE \A v \in Checkers : ResultInOrder(v)'
  BY <1>0, <1>3, StartShape DEF ResultInOrder
<1>4. CASE \E c \in left.checks : RunCandyChecks(c) \/ RunCandyCheckNow(c)
  BY <1>3, <1>4 DEF RunCandyChecks, RunCandyCheckNow
<1>5. CASE UNCHANGED work
  BY <1>5 DEF ResultInOrder
<1> QED BY <1>2, <1>4, <1>5 DEF CheckNext, ClearCandyCheck, SaveSettings, CheckTick, checkVars

-----------------------------------------------------------------------------
(* Candy checks: what a route is blocked for. *)

\* No wrong answer is forgotten; one may become known now.
WrongKept == \A t \in told.wrong : \E u \in told'.wrong : u.seen = t.seen /\ (u.known = t.known \/ u.known = now)
Uncleared(r) == told'.cleared[r] \in {told.cleared[r], 0}
SharedKept == shared'.status = shared.status /\ shared'.obs = shared.obs

\* No step forgets a wrong answer, and only an operator clears a route.
LEMMA ToldStep ==
  ASSUME CheckTypeOK, [CheckNext]_checkVars
  PROVE  WrongKept /\ \A r \in Routes : Uncleared(r) \/ ClearCandyCheck(r)
<1>1. ASSUME UNCHANGED told PROVE WrongKept /\ \A r \in Routes : Uncleared(r)
  BY <1>1 DEF WrongKept, Uncleared
<1>2. ASSUME NEW w \in Checkers, ProbeCandyRequest(w) PROVE WrongKept /\ \A r \in Routes : Uncleared(r)
  <2>1. told.wrong \subseteq told'.wrong /\ told'.cleared = told.cleared
    BY <1>2 DEF ProbeCandyRequest, CheckTypeOK
  <2> QED BY <2>1 DEF WrongKept, Uncleared
<1>3. ASSUME NEW w \in Checkers, FinishCandyCheck(w) PROVE WrongKept /\ \A r \in Routes : Uncleared(r)
  <2> DEFINE then(t) == IF SharesResult(w) /\ t.seen = work[w].res.obs THEN [t EXCEPT !.known = now] ELSE t
  <2>1. /\ told'.wrong = {then(t) : t \in told.wrong}
        /\ told'.cleared = IF ClaimStands(w) /\ FailedAlone(work[w])
                           THEN [told.cleared EXCEPT ![work[w].route] = 0] ELSE told.cleared
    BY <1>3, FinishShape
  <2>2. \A t \in told.wrong : then(t) \in told'.wrong
    BY <2>1
  <2>3. \A t \in told.wrong : then(t).seen = t.seen /\ (then(t).known = t.known \/ then(t).known = now)
    BY DEF CheckTypeOK
  <2>4. WrongKept
    BY <2>2, <2>3 DEF WrongKept
  <2>5. \A r \in Routes : Uncleared(r)
    BY <2>1 DEF Uncleared, CheckTypeOK
  <2> QED BY <2>4, <2>5
<1>4. ASSUME NEW q \in Routes, ClearCandyCheck(q)
      PROVE  WrongKept /\ \A r \in Routes : Uncleared(r) \/ ClearCandyCheck(r)
  <2>1. told'.wrong = told.wrong /\ \A r \in Routes \ {q} : told'.cleared[r] = told.cleared[r]
    BY <1>4 DEF ClearCandyCheck, CheckTypeOK
  <2> QED BY <1>4, <2>1 DEF WrongKept, Uncleared
<1>5. ASSUME SaveSettings PROVE WrongKept /\ \A r \in Routes : Uncleared(r)
  <2>1. told'.wrong = told.wrong /\ \A r \in Routes : told'.cleared[r] \in {told.cleared[r], 0}
    BY <1>5 DEF SaveSettings, CheckTypeOK
  <2> QED BY <2>1 DEF WrongKept, Uncleared
<1>6. \/ UNCHANGED told
      \/ \E w \in Checkers : ProbeCandyRequest(w) \/ FinishCandyCheck(w)
      \/ \E q \in Routes : ClearCandyCheck(q)
      \/ SaveSettings
  BY DEF CheckNext, checkVars, WorkerStep, ClaimCandyCheck, Skip, AcquireSharedCandyCheck, WaitForSharedCandyCheck,
         WaitTimesOut, SendRequest, Cancel, ReleaseSharedCandyCheck, LoseWorker, RunCandyChecks, RunCandyCheckNow,
         Start, CheckTick
<1> QED BY <1>1, <1>2, <1>3, <1>4, <1>5, <1>6

\* Only the end of a check publishes.
LEMMA SharedStep ==
  ASSUME CheckTypeOK, [CheckNext]_checkVars
  PROVE  SharedKept \/ \E w \in Checkers : FinishCandyCheck(w) /\ SharesResult(w)
<1>1. ASSUME NEW w \in Checkers, FinishCandyCheck(w), ~SharesResult(w) PROVE SharedKept
  BY <1>1, FinishShape DEF SharedKept
<1>2. ASSUME NEW w \in Checkers, AcquireSharedCandyCheck(w) PROVE SharedKept
  BY <1>2 DEF AcquireSharedCandyCheck, TakeLease, SharedKept, CheckTypeOK, SharedRow
<1>3. ASSUME NEW w \in Checkers, ReleaseSharedCandyCheck(w) \/ LoseWorker(w) PROVE SharedKept
  BY <1>3, ReleaseOrLoss DEF SharedKept
<1>4. \/ UNCHANGED shared
      \/ \E w \in Checkers : FinishCandyCheck(w) \/ AcquireSharedCandyCheck(w) \/ ReleaseSharedCandyCheck(w)
  BY DEF CheckNext, checkVars, WorkerStep, ClaimCandyCheck, Skip, WaitForSharedCandyCheck, WaitTimesOut, SendRequest,
         ProbeCandyRequest, Cancel, LoseWorker, RunCandyChecks, RunCandyCheckNow, Start, CheckTick, ClearCandyCheck,
         SaveSettings
<1> QED BY <1>1, <1>2, <1>3, <1>4 DEF SharedKept

\* What was deserved before a step is deserved after it, unless the route is cleared.
LEMMA EarnedStays ==
  ASSUME CheckTypeOK, TimesPast, WrongKept, NEW r \in Routes, Uncleared(r)
  PROVE  /\ \A seen : Deserved(r, seen) => \E u \in told'.wrong : u.seen = seen /\ u.known >= told'.cleared[r]
         /\ \A cool : PauseEarned(r, cool) =>
              cool = 0 \/ \E u \in told'.wrong : cool <= u.seen + Cooldown /\ u.known >= told'.cleared[r]
<1>1. \A t \in told.wrong : t.known >= told.cleared[r] =>
        \E u \in told'.wrong : u.seen = t.seen /\ u.known >= told'.cleared[r]
  BY TimesTyped DEF WrongKept, Uncleared, TimesPast
<1> QED BY <1>1 DEF Deserved, PauseEarned

\* A pause that was earned stays earned, and an answer is not outdated by a step that
\* clears nothing.
LEMMA StaysDeserved ==
  ASSUME CheckTypeOK, TimesPast, WrongKept, NEW r \in Routes, Uncleared(r)
  PROVE  /\ SharedKept /\ Outdated(r)' => Outdated(r)
         /\ PauseEarned(r, check'[r].cool) => PauseEarned(r, check[r].cool)'
  BY EarnedStays DEF SharedKept, Outdated, Deserved, PauseEarned

\* Every step leaves the observations in the past.
LEMMA TimesStep ==
  ASSUME CheckTypeOK, CheckTypeOK', TimesPast, [CheckNext]_checkVars
  PROVE  TimesPast'
<1> USE TimesTyped
<1>1. now' \in Nat /\ now <= now' /\ now' <= MaxTime + 1
  <2>1. UNCHANGED now \/ CheckTick
    BY FinishShape DEF CheckNext, checkVars, WorkerStep, ClaimCandyCheck, Skip, AcquireSharedCandyCheck,
         WaitForSharedCandyCheck, WaitTimesOut, SendRequest, ProbeCandyRequest, Cancel, ReleaseSharedCandyCheck,
         LoseWorker, RunCandyChecks, RunCandyCheckNow, Start, ClearCandyCheck, SaveSettings
  <2> QED BY <2>1, CheckTimes DEF CheckTick, TimesPast
<1>2. shared'.obs <= now
  <2>1. ASSUME NEW w \in Checkers, FinishCandyCheck(w), SharesResult(w) PROVE shared'.obs <= now
    <3>1. shared'.obs = SeenAt(work[w].res)
      BY <2>1, FinishShape DEF Published
    <3> QED BY <3>1 DEF SeenAt, TimesPast
  <2> QED BY <2>1, SharedStep DEF SharedKept, TimesPast
<1>3. \A v \in Checkers : work'[v].res.obs <= now
  <2>1. ASSUME NEW w \in Checkers, OthersGoOn(w), work'[w].res.obs <= now PROVE \A v \in Checkers : work'[v].res.obs <= now
    BY <2>1 DEF OthersGoOn, TimesPast
  <2>2. ASSUME NEW w \in Checkers, WorkerStep(w) PROVE OthersGoOn(w) /\ work'[w].res.obs <= now
    <3>0. work[w].res.obs <= now /\ shared.obs <= now
      BY DEF TimesPast
    <3>1. ASSUME NEW status \in Grades, Judge(w, status), work[w].pc # "idle" PROVE OthersGoOn(w) /\ work'[w].res.obs <= now
      BY <3>0, <3>1, JudgeShape
    <3>2. CASE Skip(w) \/ WaitTimesOut(w) \/ Cancel(w)
      BY <3>1, <3>2 DEF Skip, WaitTimesOut, Cancel, Grades
    <3>3. ASSUME NEW pc, Moved(w, pc) PROVE OthersGoOn(w) /\ work'[w].res.obs <= now
      BY <3>0, <3>3 DEF Moved
    <3>4. ASSUME Reuse(w), work[w].pc # "idle" PROVE OthersGoOn(w) /\ work'[w].res.obs <= now
      BY <3>0, <3>4, ReuseShape
    <3>5. CASE AcquireSharedCandyCheck(w)
      BY <3>3, <3>4, <3>5, MovedShape DEF AcquireSharedCandyCheck
    <3>6. CASE WaitForSharedCandyCheck(w)
      BY <3>1, <3>3, <3>4, <3>6, MovedShape DEF WaitForSharedCandyCheck, Grades
    <3>7. CASE SendRequest(w)
      BY <3>3, <3>7, MovedShape DEF SendRequest
    <3>8. StandDown(w) => OthersGoOn(w) /\ work'[w].res.obs <= now
      <4>1. Resting.res.obs = 0
        BY DEF Resting, NoResult
      <4>2. ASSUME StandDown(w) PROVE OthersGoOn(w) /\ work'[w] = Resting
        BY <4>2, JobEdited DEF StandDown
      <4> QED BY <4>1, <4>2
    <3>9. CASE ClaimCandyCheck(w)
      <4>1. StandDown(w) \/ (OthersGoOn(w) /\ work'[w].res = work[w].res)
        BY <3>9, ClaimShape DEF ClaimCandyCheck
      <4> QED BY <3>0, <3>8, <4>1
    <3>10. CASE ReleaseSharedCandyCheck(w) \/ LoseWorker(w)
      BY <3>8, <3>10 DEF ReleaseSharedCandyCheck, LoseWorker
    <3>11. CASE ProbeCandyRequest(w)
      <4>1. PICK status \in Outcomes :
              work' = [work EXCEPT ![w].pc = "judged",
                        ![w].res = [status |-> status, obs |-> IF status \in Verdicts THEN now ELSE 0, reused |-> FALSE]]
        BY <3>11 DEF ProbeCandyRequest
      <4>2. OthersGoOn(w) /\ work'[w].res.obs = IF status \in Verdicts THEN now ELSE 0
        BY <4>1 DEF CheckTypeOK, WorkTyped, CheckJob, OthersGoOn
      <4> QED BY <4>2
    <3>12. CASE FinishCandyCheck(w)
      <4>1. OthersGoOn(w)
        BY <3>12, FinishJobs
      <4>2. work'[w] \in {Resting, [work[w] EXCEPT !.pc = "releasing"]}
        BY <3>12, FinishShape DEF AfterFinish
      <4>3. work'[w].res \in {Resting.res, work[w].res}
        BY <4>2 DEF CheckTypeOK, WorkTyped, CheckJob
      <4>4. Resting.res.obs = 0
        BY DEF Resting, NoResult
      <4> QED BY <3>0, <4>1, <4>3, <4>4
    <3> QED
      BY <2>2, <3>2, <3>5, <3>6, <3>7, <3>9, <3>10, <3>11, <3>12 DEF WorkerStep
  <2>3. ASSUME NEW c \in left.checks, Start(c) PROVE \A v \in Checkers : work'[v].res.obs <= now
    BY <2>1, <2>3, StartShape DEF NoResult
  <2> QED BY <2>1, <2>2, <2>3
          DEF CheckNext, RunCandyChecks, RunCandyCheckNow, ClearCandyCheck, SaveSettings, CheckTick, checkVars, TimesPast
<1>4. \A t \in told'.wrong : t.seen \in 1 .. now
  <2>1. ASSUME NEW w \in Checkers, ProbeCandyRequest(w) PROVE \A t \in told'.wrong : t.seen \in 1 .. now
    BY <2>1 DEF ProbeCandyRequest, CheckTypeOK, TimesPast
  <2>2. ASSUME NEW w \in Checkers, FinishCandyCheck(w) PROVE \A t \in told'.wrong : t.seen \in 1 .. now
    <3>1. told'.wrong = {IF SharesResult(w) /\ t.seen = work[w].res.obs THEN [t EXCEPT !.known = now] ELSE t
                        : t \in told.wrong}
      BY <2>2, FinishShape
    <3>2. \A t \in told.wrong : [t EXCEPT !.known = now].seen = t.seen
      BY DEF CheckTypeOK
    <3> QED BY <3>1, <3>2 DEF TimesPast
  <2>3. \/ told'.wrong = told.wrong
        \/ \E w \in Checkers : ProbeCandyRequest(w) \/ FinishCandyCheck(w)
    BY DEF CheckNext, checkVars, WorkerStep, ClaimCandyCheck, Skip, AcquireSharedCandyCheck, WaitForSharedCandyCheck,
           WaitTimesOut, SendRequest, Cancel, ReleaseSharedCandyCheck, LoseWorker, RunCandyChecks, RunCandyCheckNow,
           Start, CheckTick, ClearCandyCheck, SaveSettings, CheckTypeOK
  <2> QED BY <2>1, <2>2, <2>3 DEF TimesPast
<1>5. \A r \in Routes : told'.cleared[r] <= now
  <2>1. \A r \in Routes : ClearCandyCheck(r) => told'.cleared[r] \in {now, told.cleared[r]}
    BY DEF ClearCandyCheck, CheckTypeOK
  <2> QED BY <2>1, ToldStep DEF Uncleared, TimesPast
<1>6. /\ shared'.obs \in Nat /\ \A v \in Checkers : work'[v].res.obs \in Nat
      /\ \A r \in Routes : told'.cleared[r] \in Nat
      /\ \A t \in told'.wrong : t.seen \in Nat
  BY DEF CheckTypeOK, SharedRow, WorkTyped, JobTyped, CheckJob, CheckResult
<1> QED BY <1>1, <1>2, <1>3, <1>4, <1>5, <1>6, CheckTimes DEF TimesPast

\* No row pauses its route for anything else.
RowsEarned == \A r \in Routes : PauseEarned(r, check[r].cool)
ClaimsFair == \A w \in Checkers : HoldsClaim(w) => ClaimIsFair(w)

\* Together: what a route is blocked for.
FairHistory ==
  /\ TimesPast /\ ClearedIsActive /\ SharedWasTold /\ OutdatedIsNotDue
  /\ (\A w \in Checkers : ResultInOrder(w)) /\ RowsEarned /\ ClaimsFair

\* A claim is in the row from ClaimCandyCheck until it is finished, cleared or replaced.
LEMMA TokenStep ==
  ASSUME CheckTypeOK, [CheckNext]_checkVars, NEW r \in Routes
  PROVE  /\ \A v \in Checkers : check'[r].token = v => check[r].token = v \/ (ClaimCandyCheck(v) /\ work[v].route = r)
         /\ ClearCandyCheck(r) => check'[r].token = Noone /\ check'[r].cool = 0 /\ check'[r].next = now + Interval
         /\ \/ check'[r].next = check[r].next /\ check'[r].cool = check[r].cool /\ check'[r].key = check[r].key
            \/ ClearCandyCheck(r) /\ check'[r].key = check[r].key
            \/ ~Active(r) /\ check'[r].key = ConfigKey(r) /\ check'[r].cool = 0 /\ conf' = conf
            \/ \E w \in Checkers : /\ FinishCandyCheck(w) /\ ClaimStands(w) /\ work[w].route = r
                                   /\ check'[r] = Finished(check[r], work[w]) /\ check'[r].key = check[r].key
<1>0. check[r] \in CheckRow /\ DOMAIN check = Routes
  BY DEF CheckTypeOK
<1>1. ASSUME NEW w \in Checkers, ClaimCandyCheck(w), check' # check
      PROVE  /\ work[w].route = r => /\ check'[r].token = w
                                     /\ IF Active(r) THEN /\ check'[r].next = check[r].next
                                                          /\ check'[r].cool = check[r].cool
                                                          /\ check'[r].key = check[r].key
                                        ELSE check'[r].key = ConfigKey(r) /\ check'[r].cool = 0 /\ conf' = conf
             /\ work[w].route # r => check'[r] = check[r]
  <2>1. check' = [check EXCEPT ![work[w].route] = ClaimedCheck(w, work[w].route)] /\ conf' = conf
    BY <1>1, ClaimShape DEF ClaimCandyCheck
  <2>2. ClaimedCheck(w, r).token = w
    BY <1>0 DEF ClaimedCheck, CheckRow, NewCheck
  <2>3. Active(r) => LET c == ClaimedCheck(w, r)
                     IN c.next = check[r].next /\ c.cool = check[r].cool /\ c.key = check[r].key
    BY <1>0 DEF ClaimedCheck, CheckRow
  <2>4. ~Active(r) => ClaimedCheck(w, r).key = ConfigKey(r) /\ ClaimedCheck(w, r).cool = 0
    BY DEF ClaimedCheck, NewCheck
  <2> QED BY <1>0, <2>1, <2>2, <2>3, <2>4
<1>2. ASSUME NEW w \in Checkers, FinishCandyCheck(w)
      PROVE  \/ check'[r] = check[r]
             \/ /\ ClaimStands(w) /\ work[w].route = r /\ check'[r] = Finished(check[r], work[w])
                /\ check'[r].key = check[r].key /\ check'[r].token = Noone
  <2>1. \A job : Finished(check[r], job).key = check[r].key /\ Finished(check[r], job).token = Noone
    BY <1>0 DEF Finished, CheckRow
  <2> QED BY <1>0, <1>2, <2>1, FinishShape
<1>3. ASSUME NEW q \in Routes, ClearCandyCheck(q)
      PROVE  /\ q # r => check'[r] = check[r]
             /\ q = r => /\ check'[r].token = Noone /\ check'[r].cool = 0 /\ check'[r].next = now + Interval
                         /\ check'[r].key = check[r].key
  BY <1>0, <1>3 DEF ClearCandyCheck, CheckRow
<1>4. \/ UNCHANGED check
      \/ \E w \in Checkers : (ClaimCandyCheck(w) /\ check' # check) \/ FinishCandyCheck(w)
      \/ \E q \in Routes : ClearCandyCheck(q)
  BY DEF CheckNext, checkVars, WorkerStep, Skip, AcquireSharedCandyCheck, WaitForSharedCandyCheck, WaitTimesOut,
         SendRequest, ProbeCandyRequest, Cancel, ReleaseSharedCandyCheck, LoseWorker, RunCandyChecks, RunCandyCheckNow,
         Start, CheckTick, SaveSettings
<1>5. Noone \notin Checkers
  BY ScenariosSound
<1>6. CASE UNCHANGED check
  BY <1>3, <1>6
<1>7. CASE \E w \in Checkers : ClaimCandyCheck(w) /\ check' # check
  BY <1>1, <1>3, <1>7
<1>8. CASE \E w \in Checkers : FinishCandyCheck(w)
  BY <1>2, <1>3, <1>5, <1>8
<1>9. CASE \E q \in Routes : ClearCandyCheck(q)
  BY <1>3, <1>5, <1>9
<1> QED BY <1>4, <1>6, <1>7, <1>8, <1>9

\* A published wrong answer counts against every route.
LEMMA PublishedCounts ==
  ASSUME CheckTypeOK, FairHistory, [CheckNext]_checkVars, NEW w \in Checkers, FinishCandyCheck(w), SharesResult(w),
         NEW r \in Routes, Uncleared(r), shared'.status = "incorrect"
  PROVE  \E u \in told'.wrong : u.seen = shared'.obs /\ u.known >= told'.cleared[r]
<1> DEFINE job == work[w]
<1> USE TimesTyped
<1>1. shared' = Published(job) /\ job.pc = "judged"
  BY FinishShape
<1>2. job.res.status = "incorrect" /\ shared'.obs = SeenAt(job.res)
  BY <1>1 DEF Published
<1>3. HoldsClaim(w)
  BY <1>1 DEF HoldsClaim, SharesResult, ClaimStands, ClaimHolds
<1>4. PICK t \in told.wrong : t.seen = job.res.obs
  BY <1>1, <1>2, <1>3 DEF FairHistory, ClaimsFair, ClaimIsFair, Deserved
<1>5. shared'.obs = job.res.obs
  BY <1>2, <1>4 DEF SeenAt, FairHistory, TimesPast
<1>6. [t EXCEPT !.known = now] \in told'.wrong
  BY <1>4, FinishShape
<1>7. [t EXCEPT !.known = now].seen = t.seen /\ [t EXCEPT !.known = now].known = now
  BY DEF CheckTypeOK
<1>8. told'.cleared[r] <= now
  BY DEF Uncleared, FairHistory, TimesPast
<1> QED BY <1>4, <1>5, <1>6, <1>7, <1>8

\* An answer that is outdated after a step that clears nothing was so before, because a
\* published one counts.
LEMMA OutdatedBefore ==
  ASSUME CheckTypeOK, CheckTypeOK', FairHistory, [CheckNext]_checkVars, NEW r \in Routes, Uncleared(r), Outdated(r)'
  PROVE  SharedKept /\ Outdated(r) /\ told'.cleared[r] = told.cleared[r] /\ told.cleared[r] > 0
<1> USE TimesTyped
<1>1. SharedKept
  BY PublishedCounts, SharedStep DEF Outdated, Deserved
<1>2. Outdated(r)
  BY <1>1, StaysDeserved, ToldStep DEF FairHistory
<1>3. PICK t \in told.wrong : t.seen = shared.obs
  BY <1>2 DEF Outdated, FairHistory, SharedWasTold
<1>4. told.cleared[r] > 0
  BY <1>2, <1>3 DEF Outdated, Deserved
<1>5. PICK u \in told'.wrong : u.seen = t.seen
  BY ToldStep DEF WrongKept
<1>6. u.known \in Nat
  BY DEF CheckTypeOK
<1>7. told'.cleared[r] # 0
  BY <1>1, <1>3, <1>5, <1>6 DEF Outdated, Deserved, SharedKept
<1> QED BY <1>1, <1>2, <1>4, <1>7 DEF Uncleared

\* A shared wrong answer was given by the upstream.
LEMMA ToldSharedStep ==
  ASSUME CheckTypeOK, FairHistory, [CheckNext]_checkVars
  PROVE  SharedWasTold'
<1> SUFFICES ASSUME shared'.status = "incorrect" PROVE \E u \in told'.wrong : u.seen = shared'.obs
  BY DEF SharedWasTold
<1>1. CASE SharedKept
  BY <1>1, ToldStep DEF SharedKept, FairHistory, SharedWasTold, WrongKept
<1>2. ASSUME NEW w \in Checkers, FinishCandyCheck(w), SharesResult(w) PROVE \E u \in told'.wrong : u.seen = shared'.obs
  <2>1. work[w].route \in Routes
    BY <1>2, FinishShape, TimesTyped
  <2>2. Uncleared(work[w].route)
    BY <1>2, <2>1, FinishShape DEF Uncleared, CheckTypeOK
  <2> QED BY <1>2, <2>1, <2>2, PublishedCounts
<1> QED BY <1>1, <1>2, SharedStep

\* A route that was cleared, and counts as cleared, has been checked under the current
\* settings.
LEMMA ActiveStep ==
  ASSUME CheckTypeOK, FairHistory, [CheckNext]_checkVars
  PROVE  ClearedIsActive'
<1> SUFFICES ASSUME NEW r \in Routes, told'.cleared[r] > 0 PROVE check'[r].key = ConfigKey(r)'
  BY DEF ClearedIsActive, Active
<1>1. CASE SaveSettings
  <2>1. PICK what \in left.saves :
          /\ conf' = IF what = "group" THEN [conf EXCEPT !.auto = ~@] ELSE [conf EXCEPT !.version[what] = @ + 1]
          /\ told' = [told EXCEPT !.cleared = [q \in Routes |-> IF what \in {q, "group"} THEN 0 ELSE @[q]]]
          /\ check' = check
    BY <1>1 DEF SaveSettings
  <2>2. told'.cleared[r] = IF what \in {r, "group"} THEN 0 ELSE told.cleared[r]
    BY <2>1 DEF CheckTypeOK
  <2>3. what # "group" /\ what # r /\ told.cleared[r] > 0
    BY <2>2, TimesTyped
  <2>4. conf'.version[r] = conf.version[r] /\ conf'.auto = conf.auto
    BY <2>1, <2>3 DEF CheckTypeOK
  <2> QED BY <2>1, <2>3, <2>4 DEF ConfigKey, FairHistory, ClearedIsActive, Active
<1>2. CASE UNCHANGED conf
  <2>1. ClearCandyCheck(r) => Active(r) \/ told'.cleared[r] = told.cleared[r]
    BY DEF ClearCandyCheck
  <2>2. Active(r)
    BY <2>1, ToldStep DEF Uncleared, FairHistory, ClearedIsActive
  <2> QED BY <1>2, <2>2, TokenStep DEF Active, ConfigKey
<1> QED
  BY <1>1, <1>2, FinishShape
  DEF CheckNext, checkVars, WorkerStep, ClaimCandyCheck, Skip, AcquireSharedCandyCheck, WaitForSharedCandyCheck,
      WaitTimesOut, SendRequest, ProbeCandyRequest, Cancel, ReleaseSharedCandyCheck, LoseWorker, RunCandyChecks,
      RunCandyCheckNow, Start, CheckTick, ClearCandyCheck

\* What the row of the route is after a check whose claim stands.
LEMMA FinishedFields ==
  ASSUME CheckTypeOK, NEW c \in CheckRow, NEW job \in CheckJob
  PROVE  /\ conf.auto /\ job.res.status # "error" => Finished(c, job).next >= SeenAt(job.res) + Interval
         /\ \/ Finished(c, job).cool \in {0, c.cool, job.cool}
            \/ job.res.status = "incorrect" /\ Finished(c, job).cool = SeenAt(job.res) + Cooldown
<1>1. SeenAt(job.res) \in Nat /\ job.cool \in Nat
  BY DEF CheckTypeOK, SeenAt, CheckJob, CheckResult
<1>2. conf.auto /\ job.res.status # "error" =>
        \E until \in Nat : Finished(c, job).next = Later(SeenAt(job.res) + Interval, until)
  <2> DEFINE until == IF job.res.status \in Verdicts
                      THEN IF conf.auto /\ job.res.status = "incorrect" THEN SeenAt(job.res) + Cooldown ELSE 0
                      ELSE job.cool
  <2>1. until \in Nat
    BY <1>1, CheckTimes
  <2>2. conf.auto /\ job.res.status # "error" => Finished(c, job).next = Later(SeenAt(job.res) + Interval, until)
    BY DEF Finished, CheckRow
  <2> QED BY <2>1, <2>2
<1>3. conf.auto /\ job.res.status # "error" => Finished(c, job).next >= SeenAt(job.res) + Interval
  BY <1>1, <1>2, CheckTimes DEF Later
<1>4. Finished(c, job).cool = IF job.res.status \in {"skipped", "deferred"} THEN c.cool
                              ELSE IF job.res.status \in Verdicts
                                   THEN IF conf.auto /\ job.res.status = "incorrect" THEN SeenAt(job.res) + Cooldown ELSE 0
                                   ELSE job.cool
  BY DEF Finished, CheckRow
<1> QED BY <1>3, <1>4

\* A claim that is finished is a fair one.
LEMMA FinishIsFair ==
  ASSUME CheckTypeOK, FairHistory, NEW w \in Checkers, FinishCandyCheck(w), ClaimStands(w)
  PROVE  /\ work[w].pc = "judged" /\ work[w].route \in Routes /\ work[w] \in CheckJob /\ ClaimIsFair(w)
<1>1. work[w].pc = "judged"
  BY FinishShape
<1>2. HoldsClaim(w)
  BY <1>1 DEF HoldsClaim, ClaimStands, ClaimHolds
<1>3. work[w] \in CheckJob /\ work[w].route \in Routes
  BY <1>1 DEF CheckTypeOK, WorkTyped, JobTyped
<1> QED BY <1>1, <1>2, <1>3 DEF FairHistory, ClaimsFair

\* Only the settings page changes the settings.
LEMMA SettingsStep ==
  ASSUME [CheckNext]_checkVars
  PROVE  SaveSettings \/ conf' = conf
<1>1. ASSUME NEW w \in Checkers, WorkerStep(w) PROVE conf' = conf
  BY <1>1, FinishShape
  DEF WorkerStep, ClaimCandyCheck, Skip, AcquireSharedCandyCheck, WaitForSharedCandyCheck, WaitTimesOut, SendRequest,
      ProbeCandyRequest, Cancel, ReleaseSharedCandyCheck, LoseWorker
<1>2. CASE \E c \in left.checks : RunCandyChecks(c) \/ RunCandyCheckNow(c)
  BY <1>2 DEF RunCandyChecks, RunCandyCheckNow, Start
<1>3. ASSUME NEW r \in Routes, ClearCandyCheck(r) PROVE conf' = conf
  BY <1>3 DEF ClearCandyCheck
<1>4. CheckTick \/ UNCHANGED checkVars => conf' = conf
  BY DEF CheckTick, checkVars
<1> QED BY Zenon, <1>1, <1>2, <1>3, <1>4 DEF CheckNext

\* No step makes a route due while an outdated answer is shared.
LEMMA DueStep ==
  ASSUME CheckTypeOK, CheckTypeOK', FairHistory, [CheckNext]_checkVars
  PROVE  OutdatedIsNotDue'
<1> SUFFICES ASSUME NEW r \in Routes, conf'.auto, Outdated(r)' PROVE check'[r].next >= shared'.obs + Interval
  BY DEF OutdatedIsNotDue
<1>1. CASE ClearCandyCheck(r)
  <2>1. check'[r].next = now + Interval
    BY <1>1, TokenStep
  <2>2. shared'.obs = shared.obs /\ shared.obs <= now
    BY <1>1 DEF ClearCandyCheck, FairHistory, TimesPast
  <2> QED BY <2>1, <2>2, TimesTyped, CheckTimes
<1>2. CASE Uncleared(r)
  <2>1. SharedKept /\ Outdated(r) /\ told'.cleared[r] = told.cleared[r] /\ told.cleared[r] > 0
    BY <1>2, OutdatedBefore
  <2>2. conf'.auto = conf.auto
    <3>1. ASSUME SaveSettings PROVE conf'.auto = conf.auto
      <4>1. PICK what \in left.saves :
              /\ conf' = IF what = "group" THEN [conf EXCEPT !.auto = ~@] ELSE [conf EXCEPT !.version[what] = @ + 1]
              /\ told' = [told EXCEPT !.cleared = [q \in Routes |-> IF what \in {q, "group"} THEN 0 ELSE @[q]]]
              /\ check' = check
        BY <3>1 DEF SaveSettings
      <4>2. told'.cleared[r] = IF what \in {r, "group"} THEN 0 ELSE told.cleared[r]
        BY <4>1 DEF CheckTypeOK
      <4>3. what # "group"
        BY <2>1, <4>2, TimesTyped
      <4> QED BY <4>1, <4>3 DEF CheckTypeOK
    <3> QED BY <3>1, SettingsStep
  <2>3. check[r].next >= shared'.obs + Interval /\ Active(r)
    BY <2>1, <2>2 DEF FairHistory, OutdatedIsNotDue, ClearedIsActive, SharedKept
  <2>4. ASSUME NEW w \in Checkers, FinishCandyCheck(w), ClaimStands(w), work[w].route = r,
               check'[r] = Finished(check[r], work[w])
        PROVE  check'[r].next >= shared'.obs + Interval
    <3>1. work[w] \in CheckJob /\ ClaimIsFair(w) /\ work[w].pc = "judged"
      BY <2>4, FinishIsFair
    <3>2. work[w].res.status # "error"
      <4> SUFFICES ASSUME work[w].res.status = "error" PROVE FALSE
        OBVIOUS
      <4>1. ~FailedAlone(work[w])
        BY <2>1, <2>4, FinishShape DEF CheckTypeOK
      <4>2. ~work[w].res.reused
        BY <2>1, <2>4, <3>1 DEF ClaimIsFair
      <4>3. SharesResult(w)
        BY <2>4, <4>1, <4>2 DEF FailedAlone, SharesResult, Publishes
      <4>4. shared'.status = "error"
        BY <2>4, <4>3, FinishShape DEF Published
      <4> QED BY <4>4 DEF Outdated
    <3>3. check[r] \in CheckRow
      BY DEF CheckTypeOK
    <3>4. check'[r].next >= SeenAt(work[w].res) + Interval
      BY <2>2, <2>4, <3>1, <3>2, <3>3, FinishedFields
    <3>5. SeenAt(work[w].res) >= shared.obs
      BY <2>1, <2>4, <3>1 DEF SeenAt, ClaimIsFair, FairHistory, TimesPast
    <3>6. SeenAt(work[w].res) \in Nat /\ check'[r].next \in Nat /\ shared.obs \in Nat
      BY TimesTyped DEF SeenAt, CheckTypeOK, CheckRow
    <3> QED BY <2>1, <3>4, <3>5, <3>6, CheckTimes DEF SharedKept
  <2> QED BY <1>1, <2>3, <2>4, TokenStep
<1> QED BY <1>1, <1>2, ToldStep

\* No step blocks a route for an answer that does not count.
LEMMA RowsStep ==
  ASSUME CheckTypeOK, CheckTypeOK', FairHistory, [CheckNext]_checkVars
  PROVE  RowsEarned'
<1> SUFFICES ASSUME NEW r \in Routes PROVE PauseEarned(r, check[r].cool)'
  BY DEF RowsEarned
<1>1. CASE ClearCandyCheck(r)
  BY <1>1, TokenStep DEF PauseEarned
<1>2. CASE Uncleared(r)
  <2>1. ASSUME NEW w \in Checkers, FinishCandyCheck(w), ClaimStands(w), work[w].route = r,
               check'[r] = Finished(check[r], work[w])
        PROVE  PauseEarned(r, check'[r].cool)
    <3>1. work[w] \in CheckJob /\ ClaimIsFair(w) /\ work[w].pc = "judged"
      BY <2>1, FinishIsFair
    <3>2. check[r] \in CheckRow /\ PauseEarned(r, check[r].cool)
      BY DEF CheckTypeOK, FairHistory, RowsEarned
    <3>3. CASE check'[r].cool \in {0, check[r].cool, work[w].cool}
      BY <2>1, <3>1, <3>2, <3>3 DEF PauseEarned, ClaimIsFair
    <3>4. CASE work[w].res.status = "incorrect" /\ check'[r].cool = SeenAt(work[w].res) + Cooldown
      <4>1. PICK t \in told.wrong : t.seen = work[w].res.obs /\ t.known >= told.cleared[r]
        BY <2>1, <3>1, <3>4 DEF ClaimIsFair, Deserved
      <4>2. SeenAt(work[w].res) = t.seen /\ t.seen \in Nat
        BY <4>1, TimesTyped DEF SeenAt, FairHistory, TimesPast
      <4>3. check'[r].cool <= t.seen + Cooldown
        BY <3>4, <4>2, CheckTimes
      <4> QED BY <4>1, <4>3 DEF PauseEarned
    <3> QED BY <2>1, <3>1, <3>2, <3>3, <3>4, FinishedFields
  <2>2. PauseEarned(r, check'[r].cool)
    BY <1>1, <2>1, TokenStep DEF FairHistory, RowsEarned, PauseEarned
  <2>3. WrongKept
    BY ToldStep
  <2> QED BY <1>2, <2>2, <2>3, StaysDeserved DEF FairHistory
<1> QED BY <1>1, <1>2, ToldStep

-----------------------------------------------------------------------------
(* Candy checks: a check under way stays a fair one. *)

\* The job of v goes on, but for news.
SameJob(v) ==
  /\ work'[v].pc = work[v].pc /\ work'[v].route = work[v].route /\ work'[v].manual = work[v].manual
  /\ work'[v].cool = work[v].cool /\ work'[v].res = work[v].res
  /\ work'[v].news => work[v].news \/ \E w \in Checkers : FinishCandyCheck(w) /\ SharesResult(w)

\* A claim stays fair through the steps of others, an operator's and the settings page's
\* included.
LEMMA ClaimGoesOn ==
  ASSUME CheckTypeOK, CheckTypeOK', FairHistory, [CheckNext]_checkVars, now' >= now,
         NEW v \in Checkers, SameJob(v), HoldsClaim(v)'
  PROVE  ClaimIsFair(v)'
<1> DEFINE job == work[v]
<1>0. PICK r \in Routes : work[v].route = r
  BY TimesTyped DEF SameJob, HoldsClaim
<1>1. /\ job.pc \in {"acquiring", "waiting", "queueing", "calling", "judged"} /\ check'[r].token = v
      /\ work'[v].route = r
  BY <1>0 DEF SameJob, HoldsClaim
<1>2. HoldsClaim(v)
  <2>1. ~ClaimCandyCheck(v)
    BY <1>1 DEF ClaimCandyCheck
  <2>2. check[r].token = v
    BY <1>1, <2>1, TokenStep
  <2> QED BY <1>0, <1>1, <2>2 DEF HoldsClaim
<1>3. ClaimIsFair(v)
  BY <1>2 DEF FairHistory, ClaimsFair
<1>4. Uncleared(r)
  <2>1. Noone \notin Checkers
    BY ScenariosSound
  <2> QED BY <1>1, <2>1, TokenStep, ToldStep
<1>5. Outdated(r)' => SharedKept /\ Outdated(r)
  BY <1>1, <1>4, OutdatedBefore
<1>6. WrongKept /\ TimesPast
  BY ToldStep DEF FairHistory
<1>7. PauseEarned(r, job.cool)'
  <2>1. PauseEarned(r, job.cool)
    BY <1>0, <1>3 DEF ClaimIsFair
  <2> QED BY <1>4, <1>6, <2>1, EarnedStays DEF SameJob, PauseEarned
<1>8. (job.pc \in {"acquiring", "waiting"} /\ ~job.manual /\ Outdated(r) => shared.obs + Interval <= now)'
  BY <1>0, <1>3, <1>5, TimesTyped, CheckTimes DEF SameJob, ClaimIsFair, SharedKept, CheckTypeOK
<1>9. (job.news => ~Outdated(r))'
  <2> SUFFICES ASSUME work'[v].news, Outdated(r)' PROVE FALSE
    BY DEF SameJob
  <2>1. CASE job.news
    BY <1>0, <1>3, <1>5, <2>1 DEF ClaimIsFair
  <2>2. ASSUME NEW w \in Checkers, FinishCandyCheck(w), SharesResult(w) PROVE FALSE
    <3>1. shared'.status = "incorrect"
      BY DEF Outdated
    <3>2. \E u \in told'.wrong : u.seen = shared'.obs /\ u.known >= told'.cleared[r]
      BY <1>4, <2>2, <3>1, PublishedCounts
    <3> QED BY <3>2 DEF Outdated, Deserved
  <2> QED BY <2>1, <2>2 DEF SameJob
<1>10. (job.pc = "judged" =>
          /\ job.res.status = "incorrect" => Deserved(r, job.res.obs)
          /\ job.res.obs # 0 /\ Outdated(r) => job.res.obs >= shared.obs
          /\ job.res.status = "error" /\ job.res.reused => ~Outdated(r))'
  <2> SUFFICES ASSUME job.pc = "judged"
               PROVE  /\ job.res.status = "incorrect" => Deserved(r, job.res.obs)'
                      /\ job.res.obs # 0 /\ Outdated(r)' => job.res.obs >= shared'.obs
                      /\ job.res.status = "error" /\ job.res.reused => ~Outdated(r)'
    BY DEF SameJob
  <2>1. job.res.status = "incorrect" => Deserved(r, job.res.obs)
    BY <1>0, <1>3 DEF ClaimIsFair
  <2>2. job.res.status = "incorrect" => \E u \in told'.wrong : u.seen = job.res.obs /\ u.known >= told'.cleared[r]
    BY <1>4, <1>6, <2>1, EarnedStays
  <2>3. work'[v].res = job.res
    BY DEF SameJob
  <2>4. job.res.status = "incorrect" => Deserved(r, job.res.obs)'
    BY <2>2, <2>3 DEF Deserved
  <2> QED BY <1>0, <1>3, <1>5, <2>4 DEF ClaimIsFair, SharedKept
<1> QED BY <1>1, <1>7, <1>8, <1>9, <1>10 DEF ClaimIsFair

\* A worker that takes a step of its own on the way to a result.
LEMMA ClaimMoves ==
  ASSUME CheckTypeOK, CheckTypeOK', FairHistory, [CheckNext]_checkVars, UNCHANGED <<now, check, told>>,
         NEW v \in Checkers, NEW pc, Moved(v, pc), HoldsClaim(v),
         pc \in {"acquiring", "waiting", "queueing", "calling"},
         pc \in {"acquiring", "waiting"} => work[v].pc \in {"acquiring", "waiting"}
  PROVE  ClaimIsFair(v)'
<1>0. PICK r \in Routes : work[v].route = r
  BY TimesTyped DEF HoldsClaim
<1>1. ClaimIsFair(v)
  BY DEF FairHistory, ClaimsFair
<1>2. Uncleared(r)
  BY DEF Uncleared
<1>3. Outdated(r)' => SharedKept /\ Outdated(r)
  BY <1>2, OutdatedBefore
<1>4. /\ work'[v].pc = pc /\ work'[v].route = r /\ work'[v].manual = work[v].manual /\ work'[v].cool = work[v].cool
      /\ work'[v].news => work[v].news
  BY <1>0 DEF Moved
<1>5. PauseEarned(r, work[v].cool)'
  BY <1>0, <1>1, <1>4 DEF ClaimIsFair, PauseEarned
<1> QED BY <1>0, <1>1, <1>3, <1>4, <1>5 DEF ClaimIsFair, SharedKept

\* A check that ends without a verdict of the upstream, and one that reuses what is shared.
LEMMA ClaimJudged ==
  ASSUME CheckTypeOK, CheckTypeOK', FairHistory, [CheckNext]_checkVars, UNCHANGED <<now, check, told>>,
         NEW v \in Checkers, HoldsClaim(v), NEW status \in {"skipped", "deferred", "error"}, Judge(v, status),
         status = "error" => work[v].pc # "judged"
  PROVE  ClaimIsFair(v)'
<1>0. PICK r \in Routes : work[v].route = r
  BY TimesTyped DEF HoldsClaim
<1>1. ClaimIsFair(v) /\ ResultInOrder(v)
  BY DEF FairHistory, ClaimsFair
<1>2. /\ work'[v].pc = "judged" /\ work'[v].route = r /\ work'[v].cool = work[v].cool /\ work'[v].news = work[v].news
      /\ work'[v].res.status = status /\ work'[v].res.obs = work[v].res.obs
      /\ work'[v].res.reused = work[v].res.reused
  BY <1>0, JudgeShape DEF HoldsClaim, Grades
<1>3. Outdated(r)' => SharedKept /\ Outdated(r)
  BY OutdatedBefore DEF Uncleared
<1>4. PauseEarned(r, work[v].cool)'
  BY <1>0, <1>1, <1>2 DEF ClaimIsFair, PauseEarned
<1>5. work[v].pc # "judged" => work[v].res.obs = 0 /\ ~work[v].res.reused
  BY <1>1 DEF ResultInOrder, HoldsClaim, NoResult
<1> QED BY <1>0, <1>1, <1>2, <1>3, <1>4, <1>5 DEF ClaimIsFair, SharedKept

\* A check reuses the shared observation only when it is not outdated.
LEMMA ClaimReuses ==
  ASSUME CheckTypeOK, CheckTypeOK', FairHistory, [CheckNext]_checkVars, UNCHANGED <<now, check, shared, told>>,
         NEW v \in Checkers, HoldsClaim(v), Reuse(v), Usable,
         (work[v].pc = "acquiring" /\ ~work[v].manual) \/ work[v].news
  PROVE  ClaimIsFair(v)'
<1>0. PICK r \in Routes : work[v].route = r
  BY TimesTyped DEF HoldsClaim
<1>1. ClaimIsFair(v)
  BY DEF FairHistory, ClaimsFair
<1>2. /\ work'[v].pc = "judged" /\ work'[v].route = r /\ work'[v].cool = work[v].cool /\ work'[v].news = FALSE
      /\ work'[v].res.status = shared.status /\ work'[v].res.obs = shared.obs
  BY <1>0, ReuseShape DEF HoldsClaim
<1>3. ~Outdated(r)
  BY <1>0, <1>1, TimesTyped, CheckTimes DEF Usable, ClaimIsFair, Outdated
<1>4. ~Outdated(r)'
  BY <1>3 DEF Outdated, Deserved
<1>5. PauseEarned(r, work[v].cool)'
  BY <1>0, <1>1, <1>2 DEF ClaimIsFair, PauseEarned
<1>6. shared.status = "incorrect" => Deserved(r, shared.obs)'
  BY <1>3 DEF Outdated, Deserved
<1> QED BY <1>2, <1>4, <1>5, <1>6 DEF ClaimIsFair

\* An answer that comes in now counts against every route.
LEMMA ClaimAnswered ==
  ASSUME CheckTypeOK, CheckTypeOK', FairHistory, [CheckNext]_checkVars,
         NEW v \in Checkers, HoldsClaim(v), ProbeCandyRequest(v)
  PROVE  ClaimIsFair(v)'
<1>0. PICK r \in Routes : work[v].route = r
  BY TimesTyped DEF HoldsClaim
<1>1. ClaimIsFair(v) /\ ResultInOrder(v)
  BY DEF FairHistory, ClaimsFair
<1>2. PICK status \in Outcomes :
        /\ work' = [work EXCEPT ![v].pc = "judged",
                      ![v].res = [status |-> status, obs |-> IF status \in Verdicts THEN now ELSE 0, reused |-> FALSE]]
        /\ told' = IF status = "incorrect"
                   THEN [told EXCEPT !.wrong = @ \cup {[seen |-> now, known |-> MaxTime + 1]}] ELSE told
  BY DEF ProbeCandyRequest
<1>3. /\ work'[v].pc = "judged" /\ work'[v].route = r /\ work'[v].cool = work[v].cool /\ work'[v].news = work[v].news
      /\ work'[v].res.status = status /\ work'[v].res.obs = (IF status \in Verdicts THEN now ELSE 0)
      /\ ~work'[v].res.reused
  BY <1>0, <1>2 DEF CheckTypeOK, WorkTyped, CheckJob
<1>4. UNCHANGED <<now, shared>> /\ told'.cleared = told.cleared
  BY <1>2 DEF ProbeCandyRequest, CheckTypeOK
<1>5. Outdated(r)' => SharedKept /\ Outdated(r)
  BY <1>4, OutdatedBefore DEF Uncleared
<1>6. PauseEarned(r, work[v].cool)'
  <2>1. PauseEarned(r, work[v].cool) /\ Uncleared(r) /\ WrongKept /\ TimesPast
    BY <1>0, <1>1, <1>4, ToldStep DEF ClaimIsFair, Uncleared, FairHistory
  <2> QED BY <1>3, <2>1, EarnedStays DEF PauseEarned
<1>7. status = "incorrect" => Deserved(r, work[v].res.obs)'
  <2> SUFFICES ASSUME status = "incorrect"
               PROVE  \E t \in told'.wrong : t.seen = work'[v].res.obs /\ t.known >= told'.cleared[r]
    BY DEF Deserved
  <2>1. [seen |-> now, known |-> MaxTime + 1] \in told'.wrong
    BY <1>2 DEF CheckTypeOK
  <2>2. told'.cleared[r] <= MaxTime + 1
    BY <1>4 DEF FairHistory, TimesPast
  <2>3. work'[v].res.obs = now
    BY <1>3 DEF Verdicts
  <2> QED BY <2>1, <2>2, <2>3, TimesTyped, CheckTimes
<1>8. shared'.obs <= now
  BY <1>4 DEF FairHistory, TimesPast
<1>9. ~work[v].news \/ ~Outdated(r)
  BY <1>0, <1>1 DEF ClaimIsFair
<1> QED BY <1>3, <1>5, <1>6, <1>7, <1>8, <1>9 DEF ClaimIsFair

\* A check begins fair.
LEMMA ClaimBegins ==
  ASSUME CheckTypeOK, CheckTypeOK', FairHistory, RowsEarned', [CheckNext]_checkVars,
         NEW v \in Checkers, HoldsClaim(v)', ClaimCandyCheck(v)
  PROVE  ClaimIsFair(v)'
<1>0. PICK r \in Routes : work[v].route = r
  BY TimesTyped DEF ClaimCandyCheck
<1>1. /\ work'[v].pc = "acquiring" /\ work'[v].route = r /\ work'[v].manual = work[v].manual
      /\ work'[v].cool = check'[r].cool /\ work'[v].news = work[v].news /\ work[v].pc = "picked"
      /\ work[v].manual \/ (conf.auto /\ ~(Active(r) /\ check[r].next > now))
  BY <1>0, ClaimShape DEF HoldsClaim
<1>2. UNCHANGED <<now, shared, told>>
  BY DEF ClaimCandyCheck
<1>3. ~work[v].news
  BY <1>1 DEF FairHistory, ResultInOrder
<1>4. PauseEarned(r, check[r].cool)'
  BY DEF RowsEarned
<1>5. PauseEarned(r, work[v].cool)'
  BY <1>1, <1>4 DEF PauseEarned
<1>6. ~work[v].manual /\ Outdated(r)' => shared.obs + Interval <= now
  <2> SUFFICES ASSUME ~work[v].manual, Outdated(r)' PROVE shared.obs + Interval <= now
    OBVIOUS
  <2>1. Outdated(r) /\ told.cleared[r] > 0
    BY <1>2, OutdatedBefore DEF Uncleared
  <2>2. Active(r) /\ conf.auto /\ check[r].next >= shared.obs + Interval
    BY <1>1, <2>1 DEF FairHistory, ClearedIsActive, OutdatedIsNotDue
  <2> QED BY <1>1, <2>2, TimesTyped, CheckTimes
<1> QED BY <1>1, <1>2, <1>3, <1>5, <1>6 DEF ClaimIsFair

\* Every step leaves every claim in the rows fair.
LEMMA ClaimsStep ==
  ASSUME CheckTypeOK, CheckTypeOK', FairHistory, RowsEarned', [CheckNext]_checkVars
  PROVE  ClaimsFair'
<1> SUFFICES ASSUME NEW v \in Checkers, HoldsClaim(v)' PROVE ClaimIsFair(v)'
  BY DEF ClaimsFair
<1>0. now' >= now
  <2>1. UNCHANGED now \/ CheckTick
    BY FinishShape DEF CheckNext, checkVars, WorkerStep, ClaimCandyCheck, Skip, AcquireSharedCandyCheck,
         WaitForSharedCandyCheck, WaitTimesOut, SendRequest, ProbeCandyRequest, Cancel, ReleaseSharedCandyCheck,
         LoseWorker, RunCandyChecks, RunCandyCheckNow, Start, ClearCandyCheck, SaveSettings
  <2> QED BY <2>1, TimesTyped DEF CheckTick
<1>1. ASSUME SameJob(v) PROVE ClaimIsFair(v)'
  BY <1>0, <1>1, ClaimGoesOn
<1>2. ASSUME NEW w \in Checkers \ {v}, OthersGoOn(w) PROVE ClaimIsFair(v)'
  <2>1. SameJob(v)
    BY <1>2 DEF OthersGoOn, SameJob
  <2> QED BY <1>1, <2>1
<1>3. \A w \in Checkers : WorkerStep(w) => OthersGoOn(w)
  BY JobsGoOn
<1>4. CASE \E w \in Checkers \ {v} : WorkerStep(w)
  BY <1>2, <1>3, <1>4
<1>5. CASE WorkerStep(v)
  <2>1. ASSUME work[v].pc \in {"acquiring", "waiting", "queueing", "calling", "judged"}, UNCHANGED check,
               work'[v].route = work[v].route
        PROVE  HoldsClaim(v)
    BY <2>1 DEF HoldsClaim
  <2>2. ASSUME NEW status \in {"skipped", "deferred", "error"}, Judge(v, status), UNCHANGED <<now, check, told>>,
               work[v].pc \in {"acquiring", "waiting", "queueing", "calling", "judged"},
               status = "error" => work[v].pc # "judged"
        PROVE  ClaimIsFair(v)'
    <3>1. HoldsClaim(v)
      BY <2>1, <2>2, JudgeShape DEF Grades
    <3> QED BY <2>2, <3>1, ClaimJudged
  <2>3. CASE Skip(v) \/ WaitTimesOut(v) \/ Cancel(v)
    BY <2>2, <2>3 DEF Skip, WaitTimesOut, Cancel
  <2>4. ASSUME NEW pc, Moved(v, pc), UNCHANGED <<now, check, told>>,
               work[v].pc \in {"acquiring", "waiting", "queueing"}, pc \in {"acquiring", "waiting", "queueing", "calling"},
               pc \in {"acquiring", "waiting"} => work[v].pc \in {"acquiring", "waiting"}
        PROVE  ClaimIsFair(v)'
    <3>1. HoldsClaim(v)
      BY <2>1, <2>4 DEF Moved
    <3> QED BY <2>4, <3>1, ClaimMoves
  <2>5. ASSUME Reuse(v), Usable, UNCHANGED <<now, check, shared, told>>, work[v].pc \in {"acquiring", "waiting"},
               (work[v].pc = "acquiring" /\ ~work[v].manual) \/ work[v].news
        PROVE  ClaimIsFair(v)'
    <3>1. HoldsClaim(v)
      BY <2>1, <2>5, ReuseShape
    <3> QED BY <2>5, <3>1, ClaimReuses
  <2>6. CASE AcquireSharedCandyCheck(v)
    BY <2>4, <2>5, <2>6, MovedShape DEF AcquireSharedCandyCheck
  <2>7. CASE WaitForSharedCandyCheck(v)
    BY <2>2, <2>4, <2>5, <2>7, MovedShape DEF WaitForSharedCandyCheck
  <2>8. CASE SendRequest(v)
    BY <2>4, <2>8, MovedShape DEF SendRequest
  <2>9. CASE ProbeCandyRequest(v)
    <3>1. UNCHANGED check /\ work[v].pc = "calling"
      BY <2>9 DEF ProbeCandyRequest
    <3>2. work'[v].route = work[v].route
      BY <2>9 DEF ProbeCandyRequest, CheckTypeOK, WorkTyped, CheckJob
    <3>3. HoldsClaim(v)
      BY <2>1, <3>1, <3>2
    <3> QED BY <2>9, <3>3, ClaimAnswered
  <2>10. CASE ClaimCandyCheck(v)
    BY <2>10, ClaimBegins
  <2>11. CASE FinishCandyCheck(v) \/ ReleaseSharedCandyCheck(v) \/ LoseWorker(v)
    BY <2>11, FinishJobs, ReleaseOrLoss DEF HoldsClaim
  <2> QED BY <1>5, <2>3, <2>6, <2>7, <2>8, <2>9, <2>10, <2>11 DEF WorkerStep
<1>6. ASSUME NEW c \in left.checks, Start(c) PROVE ClaimIsFair(v)'
  BY <1>2, <1>6, StartShape DEF HoldsClaim
<1>7. CASE UNCHANGED work
  BY <1>1, <1>7 DEF SameJob
<1> QED
  BY <1>4, <1>5, <1>6, <1>7
  DEF CheckNext, checkVars, RunCandyChecks, RunCandyCheckNow, ClearCandyCheck, SaveSettings, CheckTick

-----------------------------------------------------------------------------
(* Candy checks: the inductive invariant and the theorems. *)

\* The inductive invariant.
CheckIInv ==
  /\ CheckTypeOK /\ (\A w \in Checkers : ProbeCovered(w)) /\ FairHistory

\* The invariant holds at first.
LEMMA CheckIInvInit == CheckInit => CheckIInv
<1> SUFFICES ASSUME CheckInit PROVE CheckIInv
  OBVIOUS
<1>1. CheckTypeOK
  BY CheckInitTyped
<1>2. /\ now = 1 /\ told = [wrong |-> {}, cleared |-> [r \in Routes |-> 0]]
      /\ shared = [status |-> "pending", obs |-> 0, retry |-> 0, lease |-> 0, token |-> Noone]
      /\ work = [w \in Checkers |-> Resting] /\ check = [r \in Routes |-> NewCheck(NoKey)]
  BY DEF CheckInit
<1>3. \A w \in Checkers : work[w].pc = "idle" /\ work[w].res = NoResult
  BY <1>2 DEF Resting
<1>4. \A w \in Checkers : ProbeCovered(w) /\ ResultInOrder(w) /\ ~HoldsClaim(w)
  BY <1>3 DEF ProbeCovered, ResultInOrder, HoldsClaim
<1>5. TimesPast
  BY <1>2, <1>3, CheckTimes DEF TimesPast, NoResult
<1>6. ClearedIsActive /\ SharedWasTold /\ OutdatedIsNotDue
  BY <1>2 DEF ClearedIsActive, SharedWasTold, OutdatedIsNotDue, Outdated
<1>7. RowsEarned
  BY <1>2 DEF RowsEarned, PauseEarned, NewCheck
<1> QED BY <1>1, <1>4, <1>5, <1>6, <1>7 DEF CheckIInv, FairHistory, ClaimsFair

\* The invariant is inductive.
LEMMA CheckIInvStep == CheckIInv /\ [CheckNext]_checkVars => CheckIInv'
<1> SUFFICES ASSUME CheckIInv, [CheckNext]_checkVars PROVE CheckIInv'
  OBVIOUS
<1> USE DEF CheckIInv
<1>1. JudgedIsGraded
  BY DEF FairHistory, ResultInOrder, JudgedIsGraded
<1>2. CheckTypeOK'
  BY <1>1, CheckStepTyped
<1>3. \A w \in Checkers : ProbeCovered(w)'
  BY CoveredStep
<1>4. TimesPast' /\ ClearedIsActive' /\ SharedWasTold' /\ OutdatedIsNotDue'
  BY <1>2, TimesStep, ActiveStep, ToldSharedStep, DueStep DEF FairHistory
<1>5. \A w \in Checkers : ResultInOrder(w)'
  BY ResultStep DEF FairHistory
<1>6. RowsEarned'
  BY <1>2, RowsStep
<1>7. ClaimsFair'
  BY <1>2, <1>6, ClaimsStep
<1> QED BY <1>2, <1>3, <1>4, <1>5, <1>6, <1>7 DEF FairHistory

\* Every reachable state has the types, covered probes and a fair history.
THEOREM CheckInvariant == CheckSpec => []CheckIInv
  BY CheckIInvInit, CheckIInvStep, PTL DEF CheckSpec

\* However many workers, routes and lost processes there are, one candy request is in
\* flight at a time.
THEOREM OneSourceCallHolds == CheckSpec => []OneSourceCall
<1>1. ASSUME CheckIInv PROVE OneSourceCall
  <2> DEFINE callers == {w \in Checkers : work[w].pc = "calling"}
  <2>1. \A v, w \in callers : v = w
    BY <1>1 DEF CheckIInv, ProbeCovered
  <2>2. CASE callers = {}
    BY <2>2, FS_EmptySet DEF OneSourceCall
  <2>3. ASSUME NEW w \in callers PROVE OneSourceCall
    <3>1. callers = {w}
      BY <2>1
    <3> QED BY <3>1, FS_Singleton DEF OneSourceCall
  <2> QED BY <2>2, <2>3
<1> QED BY <1>1, CheckInvariant, PTL

\* A route is blocked only for a wrong answer the upstream gave, no longer than the
\* cooldown after it, and for none that was known when an operator cleared the route.
THEOREM BlockIsEarnedHolds == CheckSpec => []BlockIsEarned
<1>1. CheckIInv => BlockIsEarned
  <2> SUFFICES ASSUME CheckIInv, NEW r \in Routes, Blocks(r)
               PROVE  \E t \in told.wrong : check[r].cool <= t.seen + Cooldown /\ t.known >= told.cleared[r]
    BY DEF BlockIsEarned
  <2>1. check[r].cool > 0
    BY TimesTyped DEF Blocks, CheckIInv
  <2> QED BY <2>1 DEF CheckIInv, FairHistory, RowsEarned, PauseEarned
<1> QED BY <1>1, CheckInvariant, PTL

-----------------------------------------------------------------------------
(* Cache health: the types of the rows and of what is under way. *)

HealthRow == [there : BOOLEAN, black : Nat, grace : Nat, count : Nat]
Evaluation == [pc : {"idle", "scheduled", "counted", "read"}, route : Rows, at : Nat, low : BOOLEAN, count : Nat,
               seen : HealthRow, overtaken : BOOLEAN]
Release == [pc : {"idle", "read"}, route : Rows, seen : HealthRow]

HealthTypeOK ==
  /\ clock \in Nat
  /\ policy \in [on : BOOLEAN, min : Nat, pc : {"idle", "saved"}]
  /\ health \in [Rows -> HealthRow]
  /\ eval \in [Evaluators -> Evaluation] /\ \A e \in Evaluators : eval[e].pc # "idle" => eval[e].route \in PausedRoutes
  /\ release \in Release /\ (release.pc # "idle" => release.route \in PausedRoutes)
  /\ promised \in [PausedRoutes -> Nat]
  /\ budget \in [usages : Nat, releases : Nat, saves : Nat, restarts : Nat]

\* The row has the grace that was promised, and no pause.
PromiseKept(r) == promised[r] > clock => health[r].there /\ health[r].black = 0 /\ health[r].grace >= promised[r]

\* An evaluation that has read the row since the release has seen the grace, and counts from now.
NotBehind(e) ==
  /\ eval[e].pc \in {"counted", "read"} => eval[e].at = clock
  /\ eval[e].pc = "read" /\ ~eval[e].overtaken /\ promised[eval[e].route] > clock
       => eval[e].seen.grace >= promised[eval[e].route]

HealthIInv ==
  /\ HealthTypeOK
  /\ \A r \in PausedRoutes : PromiseKept(r)
  /\ \A e \in Evaluators : NotBehind(e)

-----------------------------------------------------------------------------
\* What the statements read and write has its type.
LEMMA HealthPartsTyped ==
  ASSUME HealthTypeOK
  PROVE  /\ NoState \in HealthRow /\ Asleep \in Evaluation /\ Asleep.pc = "idle" /\ NoRelease \in Release
         /\ PausedRoutes \subseteq Rows /\ Grace \in Nat /\ \A r \in Rows : StateOf(r) \in HealthRow
         /\ \A h \in HealthRow : Unrestricted(h) \in HealthRow
         /\ \A e \in Evaluators : Evaluated(e) \in HealthRow
         /\ \A routes : Overtaken(routes) \in [Evaluators -> Evaluation]
<1>1. NoState \in HealthRow
  BY DEF NoState, HealthRow
<1>2. Asleep \in Evaluation /\ Asleep.pc = "idle" /\ NoRelease \in Release
  BY <1>1 DEF Asleep, Evaluation, NoRelease, Release, Rows
<1>3. PausedRoutes \subseteq Rows /\ Grace \in Nat /\ \A r \in Rows : StateOf(r) \in HealthRow
  BY HealthBounds DEF Rows, Grace, StateOf, HealthTypeOK
<1>4. \A h \in HealthRow : Unrestricted(h) \in HealthRow
  BY DEF HealthRow, Unrestricted
<1>5. ASSUME NEW e \in Evaluators PROVE Evaluated(e) \in HealthRow
  <2>1. /\ eval[e].count \in Nat /\ eval[e].at \in Nat /\ eval[e].seen.grace \in Nat /\ eval[e].seen.black \in Nat
    BY DEF HealthTypeOK, Evaluation, HealthRow
  <2> QED BY <2>1, HealthBounds DEF Evaluated, HealthRow
<1>6. ASSUME NEW routes PROVE Overtaken(routes) \in [Evaluators -> Evaluation]
  BY DEF Overtaken, HealthTypeOK, Evaluation
<1> QED BY <1>1, <1>2, <1>3, <1>4, <1>5, <1>6

\* The first states satisfy the invariant.
LEMMA HealthInitIInv == HealthInit => HealthIInv
<1> SUFFICES ASSUME HealthInit PROVE HealthIInv
  OBVIOUS
<1>1. NoState \in HealthRow /\ [there |-> TRUE, black |-> 1 + Pause, grace |-> 0, count |-> 1] \in HealthRow
  BY HealthBounds DEF NoState, HealthRow
<1>2. Asleep \in Evaluation /\ Asleep.pc = "idle" /\ NoRelease \in Release /\ NoRelease.pc = "idle"
  BY <1>1 DEF Asleep, Evaluation, NoRelease, Release, Rows
<1>3. health \in [Rows -> HealthRow]
  BY <1>1 DEF HealthInit
<1>4. HealthTypeOK
  BY <1>2, <1>3, HealthBounds DEF HealthInit, HealthTypeOK
<1>5. \A e \in Evaluators : eval[e].pc = "idle"
  BY <1>2 DEF HealthInit
<1>6. \A r \in PausedRoutes : promised[r] = 0 /\ clock = 1
  BY DEF HealthInit
<1> QED BY <1>4, <1>5, <1>6 DEF HealthIInv, PromiseKept, NotBehind

\* The evaluations after a release: whoever had read one of the routes is overtaken.
LEMMA OvertakenFields ==
  ASSUME HealthTypeOK, NEW routes, NEW e \in Evaluators
  PROVE  LET then == Overtaken(routes)[e]
         IN /\ then.pc = eval[e].pc /\ then.route = eval[e].route /\ then.at = eval[e].at /\ then.seen = eval[e].seen
            /\ ~then.overtaken => ~eval[e].overtaken /\ ~(eval[e].pc = "read" /\ eval[e].route \in routes)
  BY DEF Overtaken, HealthTypeOK, Evaluation

\* Every step of an evaluation, and a restart, keeps the invariant.
LEMMA EvaluatorKeeps ==
  ASSUME HealthIInv, NEW e \in Evaluators, EvaluatorStep(e)
  PROVE  HealthIInv'
<1> USE HealthPartsTyped DEF HealthIInv
<1>0. eval[e] \in Evaluation /\ HealthTypeOK /\ DOMAIN eval = Evaluators /\ DOMAIN health = Rows
      /\ DOMAIN promised = PausedRoutes
  BY DEF HealthTypeOK
<1>1. CASE \E r \in PausedRoutes : ScheduleCacheHealthEvaluation(e, r)
  <2>1. PICK r \in PausedRoutes : ScheduleCacheHealthEvaluation(e, r)
    BY <1>1
  <2> DEFINE job == [Asleep EXCEPT !.pc = "scheduled", !.route = r]
  <2>2. job \in Evaluation /\ job.pc = "scheduled" /\ job.route = r
    BY DEF Evaluation
  <2>3. eval' = [eval EXCEPT ![e] = job]
    BY <2>1 DEF ScheduleCacheHealthEvaluation
  <2>4. HealthTypeOK'
    BY <2>1, <2>2, <2>3 DEF ScheduleCacheHealthEvaluation, HealthTypeOK
  <2>5. UNCHANGED <<clock, health, promised>>
    BY <2>1 DEF ScheduleCacheHealthEvaluation
  <2> QED BY <1>0, <2>2, <2>3, <2>4, <2>5 DEF PromiseKept, NotBehind
<1>2. CASE AggregateUsage(e)
  <2>1. UNCHANGED <<clock, policy, health, release, promised, budget>> /\ eval[e].route \in PausedRoutes
    BY <1>2 DEF AggregateUsage, HealthTypeOK
  <2>2. CASE eval' = [eval EXCEPT ![e] = Asleep]
    BY <1>0, <2>1, <2>2 DEF HealthTypeOK, PromiseKept, NotBehind
  <2>3. ASSUME NEW count \in MinRequests, NEW low \in BOOLEAN,
               eval' = [eval EXCEPT ![e].pc = "counted", ![e].at = clock, ![e].count = count, ![e].low = low]
        PROVE  HealthIInv'
    <3> DEFINE job == [eval[e] EXCEPT !.pc = "counted", !.at = clock, !.count = count, !.low = low]
    <3>1. job \in Evaluation /\ job.pc = "counted" /\ job.at = clock /\ job.route = eval[e].route
      BY <1>0, HealthBounds DEF Evaluation, HealthTypeOK
    <3>2. eval' = [eval EXCEPT ![e] = job]
      BY <2>3
    <3>3. HealthTypeOK'
      BY <2>1, <3>1, <3>2 DEF HealthTypeOK
    <3> QED BY <1>0, <2>1, <3>1, <3>2, <3>3 DEF PromiseKept, NotBehind
  <2> QED BY <1>2, <2>2, <2>3 DEF AggregateUsage
<1>3. CASE ReadHealthState(e)
  <2> DEFINE job == [eval[e] EXCEPT !.pc = "read", !.seen = health[eval[e].route]]
  <2>1. eval[e].route \in PausedRoutes /\ health[eval[e].route] \in HealthRow /\ eval[e].pc = "counted"
    BY <1>3 DEF ReadHealthState, HealthTypeOK
  <2>2. /\ job \in Evaluation /\ job.pc = "read" /\ job.at = eval[e].at /\ job.route = eval[e].route
        /\ job.seen = health[eval[e].route]
    BY <1>0, <2>1 DEF Evaluation
  <2>3. eval' = [eval EXCEPT ![e] = job] /\ UNCHANGED <<clock, policy, health, release, promised, budget>>
    BY <1>3 DEF ReadHealthState
  <2>4. HealthTypeOK'
    BY <2>1, <2>2, <2>3 DEF HealthTypeOK
  <2> QED BY <1>0, <2>1, <2>2, <2>3, <2>4 DEF PromiseKept, NotBehind
<1>4. CASE UpsertCacheHealth(e)
  <2>0. PICK r \in PausedRoutes : eval[e].route = r
    BY <1>4 DEF UpsertCacheHealth, HealthTypeOK
  <2>1. r \in PausedRoutes /\ eval[e].pc = "read" /\ eval[e].at = clock
    BY <1>4 DEF UpsertCacheHealth, HealthTypeOK, NotBehind
  <2>2. /\ eval' = [eval EXCEPT ![e] = Asleep] /\ UNCHANGED <<clock, policy, release, budget>>
        /\ health' = [health EXCEPT ![r] = Evaluated(e)]
        /\ promised' = IF eval[e].overtaken THEN [promised EXCEPT ![r] = 0] ELSE promised
    BY <1>4, <2>0 DEF UpsertCacheHealth
  <2>3. HealthTypeOK'
    BY <2>1, <2>2 DEF HealthTypeOK
  <2>a. clock \in Nat /\ promised[r] \in Nat /\ eval[e].seen.grace \in Nat
    BY <1>0, <2>1 DEF HealthTypeOK, Evaluation, HealthRow
  <2>b. NotBehind(e) /\ PromiseKept(r)
    BY <2>1
  <2>4. ~eval[e].overtaken /\ promised[r] > clock => eval[e].seen.grace > clock /\ eval[e].seen.grace >= promised[r]
    BY <2>0, <2>1, <2>a, <2>b DEF NotBehind
  <2>5. eval[e].seen.grace > clock =>
          Evaluated(e).there /\ Evaluated(e).black = 0 /\ Evaluated(e).grace = eval[e].seen.grace
    BY <2>1 DEF Evaluated
  <2>6. PromiseKept(r)'
    <3>1. health'[r] = Evaluated(e) /\ clock' = clock /\ promised'[r] = IF eval[e].overtaken THEN 0 ELSE promised[r]
      BY <1>0, <2>1, <2>2
    <3> QED BY <2>4, <2>5, <2>a, <3>1 DEF PromiseKept
  <2>7. \A q \in PausedRoutes \ {r} : PromiseKept(q)'
    BY <1>0, <2>1, <2>2 DEF PromiseKept
  <2>8. ASSUME NEW f \in Evaluators PROVE NotBehind(f)'
    BY <1>0, <2>1, <2>2 DEF NotBehind, HealthTypeOK
  <2>9. \A q \in PausedRoutes : PromiseKept(q)'
    BY <2>6, <2>7
  <2> QED BY <2>3, <2>8, <2>9
<1>5. CASE ReconcileInitialCacheHealthPolicies(e)
  <2>1. /\ eval' = [eval EXCEPT ![e] = Asleep] /\ UNCHANGED <<clock, policy, release>>
        /\ health' = [r \in Rows |-> IF ~policy.on THEN Unrestricted(health[r])
                                     ELSE IF health[r].count < policy.min THEN [health[r] EXCEPT !.black = 0]
                                     ELSE health[r]]
        /\ promised' = IF policy.on THEN promised ELSE [r \in PausedRoutes |-> 0]
        /\ budget' = [budget EXCEPT !.restarts = @ - 1] /\ budget.restarts > 0
    BY <1>5 DEF ReconcileInitialCacheHealthPolicies
  <2>2. \A r \in Rows : health[r] \in HealthRow
    BY DEF HealthTypeOK
  <2>3. \A r \in Rows : health'[r] \in HealthRow
    BY <2>1, <2>2 DEF HealthRow, Unrestricted
  <2>4. budget' \in [usages : Nat, releases : Nat, saves : Nat, restarts : Nat]
    BY <2>1 DEF HealthTypeOK
  <2>5. HealthTypeOK'
    BY <1>0, <2>1, <2>3, <2>4 DEF HealthTypeOK
  <2>6. \A r \in PausedRoutes : PromiseKept(r)'
    BY <1>0, <2>1, <2>2 DEF PromiseKept, HealthRow, HealthTypeOK
  <2>7. \A f \in Evaluators : NotBehind(f)'
    BY <1>0, <2>1 DEF NotBehind, HealthTypeOK
  <2> QED BY <2>5, <2>6, <2>7
<1> QED BY <1>1, <1>2, <1>3, <1>4, <1>5 DEF EvaluatorStep

\* Every step keeps the invariant.
LEMMA HealthStepIInv == HealthIInv /\ [HealthNext]_healthVars => HealthIInv'
<1> SUFFICES ASSUME HealthIInv, [HealthNext]_healthVars PROVE HealthIInv'
  OBVIOUS
<1>0. HealthTypeOK /\ DOMAIN eval = Evaluators /\ DOMAIN health = Rows /\ DOMAIN promised = PausedRoutes
  BY DEF HealthIInv, HealthTypeOK
<1> USE <1>0, HealthPartsTyped DEF HealthIInv
<1>1. CASE \E r \in PausedRoutes : ReadForRelease(r)
  BY <1>1 DEF ReadForRelease, HealthTypeOK, Release, PromiseKept, NotBehind
<1>2. CASE ClearCacheHealthBlacklistForRoute
  <2> DEFINE r == release.route
             state == [release.seen EXCEPT !.there = TRUE, !.black = 0, !.grace = Grace]
  <2>1. r \in PausedRoutes /\ release.seen \in HealthRow
    BY <1>2 DEF ClearCacheHealthBlacklistForRoute, HealthTypeOK, Release
  <2>2. state \in HealthRow /\ state.there /\ state.black = 0 /\ state.grace = Grace
    BY <2>1 DEF HealthRow
  <2>3. /\ health' = [health EXCEPT ![r] = state] /\ promised' = [promised EXCEPT ![r] = Grace]
        /\ eval' = Overtaken({r}) /\ release' = NoRelease /\ UNCHANGED <<clock, policy, budget>>
    BY <1>2 DEF ClearCacheHealthBlacklistForRoute
  <2>4. HealthTypeOK'
    BY <2>1, <2>2, <2>3, OvertakenFields DEF HealthTypeOK, NoRelease
  <2>5. \A q \in PausedRoutes : PromiseKept(q)'
    BY <2>1, <2>2, <2>3 DEF PromiseKept
  <2>6. ASSUME NEW e \in Evaluators PROVE NotBehind(e)'
    <3>1. LET then == Overtaken({r})[e]
          IN /\ then.pc = eval[e].pc /\ then.route = eval[e].route /\ then.at = eval[e].at /\ then.seen = eval[e].seen
             /\ ~then.overtaken => ~eval[e].overtaken /\ ~(eval[e].pc = "read" /\ eval[e].route \in {r})
      BY OvertakenFields
    <3> QED BY <2>1, <2>3, <3>1 DEF NotBehind, HealthTypeOK
  <2> QED BY <2>4, <2>5, <2>6
<1>3. CASE ClearCacheHealthBlacklistForGroup
  <2> DEFINE routes == {r \in PausedRoutes : health[r].there}
  <2>1. /\ health' = [r \in Rows |-> IF health[r].there THEN [health[r] EXCEPT !.black = 0, !.grace = Grace] ELSE NoState]
        /\ promised' = [r \in PausedRoutes |-> IF health[r].there THEN Grace ELSE promised[r]]
        /\ eval' = Overtaken(routes) /\ UNCHANGED <<clock, policy, release>>
        /\ budget' = [budget EXCEPT !.releases = @ - 1] /\ budget.releases > 0
    BY <1>3 DEF ClearCacheHealthBlacklistForGroup
  <2>2. \A r \in Rows : health[r] \in HealthRow
    BY DEF HealthTypeOK
  <2>3. \A r \in Rows : health'[r] \in HealthRow
    BY <2>1, <2>2 DEF HealthRow
  <2>4. budget' \in [usages : Nat, releases : Nat, saves : Nat, restarts : Nat]
    <3>1. budget \in [usages : Nat, releases : Nat, saves : Nat, restarts : Nat]
      BY DEF HealthTypeOK
    <3>2. budget' = [budget EXCEPT !.releases = budget.releases - 1] /\ budget.releases > 0
      BY <2>1
    <3> HIDE <1>0
    <3> QED BY <3>1, <3>2
  <2>a. promised' \in [PausedRoutes -> Nat]
    BY <2>1 DEF HealthTypeOK
  <2>b. eval' \in [Evaluators -> Evaluation] /\ \A e \in Evaluators : eval'[e].pc # "idle" => eval'[e].route \in PausedRoutes
    <3>1. ASSUME NEW e \in Evaluators PROVE eval'[e].pc = eval[e].pc /\ eval'[e].route = eval[e].route
      <4>1. Overtaken(routes)[e].pc = eval[e].pc /\ Overtaken(routes)[e].route = eval[e].route
        BY OvertakenFields
      <4> QED BY <2>1, <4>1
    <3>2. \A e \in Evaluators : eval[e].pc # "idle" => eval[e].route \in PausedRoutes
      BY DEF HealthTypeOK
    <3>3. eval' \in [Evaluators -> Evaluation]
      BY <2>1
    <3> QED BY <3>1, <3>2, <3>3
  <2>5. HealthTypeOK'
    BY <2>1, <2>3, <2>4, <2>a, <2>b DEF HealthTypeOK
  <2>6. \A q \in PausedRoutes : PromiseKept(q)'
    <3> SUFFICES ASSUME NEW q \in PausedRoutes PROVE PromiseKept(q)'
      OBVIOUS
    <3>1. q \in Rows /\ health[q] \in HealthRow /\ PromiseKept(q)
      BY <2>2
    <3>2. health[q].there => health'[q].there /\ health'[q].black = 0 /\ health'[q].grace = Grace
      BY <2>1, <3>1 DEF HealthRow
    <3>3. promised'[q] = (IF health[q].there THEN Grace ELSE promised[q]) /\ clock' = clock
      BY <2>1
    <3> QED BY <3>1, <3>2, <3>3 DEF PromiseKept
  <2>7. ASSUME NEW e \in Evaluators PROVE NotBehind(e)'
    <3>1. LET then == Overtaken(routes)[e]
          IN /\ then.pc = eval[e].pc /\ then.route = eval[e].route /\ then.at = eval[e].at /\ then.seen = eval[e].seen
             /\ ~then.overtaken => ~eval[e].overtaken /\ ~(eval[e].pc = "read" /\ eval[e].route \in routes)
      BY OvertakenFields
    <3>2. eval[e].pc = "read" => eval[e].route \in PausedRoutes
      BY DEF HealthTypeOK
    <3> QED BY <2>1, <3>1, <3>2 DEF NotBehind
  <2> QED BY <2>5, <2>6, <2>7
<1>4. CASE SavePolicy
  <2>1. policy' \in [on : BOOLEAN, min : Nat, pc : {"idle", "saved"}]
    BY <1>4, HealthBounds DEF SavePolicy
  <2>2. budget' \in [usages : Nat, releases : Nat, saves : Nat, restarts : Nat]
    BY <1>4 DEF SavePolicy, HealthTypeOK
  <2> QED BY <1>4, <2>1, <2>2 DEF SavePolicy, HealthTypeOK, PromiseKept, NotBehind
<1>5. CASE ResetCacheHealthForGroup
  <2>1. HealthTypeOK'
    BY <1>5 DEF ResetCacheHealthForGroup, HealthTypeOK
  <2>2. \A r \in PausedRoutes : promised'[r] = 0 /\ ~(0 > clock')
    BY <1>5 DEF ResetCacheHealthForGroup, HealthTypeOK
  <2>3. \A e \in Evaluators : NotBehind(e)'
    BY <1>5, <2>2 DEF ResetCacheHealthForGroup, NotBehind, HealthTypeOK
  <2> QED BY <2>1, <2>2, <2>3 DEF PromiseKept
<1>6. CASE HealthTick
  BY <1>6 DEF HealthTick, HealthTypeOK, PromiseKept, NotBehind
<1>7. CASE UNCHANGED healthVars
  BY <1>7 DEF healthVars, HealthTypeOK, PromiseKept, NotBehind
<1> QED BY <1>1, <1>2, <1>3, <1>4, <1>5, <1>6, <1>7, EvaluatorKeeps DEF HealthNext

\* Every reachable state has the types, keeps the promises and lets no evaluation fall
\* behind unnoticed.
THEOREM HealthInvariant == HealthSpec => []HealthIInv
  BY HealthInitIInv, HealthStepIInv, PTL DEF HealthSpec

\* A route that an operator has released is not paused again within its grace, for any
\* number of evaluations, instances, restarts and saved settings between.
THEOREM ReleaseStandsHolds == HealthSpec => []ReleaseStands
<1>1. HealthIInv => ReleaseStands
  BY DEF HealthIInv, HealthTypeOK, PromiseKept, ReleaseStands, Paused, StateOf
<1> QED BY <1>1, HealthInvariant, PTL

-----------------------------------------------------------------------------
(* Model cooldowns. *)

\* The bounds as a record.
UsedTyped == used \in [faults : Nat, asks : Nat, saves : Nat, of : Scenarios]

\* A claim leaves the row with a time.
ProbingHasTime == row.status = "probing" => row.until # Null

\* Unless an operator asked for a probe: nobody has selected a row without its
\* being due, and only a failure that is not over pauses the row.
NobodyAsked == \A p \in Probers : prober[p].pc # "asked"
QuietRows == row.gen = NoGen \/ row.streak > 0 => row.until = Null

\* The request of a generation has recorded its failure, which it does once.
GenerationsEnd ==
  /\ row.gen \in Requests => req[row.gen].pc = "ended"
  /\ \A p \in Probers : prober[p].gen \in Requests => req[prober[p].gen].pc = "ended"

\* The probe of p that is within its lease is of a failure, and holds the row
\* if the row is still of that failure and not released.
ClaimHeld(p) ==
  Probing(p) /\ Live(prober[p].lease) =>
    /\ prober[p].gen \in Requests
    /\ row.gen = prober[p].gen /\ row.until # Null =>
         row.status = "probing" /\ row.owner = p /\ row.lease = prober[p].lease

Exclusive ==
  \A p, q \in Probers :
    p # q /\ Probing(p) /\ Probing(q) /\ Live(prober[p].lease) /\ Live(prober[q].lease)
      => prober[p].gen # prober[q].gen

Unasked ==
  used.asks = 0 =>
    NobodyAsked /\ QuietRows /\ Exclusive /\ \A p \in Probers : ClaimHeld(p)

IInv == TypeOK /\ UsedTyped /\ ProbingHasTime /\ GenerationsEnd /\ Unasked

\* A success counts in two statements.  When a failure is recorded between them
\* the second one sees it: it never wipes a row that is paused.
WipeSparesPauses ==
  [][\A r \in Requests : WipeAfterStreak(r) /\ used.asks = 0 /\ row.until # Null => row' = row]_vars

USE TimesSound, NamesApart DEF Probers

-----------------------------------------------------------------------------
(* Types: what the statements write. *)

\* No pause is not a time.
LEMMA NullIsNoTime == Null \in Time /\ Null \notin Nat /\ Nat \subseteq Time /\ Lease \in Time
BY DEF Time, Null

\* A released row is a row.
LEMMA ReleasedTyped ==
  ASSUME NEW c \in Row, NEW st \in {"manual", "healthy"}
  PROVE  Released(c, st) \in Row
BY NullIsNoTime DEF Released, Row

\* So is the absent one.
LEMMA NoRowTyped == NoRow \in Row /\ \A st \in {"", "manual"} : [NoRow EXCEPT !.status = st] \in Row
BY NullIsNoTime DEF NoRow, Row, Generation, Waiting

\* A row after a failure.
LEMMA FailedTyped ==
  ASSUME NEW r \in Requests, NEW pause \in Pauses, NEW armed \in BOOLEAN
  PROVE  FailedBy(r, pause, armed) \in Row
<1>1. pause \in Nat /\ FirstProbe(pause) \in Nat
      BY DEF FirstProbe
<1> QED
    BY <1>1, NullIsNoTime DEF FailedBy, Row, Generation, Waiting

\* A row whose probe was claimed.
LEMMA ClaimedTyped ==
  ASSUME NEW c \in Row, NEW p \in Probers, NEW hold \in Time
  PROVE  ClaimedBy(p, c, hold) \in Row
BY NullIsNoTime DEF ClaimedBy, Row

\* A row as time passes.
LEMMA AgedTyped ==
  ASSUME NEW t \in Time
  PROVE  Aged(t) \in Time /\ (Aged(t) = Null <=> t = Null) /\ (Live(Aged(t)) => Live(t))
BY DEF Aged, Live, Time, Null

\* A row that waits for its next probe.
LEMMA RearmedTyped ==
  ASSUME NEW until \in Time, NEW next \in Time, NEW pc
  PROVE  Rearmed([pc |-> pc, until |-> until, next |-> next]) \in Time
BY DEF Rearmed, FirstProbe, Time, Null

\* A probe that is free.
LEMMA FreeTyped ==
  ASSUME NEW pc \in {"new", "passed", "ended"}, NEW gen \in Generation
  PROVE  Free(pc, gen) \in Request
BY NullIsNoTime DEF Free, Request

\* A request that goes on, or fails, keeps its type.
LEMMA RequestTyped ==
  ASSUME NEW x \in Request, NEW b \in BOOLEAN
  PROVE  /\ [x EXCEPT !.pc = "running", !.until = Null, !.notes = b] \in Request
         /\ [x EXCEPT !.pc = "failing", !.armed = b] \in Request
<1>1. CASE b = TRUE
  <2>1. [x EXCEPT !.pc = "running", !.until = Null, !.notes = TRUE] \in Request
        BY NullIsNoTime DEF Request
  <2>2. [x EXCEPT !.pc = "failing", !.armed = TRUE] \in Request
        BY DEF Request
  <2> QED
      BY <1>1, <2>1, <2>2
<1>2. CASE b = FALSE
  <2>1. [x EXCEPT !.pc = "running", !.until = Null, !.notes = FALSE] \in Request
        BY NullIsNoTime DEF Request
  <2>2. [x EXCEPT !.pc = "failing", !.armed = FALSE] \in Request
        BY DEF Request
  <2> QED
      BY <1>2, <2>1, <2>2
<1> QED
    BY <1>1, <1>2

\* A prober at rest.
LEMMA AtRestTyped == AtRest \in Prober /\ NotSaving \in [pc : {"idle", "saved", "selected"}, until : Time, next : Time]
BY NullIsNoTime DEF AtRest, Prober, Generation, NotSaving

\* What is scheduled, passed, finished, looked at or held keeps its type.
LEMMA HelpersTyped ==
  ASSUME TypeOK
  PROVE  /\ \A r \in Requests, pc \in {"recovering", "running"}, c \in Row :
              Schedule(r, pc, c) => req' \in [Requests -> Request]
         /\ \A r \in Requests : Pass(r) \/ Finish(r) => req' \in [Requests -> Request]
         /\ \A p \in Probers, pc \in {"due", "asked"} : Look(p, pc) => prober' \in [Probers -> Prober]
         /\ \A p \in Probers : Hold(p) \/ Rest(p) => prober' \in [Probers -> Prober]
<1>1. ASSUME NEW r \in Requests, NEW pc \in {"recovering", "running"}, NEW c \in Row, Schedule(r, pc, c)
      PROVE  req' \in [Requests -> Request]
  <2>1. [pc |-> pc, gen |-> c.gen, until |-> IF pc = "recovering" THEN c.until ELSE Null,
         notes |-> c.gen # NoGen \/ c.until # Null \/ c.streak > 0, armed |-> FALSE] \in Request
        BY NullIsNoTime DEF Request, Row
  <2> QED
      BY <1>1, <2>1 DEF Schedule, TypeOK
<1>2. ASSUME NEW r \in Requests, Pass(r) \/ Finish(r) PROVE req' \in [Requests -> Request]
  <2>1. req[r].gen \in Generation
        BY DEF TypeOK, Request
  <2>2. Free("passed", req[r].gen) \in Request /\ Free("ended", NoGen) \in Request
        BY <2>1, FreeTyped DEF Generation
  <2> QED
      BY <1>2, <2>2 DEF Pass, Finish, TypeOK
<1>3. ASSUME NEW p \in Probers, NEW pc \in {"due", "asked"}, Look(p, pc) PROVE prober' \in [Probers -> Prober]
  <2>1. [AtRest EXCEPT !.pc = pc, !.gen = row.gen, !.until = row.until] \in Prober
        BY NullIsNoTime DEF AtRest, Prober, Generation, TypeOK, Row
  <2> QED
      BY <1>3, <2>1 DEF Look, TypeOK
<1>4. ASSUME NEW p \in Probers, Hold(p) PROVE prober' \in [Probers -> Prober]
      BY <1>4, NullIsNoTime DEF Hold, TypeOK, Prober
<1>5. ASSUME NEW p \in Probers, Rest(p) PROVE prober' \in [Probers -> Prober]
      BY <1>5, AtRestTyped DEF Rest, TypeOK
<1> QED
    BY <1>1, <1>2, <1>3, <1>4, <1>5

\* The initial state is well typed.
LEMMA InitTyped == Init => TypeOK /\ UsedTyped
<1> SUFFICES ASSUME Init PROVE TypeOK /\ UsedTyped
    OBVIOUS
<1>1. PICK s \in Scenarios : /\ req = [r \in Requests |-> Free(IF r \in s.requests THEN "new" ELSE "ended", NoGen)]
                             /\ used = [faults |-> 0, asks |-> 0, saves |-> 0, of |-> s]
      BY DEF Init
<1>2. req \in [Requests -> Request]
      BY <1>1, FreeTyped DEF Generation
<1>3. UsedTyped /\ used.of \in Scenarios /\ \A what \in {"faults", "asks", "saves"} : used[what] \in 0..used.of[what]
      BY <1>1 DEF UsedTyped
<1>4. row \in Row /\ prober \in [Probers -> Prober] /\ enabled \in BOOLEAN
      BY NoRowTyped, AtRestTyped DEF Init
<1> QED
    BY <1>2, <1>3, <1>4, AtRestTyped DEF Init, TypeOK

\* The bounds: what a step uses up is counted, never more than the scenario has.
LEMMA UsedStep ==
  ASSUME TypeOK, UsedTyped,
         \/ used' = used
         \/ used.faults < used.of.faults /\ used' = [used EXCEPT !.faults = @ + 1]
         \/ used.asks < used.of.asks /\ used' = [used EXCEPT !.asks = @ + 1]
         \/ used.saves < used.of.saves /\ used' = [used EXCEPT !.saves = @ + 1]
  PROVE  /\ UsedTyped' /\ (used'.asks = 0 => used.asks = 0)
         /\ used'.of \in Scenarios /\ \A what \in {"faults", "asks", "saves"} : used'[what] \in 0..used'.of[what]
<1>1. used \in [faults : Nat, asks : Nat, saves : Nat, of : Scenarios]
      BY DEF UsedTyped
<1>2. used.of.faults \in Nat /\ used.of.asks \in Nat /\ used.of.saves \in Nat
      BY <1>1
<1>3. used.faults \in 0..used.of.faults /\ used.asks \in 0..used.of.asks /\ used.saves \in 0..used.of.saves
      BY DEF TypeOK
<1> QED
    BY <1>1, <1>2, <1>3 DEF UsedTyped

\* Every step keeps the types.
LEMMA StepTyped == TypeOK /\ UsedTyped /\ [Next]_vars => TypeOK' /\ UsedTyped' /\ (used'.asks = 0 => used.asks = 0)
<1> SUFFICES ASSUME TypeOK, UsedTyped, [Next]_vars PROVE TypeOK' /\ UsedTyped' /\ (used'.asks = 0 => used.asks = 0)
    OBVIOUS
<1>0. /\ row \in Row /\ req \in [Requests -> Request] /\ prober \in [Probers -> Prober] /\ enabled \in BOOLEAN
      /\ config \in [pc : {"idle", "saved", "selected"}, until : Time, next : Time]
      BY DEF TypeOK
<1>1. UsedTyped' /\ (used'.asks = 0 => used.asks = 0)
      /\ used'.of \in Scenarios /\ \A what \in {"faults", "asks", "saves"} : used'[what] \in 0..used'.of[what]
  <2>1. \/ used' = used
        \/ used.faults < used.of.faults /\ used' = [used EXCEPT !.faults = @ + 1]
        \/ used.asks < used.of.asks /\ used' = [used EXCEPT !.asks = @ + 1]
        \/ used.saves < used.of.saves /\ used' = [used EXCEPT !.saves = @ + 1]
        BY DEF Next, vars, RequestStep, ProbeStep, Begin, BeginRecovery, Recover, Succeed, WipeAfterStreak,
           Fail, RecordFailure, Leave, SelectDue, ClaimDue, SelectAny, ClaimNow, ProbeSucceeds, ProbeFails,
           RecordProbeFailure, LoseProber, ClearTempUnschedulable, UpdateGatewayConfig, SelectRows, ConfigureRow, Tick
  <2> QED
      BY <2>1, UsedStep
<1>2. req' \in [Requests -> Request]
  <2>1. CASE req' = req
        BY <1>0, <2>1
  <2>2. ASSUME NEW r \in Requests, RequestStep(r) PROVE req' \in [Requests -> Request]
    <3>1. CASE Begin(r)
      <4>1. [row EXCEPT !.until = Null] \in Row
            BY <1>0, NullIsNoTime DEF Row
      <4> QED
          BY <1>0, <3>1, <4>1, HelpersTyped DEF Begin
    <3>2. CASE BeginRecovery(r)
          BY <1>0, <3>2, HelpersTyped DEF BeginRecovery
    <3>3. CASE Recover(r)
      <4>1. CASE Finish(r)
            BY <4>1, HelpersTyped
      <4>2. CASE req' = [req EXCEPT ![r] = [@ EXCEPT !.pc = "running", !.until = Null, !.notes = req[r].gen # NoGen]]
        <5>1. req[r] \in Request
              BY <1>0
        <5>2. (req[r].gen # NoGen) \in BOOLEAN
              OBVIOUS
        <5>3. [req[r] EXCEPT !.pc = "running", !.until = Null, !.notes = req[r].gen # NoGen] \in Request
              BY <5>1, <5>2, RequestTyped, Zenon
        <5> QED
            BY <1>0, <4>2, <5>3
      <4> QED
          BY <3>3, <4>1, <4>2 DEF Recover
    <3>4. CASE Succeed(r)
      <4>1. CASE Pass(r)
            BY <4>1, HelpersTyped
      <4>2. CASE req' = [req EXCEPT ![r].pc = "noting"]
            BY <1>0, <4>2 DEF Request
      <4> QED
          BY <3>4, <4>1, <4>2 DEF Succeed
    <3>5. CASE WipeAfterStreak(r)
          BY <3>5, HelpersTyped DEF WipeAfterStreak
    <3>6. CASE Fail(r)
      <4>1. PICK probeable \in BOOLEAN :
               req' = [req EXCEPT ![r] = [@ EXCEPT !.pc = "failing", !.armed = enabled /\ probeable]]
            BY <3>6 DEF Fail
      <4>2. req[r] \in Request
            BY <1>0
      <4>3. (enabled /\ probeable) \in BOOLEAN
            OBVIOUS
      <4>4. [req[r] EXCEPT !.pc = "failing", !.armed = enabled /\ probeable] \in Request
            BY <4>2, <4>3, RequestTyped, Zenon
      <4> QED
          BY <1>0, <4>1, <4>4
    <3>7. CASE RecordFailure(r) \/ Leave(r)
          BY <3>7, HelpersTyped DEF RecordFailure, Leave
    <3> QED
        BY <2>2, <3>1, <3>2, <3>3, <3>4, <3>5, <3>6, <3>7 DEF RequestStep
  <2> QED
      BY <2>1, <2>2 DEF Next, vars, SelectDue, ClaimDue, SelectAny, ClaimNow, ProbeStep, ProbeSucceeds, ProbeFails,
         RecordProbeFailure, LoseProber, ClearTempUnschedulable, UpdateGatewayConfig, SelectRows, ConfigureRow, Tick
<1>3. prober' \in [Probers -> Prober]
  <2>1. CASE prober' = prober
        BY <1>0, <2>1
  <2>2. ASSUME NEW p \in Probers, Look(p, "due") \/ Look(p, "asked") \/ Hold(p) \/ Rest(p)
        PROVE  prober' \in [Probers -> Prober]
        BY <2>2, HelpersTyped
  <2>3. ASSUME NEW p \in Probers, ProbeFails(p) PROVE prober' \in [Probers -> Prober]
        BY <1>0, <2>3 DEF ProbeFails, Prober
  <2>4. CASE Tick
    <3>1. ASSUME NEW p \in Probers PROVE [prober[p] EXCEPT !.lease = Aged(@)] \in Prober
          BY <1>0, AgedTyped DEF Prober
    <3> QED
        BY <2>4, <3>1 DEF Tick
  <2> QED
      BY <2>1, <2>2, <2>3, <2>4 DEF Next, vars, RequestStep, Begin, BeginRecovery, Recover, Succeed, WipeAfterStreak,
         Fail, RecordFailure, Leave, SelectDue, ClaimDue, SelectAny, ClaimNow, ProbeStep, ProbeSucceeds,
         RecordProbeFailure, LoseProber, ClearTempUnschedulable, UpdateGatewayConfig, SelectRows, ConfigureRow
<1>4. row' \in Row
  <2>1. CASE row' = row
        BY <1>0, <2>1
  <2>2. ASSUME NEW r \in Requests, RequestStep(r) PROVE row' \in Row
    <3>1. CASE Recover(r)
          BY <1>0, <3>1, ReleasedTyped DEF Recover
    <3>2. CASE Succeed(r)
      <4>1. Released(row, "healthy") \in Row
            BY <1>0, ReleasedTyped
      <4>2. [Released(row, "healthy") EXCEPT !.streak = @ + 1] \in Row
            BY <4>1 DEF Row
      <4> QED
          BY <1>0, <3>2, <4>2 DEF Succeed
    <3>3. CASE WipeAfterStreak(r)
          BY <1>0, <3>3, NoRowTyped DEF WipeAfterStreak
    <3>4. CASE RecordFailure(r)
      <4>1. req[r].armed \in BOOLEAN
            BY <1>0 DEF Request
      <4> QED
          BY <3>4, <4>1, FailedTyped DEF RecordFailure
    <3>5. CASE row' = row
          BY <1>0, <3>5
    <3> QED
        BY <2>2, <3>1, <3>2, <3>3, <3>4, <3>5 DEF RequestStep, Begin, BeginRecovery, Fail, Leave
  <2>3. ASSUME NEW w \in Workers, ClaimDue(w) PROVE row' \in Row
        BY <1>0, <2>3, ClaimedTyped DEF ClaimDue, Prober
  <2>4. ASSUME NEW o \in Operators, ClaimNow(o) PROVE row' \in Row
    <3>1. ClaimedBy(o, row, prober[o].until) \in Row
          BY <1>0, ClaimedTyped DEF Prober
    <3>2. [ClaimedBy(o, row, prober[o].until) EXCEPT !.next = 0] \in Row
          BY <3>1, NullIsNoTime DEF Row
    <3> QED
        BY <1>0, <2>4, <3>2 DEF ClaimNow
  <2>5. ASSUME NEW p \in Probers, ProbeStep(p) PROVE row' \in Row
    <3>1. CASE ProbeSucceeds(p)
          BY <1>0, <3>1, ReleasedTyped DEF ProbeSucceeds
    <3>2. CASE RecordProbeFailure(p)
      <4>1. \A backoff \in Backoffs :
              [row EXCEPT !.until = backoff, !.next = backoff, !.lease = Null,
                          !.owner = Nobody, !.status = "unhealthy"] \in Row
            BY <1>0, NullIsNoTime DEF Row, Waiting
      <4>2. [row EXCEPT !.next = Null, !.lease = Null, !.owner = Nobody, !.status = "manual"] \in Row
            BY <1>0, NullIsNoTime DEF Row, Waiting
      <4>3. CASE row' = row
            BY <1>0, <4>3
      <4>4. CASE Owns(p) /\ prober[p].armed /\ row' # row
        <5>1. PICK backoff \in Backoffs :
                 row' = [row EXCEPT !.until = backoff, !.next = backoff, !.lease = Null,
                                    !.owner = Nobody, !.status = "unhealthy"]
              BY <3>2, <4>4 DEF RecordProbeFailure
        <5> QED
            BY <4>1, <5>1
      <4>5. CASE Owns(p) /\ ~prober[p].armed /\ row' # row
            BY <3>2, <4>2, <4>5 DEF RecordProbeFailure
      <4> QED
          BY <3>2, <4>3, <4>4, <4>5 DEF RecordProbeFailure
    <3> QED
        BY <1>0, <2>5, <3>1, <3>2 DEF ProbeStep, ProbeFails, LoseProber
  <2>6. CASE ClearTempUnschedulable
        BY <2>6, NoRowTyped DEF ClearTempUnschedulable
  <2>7. CASE ConfigureRow
    <3>1. Rearmed(config) \in Time
      <4>1. config = [pc |-> config.pc, until |-> config.until, next |-> config.next]
            BY <1>0
      <4> QED
          BY <1>0, <4>1, RearmedTyped
    <3>2. [row EXCEPT !.next = Rearmed(config), !.status = "pending"] \in Row
          BY <1>0, <3>1 DEF Row, Waiting
    <3>3. [row EXCEPT !.next = Null, !.lease = Null, !.owner = Nobody, !.status = "manual"] \in Row
          BY <1>0, NullIsNoTime DEF Row, Waiting
    <3> QED
        BY <1>0, <2>7, <3>2, <3>3 DEF ConfigureRow
  <2>8. CASE Tick
    <3>1. row.until \in Time /\ row.next \in Time /\ row.lease \in Time
          BY <1>0 DEF Row
    <3>2. Aged(row.until) \in Time /\ Aged(row.next) \in Time /\ Aged(row.lease) \in Time
          BY <3>1, AgedTyped
    <3> QED
        BY <1>0, <2>8, <3>2 DEF Tick, Row
  <2> QED
      BY <2>1, <2>2, <2>3, <2>4, <2>5, <2>6, <2>7, <2>8
      DEF Next, vars, SelectDue, SelectAny, UpdateGatewayConfig, SelectRows
<1>5. enabled' \in BOOLEAN
      BY <1>0 DEF Next, vars, RequestStep, ProbeStep, Begin, BeginRecovery, Recover, Succeed, WipeAfterStreak,
         Fail, RecordFailure, Leave, SelectDue, ClaimDue, SelectAny, ClaimNow, ProbeSucceeds, ProbeFails,
         RecordProbeFailure, LoseProber, ClearTempUnschedulable, UpdateGatewayConfig, SelectRows, ConfigureRow, Tick
<1>6. config' \in [pc : {"idle", "saved", "selected"}, until : Time, next : Time]
  <2>1. CASE config' = config
        BY <1>0, <2>1
  <2>2. ASSUME NEW on \in BOOLEAN, UpdateGatewayConfig(on)
        PROVE  config' \in [pc : {"idle", "saved", "selected"}, until : Time, next : Time]
        BY <1>0, <2>2 DEF UpdateGatewayConfig
  <2>3. CASE SelectRows
        BY <1>0, <2>3, AtRestTyped DEF SelectRows, Row
  <2>4. CASE ConfigureRow
        BY <2>4, AtRestTyped DEF ConfigureRow
  <2> QED
      BY <2>1, <2>2, <2>3, <2>4 DEF Next, vars, RequestStep, ProbeStep, Begin, BeginRecovery, Recover, Succeed,
         WipeAfterStreak, Fail, RecordFailure, Leave, SelectDue, ClaimDue, SelectAny, ClaimNow, ProbeSucceeds,
         ProbeFails, RecordProbeFailure, LoseProber, ClearTempUnschedulable, Tick
<1> QED
    BY <1>1, <1>2, <1>3, <1>4, <1>5, <1>6 DEF TypeOK
-----------------------------------------------------------------------------
(* What a step makes of the requests, the probers and the row. *)

\* The periodic worker w gets the row it found due.
Claimed(w) ==
  /\ w \in Workers /\ Due(row) /\ row.gen = prober[w].gen
  /\ row' = ClaimedBy(w, row, prober[w].until) /\ Hold(w)

\* The probe of p is under way before and after the step.
GoesOn(p) == Probing(p) /\ prober'[p].gen = prober[p].gen /\ prober'[p].lease = prober[p].lease

\* A generation that has ended is not used again.
LEMMA EndedStays ==
  ASSUME TypeOK, [Next]_vars, NEW r \in Requests, req[r].pc = "ended"
  PROVE  req'[r].pc = "ended"
<1>0. req \in [Requests -> Request]
      BY DEF TypeOK
<1>1. CASE req' = req
      BY <1>1
<1>2. ASSUME NEW s \in Requests, RequestStep(s) PROVE req'[r].pc = "ended"
  <2>1. s # r
        BY <1>2 DEF RequestStep, Begin, BeginRecovery, Recover, Succeed, WipeAfterStreak, Fail, RecordFailure, Leave
  <2>2. \A x : req' = [req EXCEPT ![s] = x] => req'[r] = req[r]
        BY <1>0, <2>1
  <2>3. \E x : req' = [req EXCEPT ![s] = x]
        BY <1>2 DEF RequestStep, Begin, BeginRecovery, Recover, Succeed, WipeAfterStreak, Fail, RecordFailure, Leave,
           Schedule, Pass, Finish
  <2> QED
      BY <2>2, <2>3
<1> QED
    BY <1>1, <1>2 DEF Next, vars, SelectDue, ClaimDue, SelectAny, ClaimNow, ProbeStep, ProbeSucceeds, ProbeFails,
       RecordProbeFailure, LoseProber, ClearTempUnschedulable, UpdateGatewayConfig, SelectRows, ConfigureRow, Tick

\* What a step makes of a prober.
LEMMA ProberMoves ==
  ASSUME TypeOK, NEW p \in Probers
  PROVE  /\ \A pc \in {"due", "asked"} : Look(p, pc) =>
              /\ prober'[p].pc = pc /\ prober'[p].gen = row.gen
              /\ \A q \in Probers \ {p} : prober'[q] = prober[q]
         /\ Hold(p) =>
              /\ prober'[p].pc = "probing" /\ prober'[p].gen = prober[p].gen /\ prober'[p].lease = Lease
              /\ \A q \in Probers \ {p} : prober'[q] = prober[q]
         /\ Rest(p) =>
              /\ prober'[p].pc = "idle" /\ prober'[p].gen = NoGen
              /\ \A q \in Probers \ {p} : prober'[q] = prober[q]
<1>1. prober \in [Probers -> Prober] /\ prober[p] \in Prober
      BY DEF TypeOK
<1>2. \A pc \in {"due", "asked"} : Look(p, pc) =>
        /\ prober'[p].pc = pc /\ prober'[p].gen = row.gen
        /\ \A q \in Probers \ {p} : prober'[q] = prober[q]
      BY <1>1 DEF Look, AtRest
<1>3. ASSUME Hold(p)
      PROVE  /\ prober'[p].pc = "probing" /\ prober'[p].gen = prober[p].gen /\ prober'[p].lease = Lease
             /\ \A q \in Probers \ {p} : prober'[q] = prober[q]
      BY <1>1, <1>3 DEF Hold, Prober
<1>4. ASSUME Rest(p)
      PROVE  /\ prober'[p].pc = "idle" /\ prober'[p].gen = NoGen
             /\ \A q \in Probers \ {p} : prober'[q] = prober[q]
      BY <1>1, <1>4 DEF Rest, AtRest
<1> QED
    BY <1>2, <1>3, <1>4

\* The step of one prober leaves the others alone.
LEMMA ProberStep ==
  ASSUME TypeOK, [Next]_vars, ~Tick, NEW p \in Probers
  PROVE  /\ Probing(p)' => GoesOn(p) \/ Claimed(p) \/ prober[p].pc = "asked"
         /\ prober'[p].gen \in {prober[p].gen, row.gen, NoGen}
         /\ prober'[p].pc = "asked" => prober[p].pc = "asked" \/ used'.asks # 0
<1>0. prober \in [Probers -> Prober]
      BY DEF TypeOK
<1>1. CASE prober'[p] = prober[p]
      BY <1>1 DEF Probing, GoesOn
<1>2. ASSUME NEW w \in Workers, SelectDue(w) \/ ClaimDue(w), prober'[p] # prober[p]
      PROVE  /\ Probing(p)' => Claimed(p)
             /\ prober'[p].gen \in {prober[p].gen, row.gen, NoGen} /\ prober'[p].pc # "asked"
  <2>1. Look(w, "due") \/ Rest(w) \/ Claimed(w)
        BY <1>2 DEF SelectDue, ClaimDue, Claimed
  <2>2. w = p
        BY <1>2, <2>1, ProberMoves DEF Claimed
  <2> QED
      BY <2>1, <2>2, ProberMoves DEF Probing, Claimed
<1>3. ASSUME NEW o \in Operators, SelectAny(o), prober'[p] # prober[p]
      PROVE  ~Probing(p)' /\ prober'[p].gen = row.gen /\ used'.asks # 0
  <2>1. o = p
        BY <1>3, ProberMoves DEF SelectAny
  <2>2. used.asks \in 0..used.of.asks
        BY DEF TypeOK
  <2>3. used'.asks # 0
    <3>1. CASE used'.asks = used.asks + 1
          BY <2>2, <3>1
    <3>2. CASE used'.asks # used.asks + 1
      <4>1. used' = [used EXCEPT !.asks = @ + 1]
            BY <1>3 DEF SelectAny
      <4> QED
          BY <3>2, <4>1
    <3> QED
        BY <3>1, <3>2
  <2> QED
      BY <1>3, <2>1, <2>3, ProberMoves DEF SelectAny, Probing
<1>4. ASSUME NEW o \in Operators, ClaimNow(o), prober'[p] # prober[p]
      PROVE  /\ prober[p].pc = "asked" /\ prober'[p].gen \in {prober[p].gen, row.gen, NoGen}
             /\ prober'[p].pc # "asked"
  <2>1. Rest(o) \/ Hold(o)
        BY <1>4 DEF ClaimNow
  <2>2. o = p
        BY <1>4, <2>1, ProberMoves
  <2> QED
      BY <1>4, <2>1, <2>2, ProberMoves DEF ClaimNow
<1>5. ASSUME NEW q \in Probers, ProbeStep(q), prober'[p] # prober[p]
      PROVE  /\ Probing(p)' => GoesOn(p)
             /\ prober'[p].gen \in {prober[p].gen, row.gen, NoGen} /\ prober'[p].pc # "asked"
  <2>1. CASE Rest(q)
        BY <1>5, <2>1, ProberMoves DEF Probing
  <2>2. CASE ProbeFails(q)
    <3>1. prober' = [prober EXCEPT ![q].pc = "judged", ![q].armed = enabled] /\ prober[q].pc = "probing"
          BY <2>2 DEF ProbeFails
    <3>2. q = p
          BY <1>0, <1>5, <3>1
    <3>3. prober'[p].pc = "judged" /\ prober'[p].gen = prober[p].gen /\ prober'[p].lease = prober[p].lease
          BY <1>0, <3>1, <3>2 DEF Prober
    <3> QED
        BY <3>1, <3>2, <3>3 DEF GoesOn, Probing
  <2> QED
      BY <1>5, <2>1, <2>2 DEF ProbeStep, ProbeSucceeds, RecordProbeFailure, LoseProber
<1>6. CASE prober' = prober
      BY <1>1, <1>6
<1> QED
    BY <1>1, <1>2, <1>3, <1>4, <1>5, <1>6
    DEF Next, vars, RequestStep, Begin, BeginRecovery, Recover, Succeed, WipeAfterStreak, Fail, RecordFailure, Leave,
        ClearTempUnschedulable, UpdateGatewayConfig, SelectRows, ConfigureRow

\* The row: left alone, released or wiped, paused by a failure, claimed, put off
\* by a failed probe, rewritten by the settings, aged.
RowFailed == \E r \in Requests, pause \in Pauses, armed \in BOOLEAN :
               /\ req[r].pc = "failing" /\ req'[r].pc = "ended" /\ row' = FailedBy(r, pause, armed)
RowReleased == row'.gen \in {row.gen, NoGen} /\ row'.until = Null /\ row'.status # "probing"
RowPutOff == \E p \in Probers :
               /\ Owns(p) /\ prober'[p].pc = "idle"
               /\ row'.gen = row.gen /\ row'.streak = row.streak /\ row'.status # "probing"
RowConfigured == /\ ~InFlight(row) /\ row'.gen = row.gen /\ row'.streak = row.streak
                 /\ row'.until = row.until /\ row'.status # "probing"
RowClaimedNow == \E o \in Operators, hold \in Time :
               prober[o].pc = "asked" /\ row' = [ClaimedBy(o, row, hold) EXCEPT !.next = 0]

\* What a step makes of a row.
LEMMA RowStep ==
  ASSUME TypeOK, [Next]_vars, ~Tick
  PROVE  \/ row' = row \/ RowReleased \/ RowFailed \/ RowPutOff \/ RowConfigured \/ RowClaimedNow
         \/ \E w \in Workers : Claimed(w)
<1>0. row \in Row /\ req \in [Requests -> Request] /\ prober \in [Probers -> Prober]
      BY DEF TypeOK
<1>1. \A st \in {"manual", "healthy"} : row' = Released(row, st) => RowReleased
      BY <1>0 DEF Released, Row, RowReleased
<1>2. \A st \in {"", "manual"} : row' = [NoRow EXCEPT !.status = st] => RowReleased
      BY DEF NoRow, RowReleased
<1>3. ASSUME NEW r \in Requests, RequestStep(r), row' # row PROVE RowReleased \/ RowFailed
  <2>1. CASE Recover(r)
        BY <1>1, <1>3, <2>1 DEF Recover
  <2>2. CASE Succeed(r)
    <3>1. row' = [Released(row, "healthy") EXCEPT !.streak = @ + 1]
          BY <1>3, <2>2 DEF Succeed
    <3> QED
        BY <1>0, <3>1 DEF Released, Row, RowReleased
  <2>3. CASE WipeAfterStreak(r)
        BY <1>2, <1>3, <2>3 DEF WipeAfterStreak
  <2>4. CASE RecordFailure(r)
    <3>1. req[r].armed \in BOOLEAN
          BY <1>0 DEF Request
    <3>2. req'[r].pc = "ended"
          BY <1>0, <2>4 DEF RecordFailure, Finish, Free
    <3> QED
        BY <2>4, <3>1, <3>2 DEF RecordFailure, RowFailed
  <2> QED
      BY <1>3, <2>1, <2>2, <2>3, <2>4 DEF RequestStep, Begin, BeginRecovery, Fail, Leave
<1>4. ASSUME NEW p \in Probers, ProbeStep(p), row' # row PROVE RowReleased \/ RowPutOff
  <2>1. CASE ProbeSucceeds(p)
        BY <1>1, <1>4, <2>1 DEF ProbeSucceeds
  <2>2. CASE RecordProbeFailure(p)
    <3>1. Owns(p) /\ prober'[p].pc = "idle"
          BY <1>4, <2>2, ProberMoves DEF RecordProbeFailure
    <3>2. row'.gen = row.gen /\ row'.streak = row.streak /\ row'.status # "probing"
      <4>1. CASE prober[p].armed
        <5>1. PICK backoff \in Backoffs :
                 row' = [row EXCEPT !.until = backoff, !.next = backoff, !.lease = Null,
                                    !.owner = Nobody, !.status = "unhealthy"]
              BY <2>2, <3>1, <4>1 DEF RecordProbeFailure
        <5> QED
            BY <1>0, <5>1 DEF Row
      <4>2. CASE ~prober[p].armed
        <5>1. row' = [row EXCEPT !.next = Null, !.lease = Null, !.owner = Nobody, !.status = "manual"]
              BY <2>2, <3>1, <4>2 DEF RecordProbeFailure
        <5> QED
            BY <1>0, <5>1 DEF Row
      <4> QED
          BY <4>1, <4>2
    <3> QED
        BY <3>1, <3>2 DEF RowPutOff
  <2> QED
      BY <1>4, <2>1, <2>2 DEF ProbeStep, ProbeFails, LoseProber
<1>5. ASSUME NEW w \in Workers, SelectDue(w) \/ ClaimDue(w), row' # row PROVE Claimed(w)
      BY <1>5 DEF SelectDue, ClaimDue, Claimed
<1>6. ASSUME NEW o \in Operators, SelectAny(o) \/ ClaimNow(o), row' # row PROVE RowClaimedNow
  <2>1. prober[o].until \in Time
        BY <1>0 DEF Prober
  <2> QED
      BY <1>6, <2>1 DEF SelectAny, ClaimNow, RowClaimedNow
<1>7. CASE ClearTempUnschedulable
      BY <1>2, <1>7 DEF ClearTempUnschedulable
<1>8. ASSUME ConfigureRow, row' # row PROVE RowConfigured
      BY <1>0, <1>8 DEF ConfigureRow, RowConfigured, Row
<1> QED
    BY <1>3, <1>4, <1>5, <1>6, <1>7, <1>8 DEF Next, vars, UpdateGatewayConfig, SelectRows
\* What a released, failed or claimed row is.
LEMMA RowShapes ==
  ASSUME TypeOK
  PROVE  /\ \A r \in Requests, pause \in Pauses, armed \in BOOLEAN :
              LET c == FailedBy(r, pause, armed) IN c.gen = r /\ c.streak = 0 /\ c.status # "probing"
         /\ \A p \in Probers, hold \in Time :
              LET c == ClaimedBy(p, row, hold)
              IN  /\ c.gen = row.gen /\ c.streak = row.streak /\ c.status = "probing"
                  /\ c.owner = p /\ c.lease = Lease /\ c.until # Null
         /\ \A p \in Probers, hold \in Time : [ClaimedBy(p, row, hold) EXCEPT !.next = 0].until # Null
         /\ \A p \in Probers, hold \in Time : [ClaimedBy(p, row, hold) EXCEPT !.next = 0].gen = row.gen
<1>0. row \in Row
      BY DEF TypeOK
<1>1. ASSUME NEW p \in Probers, NEW hold \in Time
      PROVE  LET c == ClaimedBy(p, row, hold)
             IN  /\ c.gen = row.gen /\ c.streak = row.streak /\ c.status = "probing"
                 /\ c.owner = p /\ c.lease = Lease /\ c.until # Null
                 /\ [c EXCEPT !.next = 0].until # Null /\ [c EXCEPT !.next = 0].gen = row.gen
  <2>1. (IF hold > Lease THEN hold ELSE Lease) # Null
        BY DEF Time, Null
  <2>2. ClaimedBy(p, row, hold) = [row EXCEPT !.status = "probing", !.lease = Lease, !.owner = p,
                                              !.until = IF hold > Lease THEN hold ELSE Lease]
        BY DEF ClaimedBy
  <2>3. \A until : LET c == [row EXCEPT !.status = "probing", !.lease = Lease, !.owner = p, !.until = until]
                   IN  /\ c.gen = row.gen /\ c.streak = row.streak /\ c.status = "probing"
                       /\ c.owner = p /\ c.lease = Lease /\ c.until = until
                       /\ [c EXCEPT !.next = 0].until = until /\ [c EXCEPT !.next = 0].gen = row.gen
        BY <1>0 DEF Row
  <2> QED
      BY <2>1, <2>2, <2>3
<1>2. \A r \in Requests, pause \in Pauses, armed \in BOOLEAN :
        LET c == FailedBy(r, pause, armed) IN c.gen = r /\ c.streak = 0 /\ c.status # "probing"
      BY DEF FailedBy
<1> QED
    BY <1>1, <1>2

\* Time shortens the row and the probers' leases together, and nothing else.
LEMMA TickShape ==
  ASSUME TypeOK, Tick
  PROVE  /\ row'.gen = row.gen /\ row'.streak = row.streak /\ row'.status = row.status /\ row'.owner = row.owner
         /\ row'.until = Null <=> row.until = Null
         /\ row'.lease = Aged(row.lease)
         /\ \A p \in Probers : /\ prober'[p].pc = prober[p].pc /\ prober'[p].gen = prober[p].gen
                               /\ prober'[p].lease = Aged(prober[p].lease)
                               /\ Live(prober'[p].lease) => Live(prober[p].lease)
<1>0. row \in Row /\ prober \in [Probers -> Prober]
      BY DEF TypeOK
<1>1. row' = [row EXCEPT !.until = Aged(row.until), !.next = Aged(row.next), !.lease = Aged(row.lease)]
      BY DEF Tick
<1>2. /\ row'.gen = row.gen /\ row'.streak = row.streak /\ row'.status = row.status /\ row'.owner = row.owner
      /\ row'.until = Aged(row.until) /\ row'.lease = Aged(row.lease)
      BY <1>0, <1>1 DEF Row
<1>3. row'.until = Null <=> row.until = Null
  <2>1. row.until \in Time
        BY <1>0 DEF Row
  <2> QED
      BY <1>2, <2>1, AgedTyped
<1>4. ASSUME NEW p \in Probers
      PROVE  /\ prober'[p].pc = prober[p].pc /\ prober'[p].gen = prober[p].gen
             /\ prober'[p].lease = Aged(prober[p].lease)
             /\ Live(prober'[p].lease) => Live(prober[p].lease)
  <2>1. prober'[p] = [prober[p] EXCEPT !.lease = Aged(prober[p].lease)] /\ prober[p] \in Prober
        BY <1>0 DEF Tick
  <2>2. prober[p].lease \in Time
        BY <1>0 DEF Prober
  <2>3. /\ prober'[p].pc = prober[p].pc /\ prober'[p].gen = prober[p].gen
        /\ prober'[p].lease = Aged(prober[p].lease)
        BY <2>1 DEF Prober
  <2> QED
      BY <2>2, <2>3, AgedTyped
<1> QED
    BY <1>2, <1>3, <1>4

-----------------------------------------------------------------------------
(* Each part of the invariant is preserved. *)

\* What the passage of time makes of rows and probers.
LEMMA TimeStep == TypeOK /\ ProbingHasTime /\ [Next]_vars => ProbingHasTime'
<1> SUFFICES ASSUME TypeOK, ProbingHasTime, [Next]_vars, row'.status = "probing" PROVE row'.until # Null
    BY DEF ProbingHasTime
<1>1. CASE Tick
      BY <1>1, TickShape DEF ProbingHasTime
<1>2. CASE row' = row
      BY <1>2 DEF ProbingHasTime
<1>3. CASE RowFailed
      BY <1>3, RowShapes DEF RowFailed
<1>4. CASE RowClaimedNow
      BY <1>4, RowShapes DEF RowClaimedNow
<1>5. ASSUME NEW w \in Workers, Claimed(w) PROVE row'.until # Null
  <2>1. prober[w].until \in Time
        BY DEF TypeOK, Prober
  <2> QED
      BY <1>5, <2>1, RowShapes DEF Claimed
<1> QED
    BY <1>1, <1>2, <1>3, <1>4, <1>5, RowStep DEF RowReleased, RowPutOff, RowConfigured

\* Every step keeps GenerationsEnd.
LEMMA GenerationStep == TypeOK /\ GenerationsEnd /\ [Next]_vars => GenerationsEnd'
<1> SUFFICES ASSUME TypeOK, GenerationsEnd, [Next]_vars PROVE GenerationsEnd'
    OBVIOUS
<1>1. \A g \in Requests : req[g].pc = "ended" => req'[g].pc = "ended"
      BY EndedStays
<1>2. \/ row'.gen \in {row.gen, NoGen}
      \/ row'.gen \in Requests /\ req'[row'.gen].pc = "ended"
  <2>1. CASE Tick
        BY <2>1, TickShape
  <2>2. CASE RowFailed
        BY <2>2, RowShapes DEF RowFailed
  <2>3. CASE RowClaimedNow
        BY <2>3, RowShapes DEF RowClaimedNow
  <2>4. ASSUME NEW w \in Workers, Claimed(w) PROVE row'.gen = row.gen
    <3>1. prober[w].until \in Time
          BY DEF TypeOK, Prober
    <3> QED
        BY <2>4, <3>1, RowShapes DEF Claimed
  <2> QED
      BY <2>1, <2>2, <2>3, <2>4, RowStep DEF RowReleased, RowPutOff, RowConfigured
<1>3. \A p \in Probers : prober'[p].gen \in {prober[p].gen, row.gen, NoGen}
  <2>1. CASE Tick
        BY <2>1, TickShape
  <2> QED
      BY <2>1, ProberStep
<1> QED
    BY <1>1, <1>2, <1>3 DEF GenerationsEnd

\* A step that claims nothing.
LEMMA QuietStep ==
  ASSUME TypeOK, ProbingHasTime, NobodyAsked, QuietRows, [Next]_vars
  PROVE  QuietRows'
<1> SUFFICES ASSUME row'.gen = NoGen \/ row'.streak > 0 PROVE row'.until = Null
    BY DEF QuietRows
<1>1. CASE Tick
      BY <1>1, TickShape DEF QuietRows
<1>2. CASE row' = row
      BY <1>2 DEF QuietRows
<1>3. CASE RowFailed
  <2>1. ~(0 > 0)
        OBVIOUS
  <2> QED
      BY <1>3, <2>1, RowShapes DEF RowFailed
<1>4. CASE RowPutOff
      BY <1>4 DEF RowPutOff, Owns, ProbingHasTime, QuietRows
<1>5. CASE RowConfigured
      BY <1>5 DEF RowConfigured, QuietRows
<1>6. CASE RowClaimedNow
      BY <1>6 DEF RowClaimedNow, NobodyAsked
<1>7. ASSUME NEW w \in Workers, Claimed(w) PROVE FALSE
  <2>1. prober[w].until \in Time
        BY DEF TypeOK, Prober
  <2>2. row'.gen = row.gen /\ row'.streak = row.streak
        BY <1>7, <2>1, RowShapes DEF Claimed
  <2> QED
      BY <1>7, <2>2 DEF Claimed, Due, QuietRows
<1> QED
    BY <1>1, <1>2, <1>3, <1>4, <1>5, <1>6, <1>7, RowStep DEF RowReleased

\* A row that is due is not held by a probe of its failure that is within its lease.
LEMMA DueIsFree ==
  ASSUME NEW p \in Probers, ClaimHeld(p), Probing(p), Live(prober[p].lease), Due(row)
  PROVE  row.gen # prober[p].gen
BY DEF ClaimHeld, Due, InFlight

\* A claim takes the generation of the row.
LEMMA ClaimStep ==
  ASSUME TypeOK, ProbingHasTime, GenerationsEnd, NobodyAsked, QuietRows, [Next]_vars,
         NEW p \in Probers, ClaimHeld(p)
  PROVE  ClaimHeld(p)'
<1> SUFFICES ASSUME Probing(p)', Live(prober'[p].lease)
             PROVE  /\ prober'[p].gen \in Requests
                    /\ row'.gen = prober'[p].gen /\ row'.until # Null =>
                         row'.status = "probing" /\ row'.owner = p /\ row'.lease = prober'[p].lease
    BY DEF ClaimHeld
<1>1. CASE Tick
  <2>1. Probing(p) /\ Live(prober[p].lease)
        BY <1>1, TickShape DEF Probing
  <2> QED
      BY <1>1, <2>1, TickShape DEF ClaimHeld
<1>2. CASE ~Tick /\ GoesOn(p)
  <2>1. /\ prober[p].gen \in Requests
        /\ row.gen = prober[p].gen /\ row.until # Null =>
             row.status = "probing" /\ row.owner = p /\ row.lease = prober[p].lease
        BY <1>2 DEF GoesOn, ClaimHeld
  <2>2. CASE row' = row
        BY <1>2, <2>1, <2>2 DEF GoesOn
  <2>3. CASE RowReleased
        BY <1>2, <2>1, <2>3 DEF GoesOn, RowReleased
  <2>4. CASE RowFailed
    <3>1. row'.gen # prober[p].gen
          BY <2>1, <2>4, RowShapes DEF RowFailed, GenerationsEnd
    <3> QED
        BY <1>2, <2>1, <3>1 DEF GoesOn
  <2>5. CASE RowPutOff
    <3>1. PICK q \in Probers : /\ Owns(q) /\ prober'[q].pc = "idle"
                               /\ row'.gen = row.gen /\ row'.streak = row.streak /\ row'.status # "probing"
          BY <2>5 DEF RowPutOff
    <3>2. CASE row.gen # prober[p].gen
          BY <1>2, <2>1, <3>1, <3>2 DEF GoesOn
    <3>3. CASE row.gen = prober[p].gen
      <4>1. row.owner = p /\ row.owner = q
            BY <2>1, <3>1, <3>3 DEF Owns, ProbingHasTime
      <4> QED
          BY <3>1, <4>1 DEF Probing
    <3> QED
        BY <3>2, <3>3
  <2>6. CASE RowConfigured
        BY <1>2, <2>1, <2>6 DEF RowConfigured, GoesOn, InFlight
  <2>7. CASE RowClaimedNow
        BY <2>7 DEF RowClaimedNow, NobodyAsked
  <2>8. ASSUME NEW w \in Workers, Claimed(w) PROVE row'.gen # prober[p].gen
    <3>1. prober[w].until \in Time
          BY DEF TypeOK, Prober
    <3>2. row'.gen = row.gen
          BY <2>8, <3>1, RowShapes DEF Claimed
    <3> QED
        BY <1>2, <2>8, <3>2, DueIsFree DEF Claimed, GoesOn
  <2> QED
      BY <1>2, <2>1, <2>2, <2>3, <2>4, <2>5, <2>6, <2>7, <2>8, RowStep DEF GoesOn
<1>3. CASE Claimed(p)
  <2>1. prober[p].until \in Time /\ row.gen \in Generation
        BY DEF TypeOK, Prober, Row
  <2>2. row.gen \in Requests
        BY <1>3, <2>1 DEF Claimed, Due, QuietRows, Generation
  <2> QED
      BY <1>3, <2>1, <2>2, RowShapes, ProberMoves DEF Claimed
<1> QED
    BY <1>1, <1>2, <1>3, ProberStep DEF NobodyAsked

\* Every step keeps the probes of a failure apart.
LEMMA ExclusiveStep ==
  ASSUME TypeOK, NobodyAsked, Exclusive, \A p \in Probers : ClaimHeld(p), [Next]_vars
  PROVE  Exclusive'
<1> SUFFICES ASSUME NEW p \in Probers, NEW q \in Probers, p # q, Probing(p)', Probing(q)',
                    Live(prober'[p].lease), Live(prober'[q].lease)
             PROVE  prober'[p].gen # prober'[q].gen
    BY DEF Exclusive
<1>1. CASE Tick
      BY <1>1, TickShape DEF Exclusive, Probing
<1>2. ASSUME ~Tick, NEW x \in Probers, NEW y \in Probers, x # y, Claimed(x),
             Probing(y)', Live(prober'[y].lease)
      PROVE  prober'[x].gen # prober'[y].gen
  <2>1. prober'[x].gen = prober[x].gen /\ prober'[y] = prober[y]
        BY <1>2, ProberMoves DEF Claimed
  <2>2. Probing(y) /\ Live(prober[y].lease)
        BY <1>2, <2>1 DEF Probing
  <2> QED
      BY <1>2, <2>1, <2>2, DueIsFree DEF Claimed
<1>3. CASE ~Tick /\ GoesOn(p) /\ GoesOn(q)
      BY <1>3 DEF GoesOn, Exclusive
<1> QED
    BY <1>1, <1>2, <1>3, ProberStep DEF NobodyAsked

\* Every step keeps what no prober has asked for.
LEMMA UnaskedStep ==
  TypeOK /\ UsedTyped /\ ProbingHasTime /\ GenerationsEnd /\ Unasked /\ [Next]_vars => Unasked'
<1> SUFFICES ASSUME TypeOK, UsedTyped, ProbingHasTime, GenerationsEnd, Unasked, [Next]_vars, used'.asks = 0
             PROVE  NobodyAsked' /\ QuietRows' /\ Exclusive' /\ \A p \in Probers : ClaimHeld(p)'
    BY DEF Unasked
<1>1. NobodyAsked /\ QuietRows /\ Exclusive /\ \A p \in Probers : ClaimHeld(p)
      BY StepTyped DEF Unasked
<1>2. NobodyAsked'
  <2>1. CASE Tick
        BY <1>1, <2>1, TickShape DEF NobodyAsked
  <2> QED
      BY <1>1, <2>1, ProberStep DEF NobodyAsked
<1>3. QuietRows'
      BY <1>1, QuietStep
<1>4. Exclusive'
      BY <1>1, ExclusiveStep
<1>5. \A p \in Probers : ClaimHeld(p)'
      BY <1>1, ClaimStep
<1> QED
    BY <1>2, <1>3, <1>4, <1>5

\* The invariant holds initially.
LEMMA InitInvariant == Init => IInv
<1> SUFFICES ASSUME Init PROVE IInv
    OBVIOUS
<1>1. TypeOK /\ UsedTyped
      BY InitTyped
<1>2. row = NoRow /\ \A p \in Probers : prober[p] = AtRest
      BY DEF Init
<1>3. ProbingHasTime /\ QuietRows
      BY <1>2 DEF ProbingHasTime, QuietRows, NoRow
<1>4. GenerationsEnd /\ NobodyAsked
      BY <1>2 DEF GenerationsEnd, NobodyAsked, NoRow, AtRest
<1>5. \A p \in Probers : ~Probing(p)
      BY <1>2 DEF Probing, AtRest
<1>6. Exclusive /\ \A p \in Probers : ClaimHeld(p)
      BY <1>5 DEF Exclusive, ClaimHeld
<1> QED
    BY <1>1, <1>3, <1>4, <1>6 DEF IInv, Unasked

\* Every step keeps the invariant.
LEMMA StepInvariant == IInv /\ [Next]_vars => IInv'
BY StepTyped, TimeStep, GenerationStep, UnaskedStep DEF IInv

-----------------------------------------------------------------------------
(* The theorems. *)

\* The inductive invariant of the specification.
THEOREM CooldownInvariant == Spec => []IInv
BY InitInvariant, StepInvariant, PTL DEF Spec

\* Every reachable state has the types of TypeOK.
THEOREM TypeCorrect == Spec => []TypeOK
<1>1. IInv => TypeOK
      BY DEF IInv
<1> QED
    BY <1>1, CooldownInvariant, PTL

\* Two application instances do not probe one failure at the same time, for any
\* number of instances and requests and any length of pauses and leases.
THEOREM OneProbe == Spec => []OneProbePerFailure
<1>1. IInv => OneProbePerFailure
      BY DEF IInv, Unasked, Exclusive, OneProbePerFailure
<1> QED
    BY <1>1, CooldownInvariant, PTL

\* The second statement of a success (RouteRecoverSuccessClearStreak) leaves a
\* row alone that a failure has paused since the first one.
THEOREM PausesAreSpared == Spec => WipeSparesPauses
<1>1. IInv => \A r \in Requests : WipeAfterStreak(r) /\ used.asks = 0 /\ row.until # Null => row' = row
  <2> SUFFICES ASSUME IInv, NEW r \in Requests, WipeAfterStreak(r), used.asks = 0, row.until # Null
               PROVE  row' = row
      OBVIOUS
  <2>1. ~(row.streak > 0) /\ row.streak \in Nat
        BY DEF IInv, Unasked, QuietRows, TypeOK, Row
  <2>2. ~(row.streak >= ClearStreak)
        BY <2>1
  <2> QED
      BY <2>2 DEF WipeAfterStreak
<1>2. IInv /\ [Next]_vars
      => [\A r \in Requests : WipeAfterStreak(r) /\ used.asks = 0 /\ row.until # Null => row' = row]_vars
      BY <1>1
<1> QED
    BY <1>2, CooldownInvariant, PTL DEF Spec, WipeSparesPauses
=============================================================================
