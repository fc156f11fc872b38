----------------------------- MODULE Settlement -----------------------------
(***************************************************************************)
(* How a gateway request is paid for (backend/gateway/runtime_forward.go,  *)
(* runtime_forward_coordinated.go and runtime_usage.go, with the           *)
(* transactions of backend/storage/gateway.go and model_pricing.go): the   *)
(* usage rows its attempts leave, the one finalization that picks the      *)
(* winner and charges the key, and the three administrators of the same    *)
(* tables: the key editor, the retention jobs and the repricing worker.    *)
(*                                                                         *)
(* One key.  A request settles by its unique finalization row; the winner  *)
(* settlement row is written and deleted with a delivered finalization, so *)
(* it has no variable of its own.  A transaction commits in one step after *)
(* the reads it decides by (READ COMMITTED, the weakest isolation of the   *)
(* supported databases); any statement may fail, and a COMMIT may be       *)
(* applied and its acknowledgement lost.                                   *)
(***************************************************************************)
EXTENDS Integers, FiniteSets, Functions

CONSTANTS
  Requests,       \* user requests made with the key
  Editors,        \* administrators with the key's form open
  Prices, First,  \* what one attempt can cost, and does at first
  Discount,       \* what virtual cache reads take off a winner's bill
  Quota,          \* the key's quota, 0 for none
  MaxAttempts,    \* RequestMaxAttempts
  PageSize,       \* rows of a repricing batch, 200 in the code
  MaxUpsets,      \* bound: failed statements, lost acknowledgements, retention
                  \* runs and edits of the key, taken together
  MaxChanges,     \* bound: price changes
  MaxRows         \* bound: usage rows

ASSUME SizesSound ==
  /\ Quota \in Nat /\ MaxAttempts \in Nat \ {0} /\ PageSize \in Nat \ {0}
  /\ Discount \in Nat /\ Prices \subseteq Nat /\ First \in Prices
  /\ \A p \in Prices : Discount < p
  /\ MaxUpsets \in Nat /\ MaxChanges \in Nat /\ MaxRows \in Nat

VARIABLES
  req,        \* the requests' handlers
  log,        \* gateway_usage_logs: id -> row
  nextId,     \* the table's next id
  fin,        \* gateway_request_finalizations
  used,       \* the key's quota_used
  form,       \* the quota_used an editor's copy of the key holds
  price,      \* what an attempt costs now
  job,        \* the repricing job's row and the batch in hand
  charged,    \* ghost: requests whose charge was committed
  owed,       \* ghost: their bills since quota_used was last reset
  clobbered,  \* ghost: an editor's copy was stale when it was saved
  spent       \* what is used up of the bounds

vars == <<req, log, nextId, fin, used, form, price, job, charged, owed,
          clobbered, spent>>

Closed == -1   \* no form open
Row == [req : Requests, winner : BOOLEAN, extra : Nat, cost : Nat]

\* A handler: the attempts made, whether one of the audited ones won, its row
\* (0: not written), the cost read from it, whether virtual cache reads are
\* claimed; whether the client got its answer, and whether a statement whose
\* error is only logged stands in the way of its charge.
PCs == {"new", "refused", "trying", "record", "audit", "settle", "commit",
        "failing", "done"}
Request == [pc : PCs, tries : Nat, won : BOOLEAN, id : Nat, cost : Nat,
            virtual : BOOLEAN, served : BOOLEAN, excused : BOOLEAN]

Job == [st : {"idle", "pending", "paged", "loaded"}, last : Nat, upper : Nat,
        page : SUBSET Nat, finals : SUBSET Requests, winners : SUBSET Nat]

Fresh == [pc |-> "new", tries |-> 0, won |-> FALSE, id |-> 0, cost |-> 0,
          virtual |-> FALSE, served |-> FALSE, excused |-> FALSE]
Idle == [st |-> "idle", last |-> 0, upper |-> 0, page |-> {}, finals |-> {},
         winners |-> {}]

Init ==
  /\ req = [r \in Requests |-> Fresh]
  /\ log = [i \in {} |-> 0]
  /\ nextId = 1
  /\ fin = [r \in Requests |-> "none"]
  /\ used = 0 /\ owed = 0 /\ charged = {} /\ clobbered = FALSE
  /\ form = [e \in Editors |-> Closed]
  /\ price = First
  /\ job = Idle
  /\ spent = [upsets |-> 0, changes |-> 0]

table == <<log, nextId>>
key == <<used, form, charged, owed, clobbered>>
prices == <<price, job>>

Spend(what, max) ==
  /\ spent[what] < max
  /\ spent' = [spent EXCEPT ![what] = @ + 1]
Upset == Spend("upsets", MaxUpsets)
NoUpset == UNCHANGED spent

Ended(r, excused) ==
  [Fresh EXCEPT !.pc = "done", !.served = req[r].served,
                !.excused = req[r].served /\ (req[r].excused \/ excused)]

----------------------------------------------------------------------------
\* The handler, from authentication to the request's usage rows.

\* Authenticate: quota_used is read from the row when the key has a quota.
Admit(r) ==
  /\ req[r].pc = "new"
  /\ req' = [req EXCEPT ![r].pc = IF Quota > 0 /\ used >= Quota THEN "refused" ELSE "trying"]
  /\ UNCHANGED <<table, fin, key, prices, spent>>

\* recordUsage's Create; the row's extra cost is what it costs to lose.
Store(r, extra) ==
  /\ nextId <= MaxRows
  /\ log' = [i \in DOMAIN log \cup {nextId} |->
               IF i = nextId
               THEN [req |-> r, winner |-> FALSE, extra |-> extra, cost |-> price]
               ELSE log[i]]
  /\ nextId' = nextId + 1
  /\ NoUpset
Lose == UNCHANGED table /\ Upset

\* Another try or route follows, or none does and the request fails.
AttemptFails(r) ==
  /\ req[r].pc = "trying" /\ req[r].tries < MaxAttempts
  /\ Store(r, price) \/ Lose
  /\ \E next \in {"trying", "failing"} :
       req' = [req EXCEPT ![r].tries = @ + 1, ![r].pc = next]
  /\ UNCHANGED <<fin, key, prices>>

\* No route, no attempt left, a cancelled or expired request.
GiveUp(r) ==
  /\ req[r].pc = "trying"
  /\ req' = [req EXCEPT ![r].pc = "failing"]
  /\ UNCHANGED <<table, fin, key, prices, spent>>

\* The client has its answer before anything is recorded.
Serve(r) ==
  /\ req[r].pc = "trying" /\ req[r].tries < MaxAttempts
  /\ req' = [req EXCEPT ![r].pc = "record", ![r].served = TRUE]
  /\ UNCHANGED <<table, fin, key, prices, spent>>

\* Without virtual cache reads recordUsage settles, and only if it wrote the
\* row; with them the caller does, and fails the request that has no row.
Record(r) ==
  /\ req[r].pc = "record"
  /\ \/ \E virtual \in BOOLEAN :
          /\ Store(r, IF virtual THEN price ELSE 0)
          /\ req' = [req EXCEPT ![r].pc = "settle", ![r].id = nextId,
                                ![r].virtual = virtual]
     \/ /\ Lose
        /\ \/ req' = [req EXCEPT ![r].pc = "failing", ![r].excused = TRUE]
           \/ req' = [req EXCEPT ![r] = Ended(r, TRUE)]
  /\ UNCHANGED <<fin, key, prices>>

\* handleForwardCoordinated: the race is over before its audit starts.
Race(r) ==
  /\ req[r].pc = "trying" /\ req[r].tries = 0
  /\ req' = [req EXCEPT ![r].pc = "audit"]
  /\ UNCHANGED <<table, fin, key, prices, spent>>

\* auditCoordinatedAttempts: one row per attempt, at most one of them to win,
\* none of them a winner yet.
Audit(r) ==
  /\ req[r].pc = "audit" /\ req[r].tries < MaxAttempts
  /\ \E wins \in IF req[r].won THEN {FALSE} ELSE BOOLEAN :
       \/ /\ Store(r, price)
          /\ req' = [req EXCEPT ![r].tries = @ + 1, ![r].won = @ \/ wins,
                                ![r].id = IF wins THEN nextId ELSE @]
       \/ /\ Lose
          /\ req' = [req EXCEPT ![r].tries = @ + 1, ![r].won = @ \/ wins,
                                ![r].excused = @ \/ wins]
  /\ UNCHANGED <<fin, key, prices>>

MaySettle(r, delivered) == delivered /\ req[r].id # 0

\* finishCoordinatedNonStream, finishCoordinatedStream: the answer is written
\* out (a stream's was before the audit); nothing is settled unless it was.
Finish(r) ==
  /\ req[r].pc = "audit" /\ req[r].tries > 0
  /\ \/ /\ ~req[r].won
        /\ req' = [req EXCEPT ![r].pc = "failing"]
     \/ /\ req[r].won
        /\ \E delivered, virtual \in BOOLEAN :
             LET settles == MaySettle(r, delivered) IN
             req' = [req EXCEPT ![r].served = delivered,
                                ![r].pc = IF settles THEN "settle" ELSE "failing",
                                ![r].virtual = settles /\ virtual]
  /\ UNCHANGED <<table, fin, key, prices, spent>>

----------------------------------------------------------------------------
\* FinalizeRequest.

\* The winner's error is logged; virtual settlement falls back to the plain one.
SettleFails(r) ==
  req' = [req EXCEPT ![r] =
            IF @.virtual THEN [@ EXCEPT !.pc = "settle", !.virtual = FALSE, !.cost = 0]
            ELSE Ended(r, TRUE)]

\* Mutated form: a delivered finalization is completed again.
Conflict_Failed(r) == fin[r] = "failed"
Conflict(r) == fin[r] # "none"

\* Insert the unique finalization (a conflict ends the matter), load the row.
Begin(r) ==
  /\ req[r].pc = "settle"
  /\ \/ /\ Conflict(r)
        /\ req' = [req EXCEPT ![r] = Ended(r, FALSE)]
        /\ NoUpset
     \/ /\ ~Conflict(r) /\ req[r].id \in DOMAIN log
        /\ req' = [req EXCEPT ![r].pc = "commit", ![r].cost = log[req[r].id].cost]
        /\ NoUpset
     \/ /\ req[r].id \notin DOMAIN log \/ req[r].virtual  \* refused
        /\ ~Conflict(r)
        /\ SettleFails(r) /\ NoUpset
     \/ /\ SettleFails(r) /\ Upset
  /\ UNCHANGED <<table, fin, key, prices>>

Bill(r, cost) == IF req[r].virtual THEN cost - Discount ELSE cost

\* Clear the request's winners, mark this one, charge the key, complete fin.
Charge(r) ==
  LET bill == Bill(r, req[r].cost) IN
  /\ log' = [i \in DOMAIN log |->
               IF i = req[r].id THEN [log[i] EXCEPT !.winner = TRUE, !.extra = 0]
               ELSE IF log[i].req = r THEN [log[i] EXCEPT !.winner = FALSE]
               ELSE log[i]]
  /\ fin' = [fin EXCEPT ![r] = "delivered"]
  /\ used' = used + bill
  /\ owed' = IF r \in charged THEN owed ELSE owed + bill
  /\ charged' = charged \cup {r}
  /\ UNCHANGED <<nextId, form, clobbered, prices>>

Commit(r) ==
  /\ req[r].pc = "commit"
  /\ \/ /\ Charge(r) /\ NoUpset
        /\ req' = [req EXCEPT ![r] = Ended(r, FALSE)]
     \/ Charge(r) /\ SettleFails(r) /\ Upset  \* applied, not acknowledged
     \/ SettleFails(r) /\ Upset /\ UNCHANGED <<table, fin, key, prices>>

\* FinalizeFailedRequest; its error is logged too.
Failed(r) ==
  /\ req[r].pc = "failing"
  /\ req' = [req EXCEPT ![r] = Ended(r, FALSE)]
  /\ \/ /\ fin' = [fin EXCEPT ![r] = IF @ = "none" THEN "failed" ELSE @]
        /\ NoUpset
     \/ UNCHANGED fin /\ Upset
  /\ UNCHANGED <<table, key, prices>>

----------------------------------------------------------------------------
\* The key's editor: UpdateKey loads the whole row and saves the whole row.

EditRead(e) ==
  /\ form[e] = Closed
  /\ form' = [form EXCEPT ![e] = used]
  /\ Upset
  /\ UNCHANGED <<req, table, fin, used, charged, owed, clobbered, prices>>

Loaded(e) == form[e] # Closed
EditSave(e) ==
  /\ Loaded(e)
  /\ form' = [form EXCEPT ![e] = Closed]
  /\ \/ /\ used' = 0 /\ owed' = 0  \* ResetQuotaUsed
        /\ UNCHANGED clobbered
     \/ /\ used' = form[e]
        /\ clobbered' = (clobbered \/ used # form[e])
        /\ UNCHANGED owed
  /\ UNCHANGED <<req, table, fin, charged, prices, spent>>

Retained(r, kept) == \E i \in kept : log[i].req = r

\* Retention: the old rows go, and the settlement of a request that has none left.
DeleteBefore ==
  \E cut \in DOMAIN log :
    LET kept == {i \in DOMAIN log : i > cut} IN
    /\ log' = Restrict(log, kept)
    /\ fin' = [r \in Requests |-> IF Retained(r, kept) THEN fin[r] ELSE "none"]
    /\ Upset
    /\ UNCHANGED <<req, nextId, key, prices>>

DeleteAll ==
  /\ DOMAIN log # {}
  /\ log' = Restrict(log, {})
  /\ fin' = [r \in Requests |-> "none"]
  /\ Upset
  /\ UNCHANGED <<req, nextId, key, prices>>

----------------------------------------------------------------------------
\* Price changes and the repricing worker.  A batch holds the job's row lock.

IsMax(i, ids) == i \in ids /\ \A j \in ids : j <= i

\* The job covers the rows there are, up to the newest.
ApplyPrices ==
  /\ job.st \in {"idle", "pending"}
  /\ price' \in Prices \ {price}
  /\ \E newest \in DOMAIN log \cup {0} :
       /\ IsMax(newest, DOMAIN log \cup {0})
       /\ job' = [Idle EXCEPT !.st = "pending", !.upper = newest]
  /\ Spend("changes", MaxChanges)
  /\ UNCHANGED <<req, table, fin, key>>

InRange == {i \in DOMAIN log : job.last < i /\ i <= job.upper}
FirstOf(ids) == {i \in ids : Cardinality({j \in ids : j < i}) < PageSize}

ReadPage ==
  LET page == FirstOf(InRange) IN
  /\ job.st = "pending"
  /\ job' = [job EXCEPT !.st = "paged", !.page = page,
                        !.winners = {i \in page : log[i].winner}]
  /\ UNCHANGED <<req, table, fin, key, price, spent>>

Winners(seen) == {i \in job.page \cap DOMAIN log : log[i].req \in seen /\ log[i].winner}

\* The finalizations of the page's requests, then the winners among their rows
\* again: a settlement may have committed after the page was read.
ReadFinals ==
  LET seen == {r \in Requests : fin[r] # "none" /\
                 \E i \in job.page \cap DOMAIN log : log[i].req = r} IN
  /\ job.st = "paged"
  /\ job' = [job EXCEPT !.st = "loaded", !.finals = seen,
                        !.winners = Winners(seen)]
  /\ UNCHANGED <<req, table, fin, key, price, spent>>

Priced == {i \in job.page \cap DOMAIN log : log[i].req \in job.finals}
Reprice(ids) ==
  [i \in DOMAIN log |->
     IF i \notin ids THEN log[i]
     ELSE [log[i] EXCEPT !.cost = price, !.extra = IF i \in job.winners THEN 0 ELSE price]]
Passed_Priced == Priced  \* mutated form: skipped rows stay ahead
Passed == job.page
SavePage ==
  /\ job.st = "loaded"
  /\ log' = Reprice(Priced)
  /\ \E last \in Passed \cup {job.last} :
       /\ IsMax(last, Passed \cup {job.last})
       /\ job' = IF Cardinality(job.page) < PageSize \/ last >= job.upper THEN Idle
                 ELSE [Idle EXCEPT !.st = "pending", !.last = last, !.upper = job.upper]
  /\ UNCHANGED <<req, nextId, fin, key, price, spent>>

\* A failed batch, or one cut short by a restart, leaves the cursor where it was.
PageFails ==
  /\ job.st \in {"paged", "loaded"}
  /\ job' = [Idle EXCEPT !.st = "pending", !.last = job.last, !.upper = job.upper]
  /\ Upset
  /\ UNCHANGED <<req, table, fin, key, price>>

----------------------------------------------------------------------------
Handler(r) ==
  \/ Admit(r) \/ AttemptFails(r) \/ GiveUp(r) \/ Serve(r) \/ Record(r)
  \/ Race(r) \/ Audit(r) \/ Finish(r) \/ Begin(r) \/ Commit(r) \/ Failed(r)
Worker == ReadPage \/ ReadFinals \/ SavePage \/ PageFails
Next ==
  \/ \E r \in Requests : Handler(r)
  \/ \E e \in Editors : EditRead(e) \/ EditSave(e)
  \/ DeleteBefore \/ DeleteAll \/ ApplyPrices \/ Worker

Spec == Init /\ [][Next]_vars
FairSpec == Spec /\ WF_vars(Worker)

----------------------------------------------------------------------------
TypeOK ==
  /\ req \in [Requests -> Request]
  /\ DOMAIN log \subseteq 1..(nextId - 1) /\ nextId \in Nat \ {0}
  /\ \A i \in DOMAIN log : log[i] \in Row
  /\ fin \in [Requests -> {"none", "failed", "delivered"}]
  /\ used \in Nat /\ owed \in Nat /\ charged \subseteq Requests
  /\ form \in [Editors -> Nat \cup {Closed}]
  /\ price \in Prices /\ job \in Job /\ clobbered \in BOOLEAN
  /\ spent \in [{"upsets", "changes"} -> Nat]

\* quota_used is what the requests charged since the last reset cost, each of
\* them once, whatever was retried, raced, repriced or cleared in between; only
\* saving a form opened before a charge breaks it (FinalizeRequest, UpdateKey).
QuotaExact == clobbered \/ used = owed

\* A request whose client did not get its answer is never charged: neither
\* failed attempts, nor losers, nor a delivery that broke off.
UndeliveredIsFree == \A r \in charged : req[r].served

\* "A virtual-cache validation failure must never leave a delivered request
\* uncharged": a delivered request is charged unless its row was not written or
\* was cleared, or the plain settlement itself failed.
DeliveredIsCharged ==
  \A r \in Requests :
    req[r].pc = "done" /\ req[r].served /\ ~req[r].excused => r \in charged

\* Once a request is delivered its extra cost is that of the losers: repricing
\* keeps apart winner and losers even when settlement overtakes its page read.
ExtraIsLosers ==
  \A i \in DOMAIN log :
    fin[log[i].req] = "delivered" =>
      log[i].extra = IF log[i].winner THEN 0 ELSE log[i].cost

\* Retention never takes the settlement of a winner whose row it keeps, and no
\* request has two winners.
WinnersSettled ==
  \A i \in DOMAIN log : log[i].winner =>
    /\ fin[log[i].req] = "delivered"
    /\ \A j \in DOMAIN log : log[j].winner /\ log[j].req = log[i].req => j = i

\* What a settlement charges is what its winner's row says at that moment:
\* repricing does not touch a row whose request is not finalized
\* ("FinalizeRequest still reads actual_cost when debiting the key").
Settles(r) == fin[r] = "none" /\ fin'[r] = "delivered"
ChargeMatchesRow ==
  [][\A r \in Requests : Settles(r) =>
       \A i \in DOMAIN log :
         log'[i].req = r /\ log'[i].winner => used' - used = Bill(r, log[i].cost)]_vars

\* A price change is worked off: the cursor passes rows that cannot be repriced
\* yet, pages that were deleted, and batches that failed.
RepricingEnds == (job.st # "idle") ~> (job.st = "idle")
=============================================================================
