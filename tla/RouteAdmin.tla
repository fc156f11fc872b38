----------------------------- MODULE RouteAdmin -----------------------------
(***************************************************************************)
(* The routes of one gateway group under administration                    *)
(* (backend/gateway/admin_routes.go, rate_limit.go; GatewayRoutes in       *)
(* backend/storage/gateway.go).  Three things rewrite the same rows:       *)
(*                                                                         *)
(*   - the operator saves a form he opened earlier (SaveRoutes);           *)
(*   - the end of a rate scan reorders and reprices the list and puts      *)
(*     routes over the group's limit out of use (ResortRoutesOnRateScan,   *)
(*     applyRateLimitForGroup);                                            *)
(*   - EnsureRouteKeys finds, or creates, each route's key at the upstream *)
(*     and binds it to the row.                                            *)
(*                                                                         *)
(* Each of them reads the rows, calls the upstream and writes afterwards.  *)
(* A save replaces the whole list in one transaction; the credential and   *)
(* the limit flag are kept from the row it finds there, not from the list. *)
(*                                                                         *)
(* The sources are the groups of one monitored channel; a group is priced  *)
(* by its ratio, unconverted.  A key is its number at the upstream, which  *)
(* gives it a name and a group; the stable name of a source is the source. *)
(***************************************************************************)
EXTENDS Integers, Sequences, FiniteSets, SequencesExt

CONSTANTS
  Sources, Ensurers,
  Legacy,          \* the name of a key from before the stable names
  Limit,           \* the group's max_billing_rate_multiplier
  Ratios,          \* what the upstream may charge
  CreateAnswers,   \* how a creation may end: "created", "refused", "lost"
  Budgets,         \* bounds: how many edits, scans, moves of a price and sweeps
  MaxRows, MaxKeys \* bounds

ASSUME PricesSound == Sources # {} /\ Legacy \notin Sources /\ Limit \in Nat /\ Ratios \subseteq Nat
ASSUME RoomSound ==
  MaxRows \in Nat /\ MaxKeys \in Nat /\ Budgets \subseteq [{"edits", "scans", "moves", "sweeps"} -> Nat]

VARIABLES
  routes,    \* the rows, by position
  nextId,
  ratio,     \* what the upstream charges for each source
  cached,    \* the channel's group list in the gateway's cache
  keys,      \* the upstream's keys
  jobs,      \* the operator's save and the scan's rewrite
  tasks,     \* the goroutines of EnsureRouteKeys
  strayed,   \* history: a key was bound to a row whose source had changed
  crashed,   \* the process has panicked
  left       \* what is left of the budget

adminVars == <<routes, nextId, ratio, cached, keys, jobs, tasks, strayed, crashed, left>>

NoKey == 0
Unpriced == [s \in Sources |-> 0]
Row(i, s) == [id |-> i, source |-> s, key |-> NoKey, over |-> FALSE, billing |-> 1]
Rows(list) == {list[i] : i \in DOMAIN list}
IdsOf(list) == {r.id : r \in Rows(list)}
RowWith(list, i) == CHOOSE r \in Rows(list) : r.id = i

Admins == {"operator", "scan"}
IdleJob == [pc |-> "idle", list |-> << >>]
IdleTask == [pc |-> "idle", row |-> Row(0, CHOOSE s \in Sources : TRUE), key |-> NoKey]

-----------------------------------------------------------------------------
(* Rates. *)

\* RateForRoute, for a route that takes its group's ratio as it is: the ratio
\* of its group in the list, else what the row was last billed at.
RateForRoute(r, groups) == IF groups[r.source] > 0 THEN groups[r.source] ELSE r.billing

\* rateLimitState
OverLimit(rate) == Limit > 0 /\ rate > Limit

\* orderRoutesForGroup, OrderRoutesByRate: the cheap first, ties by place.  The
\* set has one element.
Ordered(list, groups) ==
  LET rate(i) == RateForRoute(list[i], groups)
      before(i, j) == rate(i) < rate(j) \/ (rate(i) = rate(j) /\ i < j)
      orders == {place \in [DOMAIN list -> DOMAIN list] :
                   \A p, q \in DOMAIN list : p < q => before(place[p], place[q])}
  IN  {[p \in DOMAIN list |-> [list[place[p]] EXCEPT !.billing = rate(place[p])]] : place \in orders}

\* The rows of the list whose flag is to change, in their order, with the flag
\* to be.  The set has one element.
Reflagged(list, groups) ==
  LET flagged(r) == [r EXCEPT !.over = OverLimit(RateForRoute(r, groups))]
      changed == {p \in DOMAIN list : flagged(list[p]) # list[p]}
      count == Cardinality(changed)
      orders == {place \in [1..count -> changed] :
                   \A p, q \in 1..count : p < q => place[p] < place[q]}
  IN  {[p \in 1..count |-> flagged(list[place[p]])] : place \in orders}

\* loadGroupsByChannel, as its callers here see it: the cached list, else what
\* the upstream answers, which may be nothing.  The answer is cached.
LoadGroups(groups) ==
  /\ IF cached.held THEN groups = cached.groups ELSE groups \in {ratio, Unpriced}
  /\ cached' = [held |-> TRUE, groups |-> groups]

-----------------------------------------------------------------------------
(* The transaction that replaces the list. *)

\* Mutated form: the credential and the flag are those of the list.
Kept_FromList(item) == item

\* Mutated form: a row keeps its credential whatever its source becomes.
Kept_AnySource(item) ==
  IF item.id \in IdsOf(routes)
    THEN [item EXCEPT !.key = RowWith(routes, item.id).key,
                      !.over = RowWith(routes, item.id).over]
    ELSE [item EXCEPT !.key = NoKey, !.over = FALSE]

\* gatewayRouteSourceEqual and what SaveForGroup takes from the row it finds.
Kept(item) ==
  IF item.id \in IdsOf(routes) /\ RowWith(routes, item.id).source = item.source
    THEN [item EXCEPT !.key = RowWith(routes, item.id).key,
                      !.over = RowWith(routes, item.id).over]
    ELSE [item EXCEPT !.key = NoKey, !.over = FALSE]

\* A row that is not there, or no longer, is created.
SaveForGroup(list) ==
  LET new == {p \in DOMAIN list : list[p].id \notin IdsOf(routes)}
      idAt(p) == IF p \in new THEN nextId + Cardinality({q \in new : q < p}) ELSE list[p].id
  IN  /\ routes' = [p \in DOMAIN list |-> [Kept(list[p]) EXCEPT !.id = idAt(p)]]
      /\ nextId' = nextId + Cardinality(new)

-----------------------------------------------------------------------------
AdminInit ==
  /\ \E s, t \in Sources, legacy \in BOOLEAN :
       /\ routes = << [Row(1, s) EXCEPT !.key = IF legacy THEN 1 ELSE NoKey], Row(2, t) >>
       /\ keys = IF legacy THEN << [name |-> Legacy, group |-> s] >> ELSE << >>
  /\ nextId = 3
  /\ ratio = [s \in Sources |-> 1]
  /\ cached = [held |-> FALSE, groups |-> Unpriced]
  /\ jobs = [a \in Admins |-> IdleJob]
  /\ tasks = [e \in Ensurers |-> IdleTask]
  /\ strayed = FALSE /\ crashed = FALSE
  /\ left \in Budgets

ensuring == <<keys, tasks, strayed, crashed>>
rows == <<routes, nextId>>

Spend(what) == left[what] > 0 /\ left' = [left EXCEPT ![what] = @ - 1]
At(a, pc) == jobs[a].pc = pc /\ ~crashed
GoOn(a, pc, list) == jobs' = [jobs EXCEPT ![a] = [pc |-> pc, list |-> list]]

\* What the operator may make of the form: another source, one route less, or
\* one more.
Edits(form) ==
  {[form EXCEPT ![p].source = s] : p \in DOMAIN form, s \in Sources}
  \cup {RemoveAt(form, p) : p \in DOMAIN form}
  \cup {Append(form, Row(0, s)) : s \in {t \in Sources : Len(form) < MaxRows}}

\* The operator opens the page.
OpenForm ==
  /\ At("operator", "idle") /\ Spend("edits")
  /\ GoOn("operator", "form", routes)
  /\ UNCHANGED <<rows, ratio, cached, ensuring>>

\* SaveRoutes up to the transaction.
SubmitForm ==
  /\ At("operator", "form")
  /\ \E edited \in Edits(jobs["operator"].list), groups \in {cached.groups, ratio, Unpriced} :
     \E list \in Ordered(edited, groups) :
       LoadGroups(groups) /\ GoOn("operator", "saving", list)
  /\ UNCHANGED <<rows, ratio, ensuring, left>>

\* The scan ends: InvalidateChannelGroupsCache.
BeginResort ==
  /\ At("scan", "idle") /\ Spend("scans")
  /\ cached' = [held |-> FALSE, groups |-> Unpriced]
  /\ GoOn("scan", "listing", << >>)
  /\ UNCHANGED <<rows, ratio, ensuring>>

\* reorderRoutesPersisted reads the rows.  An empty list has nothing to order.
ListForResort ==
  /\ At("scan", "listing")
  /\ GoOn("scan", IF routes = << >> THEN "limiting" ELSE "ordering", routes)
  /\ UNCHANGED <<rows, ratio, cached, ensuring, left>>

\* orderRoutesForGroup
Resort ==
  /\ At("scan", "ordering")
  /\ \E groups \in {cached.groups, ratio, Unpriced} : \E list \in Ordered(jobs["scan"].list, groups) :
       LoadGroups(groups) /\ GoOn("scan", "saving", list)
  /\ UNCHANGED <<rows, ratio, ensuring, left>>

\* The transaction, or its failure: the scan goes on to the limit all the same,
\* the operator is told.
Save(a) ==
  /\ At(a, "saving")
  /\ \/ SaveForGroup(jobs[a].list) /\ GoOn(a, "limiting", << >>)
     \/ UNCHANGED rows /\ GoOn(a, IF a = "scan" THEN "limiting" ELSE "idle", << >>)
  /\ UNCHANGED <<ratio, cached, ensuring, left>>

\* applyRateLimitForGroup reads the rows.
ReadForLimit(a) ==
  /\ At(a, "limiting")
  /\ GoOn(a, IF routes = << >> THEN "idle" ELSE "weighing", routes)
  /\ UNCHANGED <<rows, ratio, cached, ensuring, left>>

\* Only the rows whose flag is to change remain, with the flag to be.
Weigh(a) ==
  /\ At(a, "weighing")
  /\ \E groups \in {cached.groups, ratio, Unpriced} : \E list \in Reflagged(jobs[a].list, groups) :
       LoadGroups(groups) /\ GoOn(a, IF list = << >> THEN "idle" ELSE "flagging", list)
  /\ UNCHANGED <<rows, ratio, ensuring, left>>

\* SetRateLimitAutoDisabled, row after row.
Flag(a) ==
  /\ At(a, "flagging")
  /\ LET item == Head(jobs[a].list)
         rest == Tail(jobs[a].list)
     IN  /\ routes' = [p \in DOMAIN routes |->
              IF routes[p].id = item.id THEN [routes[p] EXCEPT !.over = item.over] ELSE routes[p]]
         /\ GoOn(a, IF rest = << >> THEN "idle" ELSE "flagging", rest)
  /\ UNCHANGED <<nextId, ratio, cached, ensuring, left>>

-----------------------------------------------------------------------------
(* EnsureRouteKeys: ensureRouteKeyResult and ensureSourceAPIKey. *)

Task(e, pc) == tasks[e].pc = pc /\ ~crashed
Move(e, pc, k) == tasks' = [tasks EXCEPT ![e].pc = pc, ![e].key = k]
GiveUp(e) == tasks' = [tasks EXCEPT ![e] = IdleTask]
administration == <<rows, ratio, cached, jobs, left>>

\* A sweep takes the row as it reads it.
StartEnsure(e) ==
  /\ Task(e, "idle") /\ Spend("sweeps")
  /\ \E r \in Rows(routes) :
       tasks' = [tasks EXCEPT ![e] = [pc |-> "locking", row |-> r, key |-> NoKey]]
  /\ UNCHANGED <<rows, ratio, cached, jobs, keys, strayed, crashed>>

Holders(name) == {e \in Ensurers : tasks[e].pc \notin {"idle", "locking"} /\ tasks[e].row.source = name}

\* Mutated form: the lock is the route's own.
LockFree_PerRoute(r) == \A e \in Holders(r.source) : tasks[e].row.id # r.id

\* lockEnsureUpstreamKey: one goroutine per stable name.
LockFree(r) == Holders(r.source) = {}

Lock(e) ==
  /\ Task(e, "locking") /\ LockFree(tasks[e].row)
  /\ Move(e, "finding", NoKey)
  /\ UNCHANGED <<administration, keys, strayed, crashed>>

Named(name) == {k \in DOMAIN keys : keys[k].name = name}

\* findManagedSourceAPIKey: by the stable name, else the key the row has.
Find(e) ==
  /\ Task(e, "finding")
  /\ LET row == tasks[e].row
     IN  \/ /\ Named(row.source) # {}
            /\ \E k \in Named(row.source) : Move(e, "updating", k)
         \/ /\ Named(row.source) = {} /\ row.key # NoKey
            /\ Move(e, "updating", row.key)
         \/ /\ Named(row.source) = {} /\ row.key = NoKey
            /\ Move(e, "creating", NoKey)
         \/ GiveUp(e)
  /\ UNCHANGED <<administration, keys, strayed, crashed>>

\* The name and the group that a managed key is given.
Managed(name) == [name |-> name, group |-> name]

Update(e) ==
  /\ Task(e, "updating")
  /\ \/ /\ keys' = [keys EXCEPT ![tasks[e].key] = Managed(tasks[e].row.source)]
        /\ Move(e, "revealing", tasks[e].key)
     \/ GiveUp(e) /\ UNCHANGED keys
  /\ UNCHANGED <<administration, strayed, crashed>>

\* A creation that fails is looked up once more; "lost" is one that the
\* upstream made all the same.  The key that the lookup finds is another
\* variable than the one the next statement uses.
Create(e) ==
  LET name == tasks[e].row.source
      made == Append(keys, Managed(name))
  IN  /\ Task(e, "creating") /\ Len(keys) < MaxKeys
      /\ \/ /\ "created" \in CreateAnswers
            /\ keys' = made /\ Move(e, "revealing", Len(made)) /\ UNCHANGED crashed
         \/ /\ "refused" \in CreateAnswers
            /\ GiveUp(e) /\ UNCHANGED <<keys, crashed>>
         \/ /\ "lost" \in CreateAnswers
            /\ keys' = made /\ GiveUp(e) /\ crashed' \in BOOLEAN
      /\ UNCHANGED <<administration, strayed>>

Reveal(e) ==
  /\ Task(e, "revealing")
  /\ Move(e, "binding", tasks[e].key) \/ GiveUp(e)
  /\ UNCHANGED <<administration, keys, strayed, crashed>>

\* UpdateSourceKey writes by the number of the row.
Bind(e) ==
  LET row == tasks[e].row
  IN  /\ Task(e, "binding")
      /\ routes' = [p \in DOMAIN routes |->
           IF routes[p].id = row.id THEN [routes[p] EXCEPT !.key = tasks[e].key] ELSE routes[p]]
      /\ strayed' = (strayed \/ \E r \in Rows(routes) : r.id = row.id /\ r.source # row.source)
      /\ GiveUp(e)
      /\ UNCHANGED <<nextId, ratio, cached, jobs, left, keys, crashed>>

-----------------------------------------------------------------------------
\* The upstream changes a price.
Reprice(s) ==
  /\ Spend("moves") /\ ~crashed
  /\ \E r \in Ratios \ {ratio[s]} : ratio' = [ratio EXCEPT ![s] = r]
  /\ UNCHANGED <<rows, cached, jobs, ensuring>>

\* The background refresh of an old list.
Refresh ==
  /\ cached.held /\ cached.groups # ratio /\ ~crashed
  /\ cached' = [held |-> TRUE, groups |-> ratio]
  /\ UNCHANGED <<rows, ratio, jobs, left, ensuring>>

\* The process is started anew; the rows and the upstream's keys remain.
Restart ==
  /\ crashed /\ crashed' = FALSE
  /\ jobs' = [a \in Admins |-> IdleJob] /\ tasks' = [e \in Ensurers |-> IdleTask]
  /\ cached' = [held |-> FALSE, groups |-> Unpriced]
  /\ UNCHANGED <<rows, ratio, keys, strayed, left>>

AdminNext ==
  \/ OpenForm \/ SubmitForm \/ BeginResort \/ ListForResort \/ Resort \/ Refresh \/ Restart
  \/ \E a \in Admins : Save(a) \/ ReadForLimit(a) \/ Weigh(a) \/ Flag(a)
  \/ \E e \in Ensurers :
       StartEnsure(e) \/ Lock(e) \/ Find(e) \/ Update(e) \/ Create(e) \/ Reveal(e) \/ Bind(e)
  \/ \E s \in Sources : Reprice(s)

AdminSpec == AdminInit /\ [][AdminNext]_adminVars

-----------------------------------------------------------------------------
\* A route sends its traffic with a key of its own source, whatever was edited
\* and reused while keys were being ensured - unless a key was bound to a row
\* whose source the operator had changed since the sweep read it.
CredentialFits ==
  strayed \/ \A r \in Rows(routes) : r.key # NoKey => keys[r.key].group = r.source

\* A save made from an old list neither loses nor brings back a credential or
\* the limit's verdict on a route that keeps its source.
NothingOldReturns ==
  [][\A a \in Admins : jobs[a].pc = "saving" =>
       \A r \in Rows(routes), t \in Rows(routes') :
         jobs'[a] # jobs[a] /\ r.id = t.id /\ r.source = t.source => r.key = t.key /\ r.over = t.over]_adminVars

\* "avoid concurrent Create": at most one key of the upstream bears the stable
\* name of a source.
OneManagedKey == \A s \in Sources : Cardinality(Named(s)) <= 1

\* "If it can be found again, bind it safely; otherwise keep the error of the
\* creation": ensuring a key does not end the process.
EnsureSurvives == ~crashed

=============================================================================
