------------------------------ MODULE RateScan ------------------------------
(***************************************************************************)
(* The scans of a channel (backend/monitor/service.go): RefreshBalance and *)
(* RefreshRates, which several callers may run at once - cron does not     *)
(* wait for the last run, and the API scans on demand - with the snapshots *)
(* and the change log they keep (storage/rates.go), the announcements, and *)
(* the dispatcher that tells the subscribers (notify/dispatcher.go).       *)
(* Every scan first takes a session (ChannelSession).                      *)
(*                                                                         *)
(* Ratios are small numbers after the channel's multiplier; 0 is no group. *)
(* A message is what it reports; the attempts of sendWithRetry are one     *)
(* step with the outcome of the last.  Failure alerts, which nothing       *)
(* limits, and the balances themselves are left out.                       *)
(***************************************************************************)
EXTENDS ChannelSession

CONSTANTS
    Groups, Ratios,
    Notices,        \* what the upstream may announce
    Subscribers,    \* enabled notification channels
    Wants,          \* the rate events and groups each has subscribed to
    MinChangePct,
    Windows         \* how many cooldown windows a behaviour sees

ASSUME ScanAssumption ==
    /\ Ratios \subseteq Nat \ {0}
    /\ Wants \in [Subscribers -> SUBSET ({"changed", "added", "removed"} \X Groups)]
    /\ MinChangePct \in Nat /\ Windows \in Nat \ {0}
    /\ Notices \cap (1..Windows) = {}

VARIABLES
    offered,    \* external: the upstream's groups and their ratios
    listed,     \* external: its announcements
    snap,       \* rate_snapshots
    logged,     \* the newest ratio in rate_change_logs, per group
    posts,      \* upstream_announcements
    cooldown,   \* the row of notification_cooldowns for balance_low
    window,     \* counts the windows
    told,       \* how often each subscriber was told of an alert or a notice,
                \* by scans no deletion of the channel overtook
    scan        \* the scans' own variables

scanVars == <<offered, listed, snap, logged, posts, cooldown, window, told, scan>>
vars == <<sessionVars, scanVars>>
external == <<offered, listed>>
alerts == <<cooldown, window>>

Absent == 0
Nothing == [g \in Groups |-> Absent]
Named(f) == {g \in Groups : f[g] # Absent}
Alerts == (1..Windows) \cup Notices
RatesOf == [Groups -> Ratios \cup {Absent}]

ASSUME ScenariosSound ==
    Scenarios \subseteq
      [modes : SUBSET Modes, saved : SUBSET BOOLEAN, kind : [Jobs -> {"rates", "balance", "call", "test"}],
       events : SUBSET (Operations \cup {"call", "fault", "expire", "reoffer", "publish", "retain"}), budget : Nat,
       offers : SUBSET RatesOf, known : SUBSET RatesOf, posted : SUBSET SUBSET Notices, keys : SUBSET SUBSET Groups]

NoScan == [results |-> Nothing, existing |-> Nothing, keys |-> Groups, todo |-> {}, at |-> <<>>,
           report |-> {}, news |-> {}, quiet |-> FALSE, outbox |-> {}, alone |-> FALSE, overtaken |-> FALSE]

Init ==
    /\ SessionInit
    /\ offered \in plan.offers /\ listed = {}
    /\ snap \in plan.known /\ logged = snap
    /\ posts \in plan.posted
    /\ cooldown = "none" /\ window = 1
    /\ told = [s \in Subscribers |-> [a \in Alerts |-> 0]]
    /\ scan = [j \in Jobs |-> NoScan]

Is(j, kind, pc) == plan.kind[j] = kind /\ job[j].pc = pc

\* A step of a scan that has its session: it leaves all of that alone.
Step(j, pc) ==
    /\ job' = [job EXCEPT ![j] = [Idle EXCEPT !.pc = pc]]
    /\ UNCHANGED <<row, session, op, lost, late, tokens>>
End(j) == scan' = [scan EXCEPT ![j] = NoScan]

\* Another scan of the rates is under way.
Overlaps(j) == \E k \in Jobs \ {j} : plan.kind[k] = "rates" /\ job[k].pc # "idle"

Start(j) ==
    /\ Begin(j)
    /\ scan' = [k \in Jobs |-> IF k = j THEN [NoScan EXCEPT !.alone = ~Overlaps(j)]
                               ELSE IF plan.kind[j] = "rates" THEN [scan[k] EXCEPT !.alone = FALSE]
                               ELSE scan[k]]
    /\ UNCHANGED <<external, snap, logged, posts, alerts, told>>

Prepare(j) ==
    /\ SessionStep(j) \/ CheckFails(j) \/ RefreshLost(j)
    /\ scan' = IF job'[j].pc = "idle" THEN [scan EXCEPT ![j] = NoScan] ELSE scan
    /\ UNCHANGED <<external, snap, logged, posts, alerts, told>>

-----------------------------------------------------------------------------
\* RefreshRates: the upstream's groups, then the snapshots there are.
GetRates(j) ==
    /\ Is(j, "rates", "ready")
    /\ \/ scan' = [scan EXCEPT ![j].results = offered] /\ Step(j, "list") /\ UNCHANGED rest
       \/ Fault /\ End(j) /\ Step(j, "idle")
    /\ UNCHANGED <<external, snap, logged, posts, alerts, told>>

\* keys is every group where the switch is off, or the keys cannot be listed.
ListByChannel(j) ==
    /\ Is(j, "rates", "list")
    /\ \E K \in plan.keys :
         scan' = [scan EXCEPT ![j].existing = snap, ![j].keys = K, ![j].todo = Named(scan[j].results)]
    /\ Step(j, "upsert")
    /\ UNCHANGED <<external, snap, logged, posts, alerts, told, rest>>

isFirstSync(c) == Named(c.existing) = {}

\* Upsert reads the group's row and writes it in a second statement.
UpsertRead(j) ==
    /\ Is(j, "rates", "upsert")
    /\ \E g \in scan[j].todo :
         scan' = [scan EXCEPT ![j].todo = @ \ {g}, ![j].at = <<g, snap[g]>>]
    /\ Step(j, "write")
    /\ UNCHANGED <<external, snap, logged, posts, alerts, told, rest>>

Item(ev, g, old, new) == [ev |-> ev, group |-> g, old |-> old, new |-> new]

\* What one written group adds to the report; prev is the row as it was read.
Noted(c, g, prev) ==
    IF g \notin c.keys \/ prev = c.results[g] \/ (prev = Absent /\ isFirstSync(c)) THEN {}
    ELSE {Item(IF prev = Absent THEN "added" ELSE "changed", g, prev, c.results[g])}

\* An insert fails when another scan was faster, and the group is passed over.
UpsertWrite(j) ==
    /\ Is(j, "rates", "write")
    /\ LET c == scan[j]  g == c.at[1]  prev == c.at[2]  new == c.results[g]
           clash == prev = Absent /\ snap[g] # Absent IN
       /\ snap' = IF clash THEN snap ELSE [snap EXCEPT ![g] = new]
       /\ logged' = IF prev \notin {Absent, new} THEN [logged EXCEPT ![g] = new] ELSE logged
       /\ scan' = [scan EXCEPT ![j].at = <<>>, ![j].report = IF clash THEN @ ELSE @ \cup Noted(c, g, prev)]
    /\ Step(j, "upsert")
    /\ UNCHANGED <<external, posts, alerts, told, rest>>

\* mutant: the filter of the report also filters what is deleted.
Gone_InKeys(c) == c.keys \cap (Named(c.existing) \ Named(c.results))

Gone(c) == Named(c.existing) \ Named(c.results)

Written(j) ==
    /\ Is(j, "rates", "upsert") /\ scan[j].todo = {}
    /\ scan' = [scan EXCEPT ![j].todo = Gone(scan[j])]
    /\ Step(j, "remove")
    /\ UNCHANGED <<external, snap, logged, posts, alerts, told, rest>>

DeleteSnapshot(j) ==
    /\ Is(j, "rates", "remove")
    /\ \E g \in scan[j].todo :
         /\ snap' = [snap EXCEPT ![g] = Absent]
         /\ scan' = [scan EXCEPT ![j].todo = @ \ {g}, ![j].report = @ \cup
              (IF g \in scan[j].keys THEN {Item("removed", g, scan[j].existing[g], Absent)} ELSE {})]
    /\ Step(j, "remove")
    /\ UNCHANGED <<external, logged, posts, alerts, told, rest>>

\* DispatchRateBatch leaves out small changes, DispatchRateStructureBatch sends
\* the rest; each subscriber gets the part it has subscribed to.
Magnitude(i) == IF i.new > i.old THEN i.new - i.old ELSE i.old - i.new
ChangePctAbove(i) == Magnitude(i) * 100 >= MinChangePct * i.old
Matching(s, items) ==
    {i \in items : <<i.ev, i.group>> \in Wants[s] /\ (i.ev = "changed" => ChangePctAbove(i))}
Messages(items) ==
    {[to |-> s, what |-> Matching(s, items)] : s \in {r \in Subscribers : Matching(r, items) # {}}}

Report(j) ==
    /\ Is(j, "rates", "remove") /\ scan[j].todo = {}
    /\ scan' = [scan EXCEPT ![j].report = {}, ![j].outbox = Messages(scan[j].report)]
    /\ Step(j, "tell")
    /\ UNCHANGED <<external, snap, logged, posts, alerts, told, rest>>

-----------------------------------------------------------------------------
\* sendOne, over the subscribers: each message is delivered or, when its last
\* attempt fails, gone.  Nothing here depends on what becomes of rate messages.
SendRates(j) ==
    /\ Is(j, "rates", "tell")
    /\ scan' = [scan EXCEPT ![j] = [NoScan EXCEPT !.alone = scan[j].alone,
                                                  !.overtaken = scan[j].overtaken]]
    /\ Step(j, "announce")
    /\ UNCHANGED <<external, snap, logged, posts, alerts, told, rest>>

Send(j) ==
    /\ job[j].pc \in {"tell news", "tell low"}
    /\ \E m \in scan[j].outbox :
         /\ scan' = [scan EXCEPT ![j].outbox = @ \ {m}]
         /\ \/ /\ told' = IF scan[j].overtaken THEN told
                          ELSE [told EXCEPT ![m.to] = [a \in Alerts |-> IF a \in m.what THEN @[a] + 1 ELSE @[a]]]
               /\ UNCHANGED rest
            \/ Fault /\ UNCHANGED told
    /\ Step(j, job[j].pc)
    /\ UNCHANGED <<external, snap, logged, posts, alerts>>

Sent(j) ==
    /\ job[j].pc \in {"tell news", "tell low"} /\ scan[j].outbox = {}
    /\ Step(j, "idle") /\ End(j)
    /\ UNCHANGED <<external, snap, logged, posts, alerts, told, rest>>

\* syncAnnouncements: what the upstream announces is inserted row by row, and what
\* was not there is told - but nothing of a channel that had none before.
GetAnnouncements(j) ==
    /\ Is(j, "rates", "announce")
    /\ \/ /\ listed = {} /\ End(j) /\ Step(j, "idle") /\ UNCHANGED rest
       \/ /\ listed # {}
          /\ scan' = [scan EXCEPT ![j].todo = listed, ![j].quiet = (posts = {})]
          /\ Step(j, "post") /\ UNCHANGED rest
       \/ Fault /\ End(j) /\ Step(j, "idle")
    /\ UNCHANGED <<external, snap, logged, posts, alerts, told>>

Inserted(k) == k \notin posts

SyncAnnouncement(j) ==
    /\ Is(j, "rates", "post")
    /\ \E k \in scan[j].todo :
         /\ posts' = posts \cup {k}
         /\ scan' = [scan EXCEPT ![j].todo = @ \ {k}, ![j].news = IF Inserted(k) THEN @ \cup {k} ELSE @]
    /\ Step(j, "post")
    /\ UNCHANGED <<external, snap, logged, alerts, told, rest>>

Announce(j) ==
    /\ Is(j, "rates", "post") /\ scan[j].todo = {}
    /\ scan' = [scan EXCEPT ![j].outbox = IF scan[j].quiet THEN {}
                  ELSE [to : Subscribers, what : {{k} : k \in scan[j].news}]]
    /\ Step(j, "tell news")
    /\ UNCHANGED <<external, snap, logged, posts, alerts, told, rest>>

-----------------------------------------------------------------------------
\* RefreshBalance, as far as the alert it may send.
GetBalance(j) ==
    /\ Is(j, "balance", "ready")
    /\ \/ Step(j, "claim") /\ UNCHANGED <<scan, rest>>
       \/ Step(j, "idle") /\ End(j) /\ UNCHANGED rest   \* it is above the threshold
       \/ Fault /\ Step(j, "idle") /\ End(j)
    /\ UNCHANGED <<external, snap, logged, posts, alerts, told>>

\* mutant: the claim does not ask whether the window has passed.
Claimable_AnyRow == cooldown # "none"

\* TryClaimCooldown: take over a row whose window has passed, else insert one.
Alert(j, a) == scan' = [scan EXCEPT ![j].outbox = [to : Subscribers, what : {{a}}]]
Claimable == cooldown = "over"

ClaimExpired(j) ==
    /\ Is(j, "balance", "claim")
    /\ IF Claimable THEN cooldown' = "running" /\ Alert(j, window) /\ Step(j, "tell low")
       ELSE UNCHANGED <<cooldown, scan>> /\ Step(j, "insert")
    /\ UNCHANGED <<external, snap, logged, posts, window, told, rest>>

\* A claim that fails sends all the same, which told does not count.
ClaimFails(j) ==
    /\ job[j].pc \in {"claim", "insert"} /\ Fault
    /\ End(j) /\ Step(j, "idle")
    /\ UNCHANGED <<external, snap, logged, posts, alerts, told>>

InsertClaim(j) ==
    /\ Is(j, "balance", "insert")
    /\ IF cooldown = "none" THEN cooldown' = "running" /\ Alert(j, window) /\ Step(j, "tell low")
       ELSE UNCHANGED cooldown /\ End(j) /\ Step(j, "idle")
    /\ UNCHANGED <<external, snap, logged, posts, window, told, rest>>

-----------------------------------------------------------------------------
\* The rest of the world.  The cooldown's window passes; a delay longer than the
\* window, between the two statements of a claim, is left out.
WindowEnds ==
    /\ cooldown = "running" /\ window < Windows
    /\ \A j \in Jobs : job[j].pc # "insert"
    /\ cooldown' = "over" /\ window' = window + 1
    /\ UNCHANGED <<sessionVars, external, snap, logged, posts, told, scan>>

Reoffer ==
    /\ offered' \in plan.offers \ {offered} /\ Happens("reoffer")
    /\ UNCHANGED <<row, session, tokens, job, op, lost, late, listed, snap, logged, posts, alerts, told, scan>>

Publish ==
    /\ \E k \in Notices \ listed : listed' = listed \cup {k}
    /\ Happens("publish")
    /\ UNCHANGED <<row, session, tokens, job, op, lost, late, offered, snap, logged, posts, alerts, told, scan>>

\* Retention deletes rows days after their notice: the notice is new again.
Retain ==
    /\ Happens("retain")
    /\ \A j \in Jobs : job[j].pc \notin {"post", "tell news"}
    /\ \E k \in posts :
         /\ posts' = posts \ {k}
         /\ told' = [s \in Subscribers |-> [told[s] EXCEPT ![k] = 0]]
    /\ UNCHANGED <<row, session, tokens, job, op, lost, late, external, snap, logged, alerts, scan>>

\* Deleting the channel takes its snapshots, announcements and cooldown along; a
\* scan under way goes on with its copy of the row.
Operate ==
    /\ (\E kind \in Operations : Ask(kind)) \/ Drop \/ Save
    /\ LET gone == op.pc = "save" /\ op.kind = "delete" IN
       /\ snap' = IF gone THEN Nothing ELSE snap
       /\ logged' = IF gone THEN Nothing ELSE logged
       /\ posts' = IF gone THEN {} ELSE posts
       /\ cooldown' = IF gone THEN "none" ELSE cooldown
       /\ scan' = IF gone THEN [j \in Jobs |-> IF job[j].pc = "idle" THEN scan[j]
                                             ELSE [scan[j] EXCEPT !.alone = FALSE, !.overtaken = TRUE]]
                  ELSE scan
       /\ told' = IF gone THEN [s \in Subscribers |-> [a \in Alerts |-> 0]] ELSE told
    /\ UNCHANGED <<external, window>>

ScanStep(j) ==
    \/ Prepare(j)
    \/ GetRates(j) \/ ListByChannel(j) \/ UpsertRead(j) \/ UpsertWrite(j) \/ Written(j)
    \/ DeleteSnapshot(j) \/ Report(j) \/ SendRates(j) \/ Send(j) \/ Sent(j)
    \/ GetAnnouncements(j) \/ SyncAnnouncement(j) \/ Announce(j)
    \/ GetBalance(j) \/ ClaimExpired(j) \/ InsertClaim(j) \/ ClaimFails(j)

Next ==
    \/ \E j \in Jobs : Start(j) \/ ScanStep(j)
    \/ Operate \/ WindowEnds \/ Reoffer \/ Publish \/ Retain
    \/ Expire /\ UNCHANGED scanVars

\* Cron starts its scans again and again, and a scan that runs goes on.
Fairness == \A j \in Jobs : WF_vars(Start(j)) /\ WF_vars(ScanStep(j))

Spec == Init /\ [][Next]_vars /\ Fairness

-----------------------------------------------------------------------------
\* What the results of a scan differ in from the snapshots it found.
Difference(c) ==
    {Item("changed", g, c.existing[g], c.results[g]) :
        g \in {h \in c.keys : Absent \notin {c.existing[h], c.results[h]} /\ c.existing[h] # c.results[h]}}
      \cup {Item("added", g, Absent, c.results[g]) :
        g \in {h \in c.keys \cap Named(c.results) : c.existing[h] = Absent /\ Named(c.existing) # {}}}
      \cup {Item("removed", g, c.existing[g], Absent) :
        g \in {h \in c.keys \cap Named(c.existing) : c.results[h] = Absent}}

\* A scan of the rates that no other scan overlapped leaves the snapshots as the
\* upstream had them and the log up to date, and reports exactly the difference:
\* each change, addition and removal once, to those who want it (RefreshRates).
LoneScanIsExact ==
    \A j \in Jobs : (Is(j, "rates", "tell") /\ scan[j].alone) =>
      /\ snap = scan[j].results
      /\ \A g \in Named(snap) : scan[j].existing[g] \notin {Absent, snap[g]} => logged[g] = snap[g]
      /\ scan[j].outbox = Messages(Difference(scan[j]))

\* However the scans overlap, a subscriber is told once that the balance is low
\* in a window of the cooldown (TryClaimCooldown), once of an announcement as
\* long as its row is kept (Sync inserts it or finds it), and by a scan of the
\* rates that was alone of what it found, no more and no less.  A deletion takes
\* those rows away under a running scan, which may tell again.
ToldOnce ==
    /\ \A s \in Subscribers, a \in Alerts : told[s][a] <= 1
    /\ LoneScanIsExact

\* The upstream's groups may change while scans overlap and fail: while the
\* channel can be scanned, the snapshots end up as the upstream has them.
Reachable == row.live /\ (row.mode = "token" => row.tok \in spendable)
SnapshotsConverge == <>[]Reachable => <>[](snap = offered)

\* The variables keep their shape.
TypeOK ==
    /\ SessionTypeOK
    /\ offered \in RatesOf /\ snap \in RatesOf
    /\ listed \subseteq Notices /\ posts \subseteq Notices
    /\ cooldown \in {"none", "running", "over"} /\ window \in 1..Windows
=============================================================================
