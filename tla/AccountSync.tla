----------------------------- MODULE AccountSync -----------------------------
(***************************************************************************)
(* ApplySyncGroup (backend/syncer/service.go): the accounts configured for *)
(* a sync group are written to a target Sub2API site, one remote account   *)
(* per configured account, through a table that maps one to the other.     *)
(*                                                                         *)
(* Nothing serialises the calls: the scan of the rates applies the group   *)
(* periodically, an operator applies it at any time, edits it, or deletes  *)
(* what it manages, and every call to the target or to a source channel    *)
(* may fail, before or after it took effect.  What the program may rely on *)
(* is the next apply.                                                      *)
(*                                                                         *)
(* An account stands for its own source group: the group's rate is         *)
(* source[a].  A remote account is named after the position and the source *)
(* channel; its priority is that position.  Remote accounts the group did  *)
(* not name, weights, notes, model lists and notifications are left out;   *)
(* a group that is not bound is one that is gone.                          *)
(***************************************************************************)
EXTENDS Naturals, FiniteSets, Sequences, SequencesExt

CONSTANTS
    Accounts,         \* accounts the group has, or will be given
    ChannelOf,        \* the source channel of each
    Rates,            \* converted rates a source group may have
    Remotes,          \* identities the target gives to remote accounts
    Appliers,         \* callers of ApplySyncGroup ...
    Scanner,          \* ... and the one that is the scan of the rates
    FirstRates,       \* first rates of the source groups
    Edits,            \* what UpdateSyncGroup is called with: lists of accounts
                      \* and the enabled ones among them
    Scenarios,        \* the accounts the group is created with, and bounds
                      \* on the applies by hand, on the operator's edits and
                      \* on everything else that disturbs or fails
    Tested,           \* accounts whose remote account is tested
    SyncsModels,      \* model_limits_mode is sync_upstream
    DeleteGoneFails   \* the target answers 404 to a second deletion

ASSUME SyncAssumption ==
    /\ Scanner \in Appliers
    /\ Rates \subseteq Nat \ {0}
    /\ Remotes \subseteq Nat \ {0}
    /\ \A s \in Scenarios : s.list \in Seq(Accounts) /\ {s.manual, s.edits, s.events} \subseteq Nat
    /\ FirstRates \in [Accounts -> Rates]
    /\ Tested \subseteq Accounts
    /\ {SyncsModels, DeleteGoneFails} \subseteq BOOLEAN

Gone == 0                       \* the rate of a source group that is missing
Channels == {ChannelOf[a] : a \in Accounts}

VARIABLES
    rows,     \* upstream_sync_accounts
    maps,     \* upstream_sync_managed_accounts: remote account (0: no row) and position in its name
    keys,     \* source channel: the account whose group its key is bound to
    source,   \* rate of each account's source group
    chans,    \* source channels that exist
    remote,   \* accounts of the target
    job,      \* the running applies
    wiping,   \* a running DeleteManaged: the mappings it read
    left,     \* applies by hand and events that may still come
    status    \* apply_status of the group

vars == <<rows, maps, keys, source, chans, remote, job, wiping, left, status>>
tables == <<rows, maps>>
upstream == <<keys, source, chans>>

Rows == [st: {"fresh", "kept", "gone"}, pos: 0..Cardinality(Accounts), on: BOOLEAN]
Maps == [id: Remotes \cup {0}, pos: 0..Cardinality(Accounts)]
RemoteAccounts == [live: BOOLEAN, pos: 0..Cardinality(Accounts), ch: Channels,
                   rate: Rates \cup {Gone}, on: BOOLEAN, sched: BOOLEAN, key: BOOLEAN]

NoMap == [id |-> 0, pos |-> 0]
NoMaps == [a \in Accounts |-> NoMap]
NoRemote == [live |-> FALSE, pos |-> 0, ch |-> CHOOSE c \in Channels : TRUE,
             rate |-> Gone, on |-> FALSE, sched |-> FALSE, key |-> FALSE]
NoRemotes == [r \in Remotes |-> NoRemote]

\* at: the next call of an account's part of an apply; off: it is being
\* written as a disabled placeholder, or disabled after a failure.
Waiting == [at |-> "wait", id |-> 0, rate |-> Gone, off |-> FALSE]
Idle == [pc |-> "idle", list |-> <<>>, on |-> {}, seen |-> NoMaps, todo |-> {},
         before |-> NoRemotes, work |-> [a \in Accounts |-> Waiting],
         ok |-> {}, bad |-> {}, sick |-> {}, solo |-> FALSE, events |-> 0]

Kept == {a \in Accounts : rows[a].st = "kept"}
Mapped == {maps[a].id : a \in Accounts} \ {0}
\* mutant: the name does not hold the source channel.
Named_NoChannel(pos, ch) == {r \in Remotes : remote[r].live /\ remote[r].pos = pos}

Named(pos, ch) == {r \in Remotes : remote[r].live /\ remote[r].pos = pos /\ remote[r].ch = ch}

\* Identities are never given twice: one nobody remembers is as good as new.
KnownTo(j) ==
    {r \in Remotes : j.before[r].live} \cup j.todo
      \cup {j.work[a].id : a \in Accounts} \cup {j.seen[a].id : a \in Accounts}
Remembered ==
    Mapped \cup {r \in Remotes : remote[r].live} \cup {wiping[a].id : a \in Accounts}
      \cup (UNION {KnownTo(job[p]) : p \in Appliers})
Unborn == Remotes \ Remembered

InitOf(s) ==
    /\ rows = [a \in Accounts |->
                 LET I == {i \in DOMAIN s.list : s.list[i] = a}
                 IN  IF I = {} THEN [st |-> "fresh", pos |-> 0, on |-> FALSE]
                     ELSE [st |-> "kept", pos |-> (CHOOSE i \in I : TRUE) - 1, on |-> TRUE]]
    /\ maps = NoMaps
    /\ keys = [c \in Channels |-> {}]
    /\ source = FirstRates
    /\ chans = Channels
    /\ remote = NoRemotes
    /\ job = [p \in Appliers |-> Idle]
    /\ wiping = NoMaps
    /\ left = [manual |-> s.manual, edits |-> s.edits, events |-> s.events]
    /\ status = ""

Init == \E s \in Scenarios : InitOf(s)

Spend(what) == left[what] > 0 /\ left' = [left EXCEPT ![what] = @ - 1]

\* Somebody interferes with whatever is running.
Disturbed(j) == [p \in Appliers |-> [j[p] EXCEPT !.solo = FALSE]]
Disturb == job' = Disturbed(job)

(***************************************************************************)
(* ApplySyncGroup up to the accounts.                                      *)
(***************************************************************************)
Abort(p, st) == job' = [job EXCEPT ![p] = Idle] /\ status' = st

ByPosition(S) == SetToSortSeq(S, LAMBDA a, b : rows[a].pos < rows[b].pos)

\* The group, the target and the accounts are read.
Start(p) ==
    /\ job[p].pc = "idle"
    /\ IF p = Scanner THEN UNCHANGED left ELSE Spend("manual")
    /\ IF Kept = {}
       THEN status' = "failed" /\ Disturb
       ELSE /\ job' = [Disturbed(job) EXCEPT ![p] =
                        [Idle EXCEPT !.pc = "listed", !.list = ByPosition(Kept),
                                     !.on = {a \in Kept : rows[a].on},
                                     !.events = left.events,
                                     !.solo = wiping = NoMaps /\ \A q \in Appliers : job[q].pc = "idle"]]
            /\ UNCHANGED status
    /\ UNCHANGED <<tables, upstream, remote, wiping>>

(***************************************************************************)
(* sortAccountsForApply: accounts that are disabled or whose source group  *)
(* is not seen keep a place, the one in their remote name if the list is   *)
(* long enough for it, the next free one when it is taken; the others are  *)
(* sorted by rate into the places left.  A place nobody fills ends the     *)
(* list.                                                                   *)
(***************************************************************************)
KeepsPlace(j, a, down) ==
    \/ a \notin j.on
    \/ ChannelOf[a] \in down \/ ChannelOf[a] \notin chans
    \/ source[a] = Gone

WantedPlace(j, a) ==
    LET i == CHOOSE k \in DOMAIN j.list : j.list[k] = a
    IN  IF maps[a].id # 0 /\ maps[a].pos < Len(j.list) THEN maps[a].pos ELSE i - 1

\* Place by place: a sequence of accounts and empty places ({}).
Fixed(j, down) ==
    LET Free(f, p) == CHOOSE q \in p..(p + Len(j.list)) :
                        q \notin DOMAIN f /\ \A h \in p..(q - 1) : h \in DOMAIN f
        Place(f, a) == IF KeepsPlace(j, a, down)
                       THEN LET q == Free(f, WantedPlace(j, a))
                            IN  [h \in DOMAIN f \cup {q} |-> IF h = q THEN a ELSE f[h]]
                       ELSE f
    IN  FoldLeft(Place, [h \in {} |-> {}], j.list)

Sorted(j, down) ==
    LET index(a) == CHOOSE i \in DOMAIN j.list : j.list[i] = a
        cheaper(a, b) == \/ source[a] < source[b]
                         \/ source[a] = source[b] /\ index(a) < index(b)
    IN  SetToSortSeq({a \in ToSet(j.list) : ~KeepsPlace(j, a, down)}, cheaper)

sortAccountsForApply(j, down) ==
    LET fixed == Fixed(j, down)
        sorted == Sorted(j, down)
        n == Len(j.list)
        before(pos) == pos - Cardinality({h \in DOMAIN fixed : h < pos})
        filled(pos) == pos \in DOMAIN fixed \/ before(pos) < Len(sorted)
        m == CHOOSE k \in 0..n : (k = n \/ ~filled(k)) /\ \A h \in 0..(k - 1) : filled(h)
    IN  [i \in 1..m |-> IF i - 1 \in DOMAIN fixed THEN fixed[i - 1] ELSE sorted[before(i - 1) + 1]]

\* SaveForGroup with the rows read before: what became of them since is
\* overwritten, rows that are gone stay gone, others are deleted.
SaveForGroup(list, on) ==
    rows' = [a \in Accounts |->
               IF rows[a].st = "fresh" THEN rows[a]
               ELSE IF rows[a].st = "kept" /\ a \in ToSet(list)
               THEN [st |-> "kept", on |-> a \in on,
                     pos |-> (CHOOSE i \in DOMAIN list : list[i] = a) - 1]
               ELSE [st |-> "gone", pos |-> 0, on |-> FALSE]]

\* The source groups are listed (those of the channels in down cannot be),
\* the accounts are sorted and saved.
Sort(p) ==
    /\ job[p].pc = "listed"
    /\ \E down \in SUBSET Channels :
         LET list == sortAccountsForApply(job[p], down) IN
         /\ IF down = {} THEN UNCHANGED left ELSE Spend("events")
         /\ SaveForGroup(list, job[p].on)
         /\ job' = [job EXCEPT ![p].pc = "saved", ![p].list = list]
    /\ UNCHANGED <<maps, upstream, remote, wiping, status>>

\* The target groups are checked, the target is pinged, and
\* cleanupDeletedManagedAccounts reads the mappings: those whose account is
\* not in the list go.
Ping(p) ==
    /\ job[p].pc = "saved"
    /\ \/ /\ job' = [job EXCEPT ![p].pc = "reaping",
                        ![p].seen = [a \in Accounts |-> IF a \in ToSet(job[p].list) THEN NoMap ELSE maps[a]]]
          /\ UNCHANGED <<left, status>>
       \/ Spend("events") /\ \E st \in {status, "blocked"} : Abort(p, st)
    /\ UNCHANGED <<tables, upstream, remote, wiping>>

Delete(r) == remote' = [remote EXCEPT ![r] = NoRemote]

\* One mapping of these: the remote account first, then the row.
ReapRemote(p) ==
    /\ job[p].pc = "reaping"
    /\ \E a \in Accounts :
         LET r == job[p].seen[a].id IN
         /\ r # 0 /\ a \notin job[p].todo
         /\ \/ /\ remote[r].live \/ ~DeleteGoneFails
               /\ Delete(r)
               /\ job' = [job EXCEPT ![p].todo = {a}]
               /\ UNCHANGED <<left, status>>
            \/ ~remote[r].live /\ DeleteGoneFails /\ Abort(p, "failed") /\ UNCHANGED <<remote, left>>
            \/ /\ Spend("events") /\ Abort(p, "failed")
               /\ remote' \in {remote, [remote EXCEPT ![r] = NoRemote]}
    /\ job[p].todo = {}
    /\ UNCHANGED <<tables, upstream, wiping>>

ReapRow(p) ==
    /\ job[p].pc = "reaping" /\ job[p].todo # {}
    /\ LET a == CHOOSE b \in Accounts : b \in job[p].todo
       IN  /\ maps' = [maps EXCEPT ![a] = NoMap]
           /\ job' = [job EXCEPT ![p].todo = {}, ![p].seen[a] = NoMap]
    /\ UNCHANGED <<rows, upstream, remote, wiping, left, status>>

\* mutant: accounts no mapping knows are left on the target.
ListRemote_NoSweep(p) ==
    /\ job[p].pc = "reaping" /\ job[p].seen = NoMaps
    /\ job' = [job EXCEPT ![p].pc = "sweeping"]
    /\ UNCHANGED <<tables, upstream, remote, wiping, left, status>>

\* cleanupUnmanagedRemoteAccounts: the mappings are read, then the accounts
\* of the target (one step: what another apply creates and maps between the
\* two reads looks like what it creates before and maps after them).
ListRemote(p) ==
    /\ job[p].pc = "reaping" /\ job[p].seen = NoMaps
    /\ \/ /\ job' = [job EXCEPT ![p].pc = "sweeping", ![p].todo = {r \in Remotes : remote[r].live} \ Mapped]
          /\ UNCHANGED <<left, status>>
       \/ Spend("events") /\ Abort(p, "failed")
    /\ UNCHANGED <<tables, upstream, remote, wiping>>

Sweep(p) ==
    /\ job[p].pc = "sweeping"
    /\ \E r \in job[p].todo :
         \/ /\ remote[r].live \/ ~DeleteGoneFails
            /\ Delete(r)
            /\ job' = [job EXCEPT ![p].todo = @ \ {r}]
            /\ UNCHANGED <<left, status>>
         \/ ~remote[r].live /\ DeleteGoneFails /\ Abort(p, "failed") /\ UNCHANGED <<remote, left>>
         \/ Spend("events") /\ Abort(p, "failed") /\ UNCHANGED remote
    /\ UNCHANGED <<tables, upstream, wiping>>

\* remoteBeforeByID
Snapshot(p) ==
    /\ job[p].pc = "sweeping" /\ job[p].todo = {}
    /\ job' = [job EXCEPT ![p].pc = "working", ![p].before = remote]
    /\ UNCHANGED <<tables, upstream, remote, wiping, left, status>>

(***************************************************************************)
(* applyAccountsConcurrently: the accounts of one source channel in the    *)
(* order of the list, those of different channels side by side (fewer      *)
(* channels than workers).  Each action is one call to a channel, to the   *)
(* target or to the database.                                              *)
(***************************************************************************)
AtWork(p, a, at) ==
    /\ job[p].pc = "working"
    /\ a \in ToSet(job[p].list)
    /\ job[p].work[a].at = at

Place(p, a) == (CHOOSE i \in DOMAIN job[p].list : job[p].list[i] = a) - 1

MyTurn(p, a) ==
    /\ AtWork(p, a, "wait")
    /\ \A i \in 1..Place(p, a) :
         LET b == job[p].list[i]
         IN  ChannelOf[b] = ChannelOf[a] => job[p].work[b].at = "done"

Go(p, a, at) == job' = [job EXCEPT ![p].work[a].at = at]
GoOff(p, a, at) == job' = [job EXCEPT ![p].work[a].at = at, ![p].work[a].off = TRUE]
GoWith(p, a, at, r) == job' = [job EXCEPT ![p].work[a].at = at, ![p].work[a].id = r]

\* The account's outcome; a failure is one when the account is enabled.
Ends(p, a, applied) ==
    job' = [job EXCEPT ![p].work[a] = [Waiting EXCEPT !.at = "done"],
                       ![p].ok = IF applied THEN @ \cup {a} ELSE @,
                       ![p].bad = IF applied THEN @ ELSE @ \cup {a}]
Fails(p, a) == Spend("events") /\ Ends(p, a, FALSE)

\* What an apply asks the target to hold for the account: the request of
\* applyAccount, or that of the disabled placeholder.
Request(p, a, old) ==
    [live |-> TRUE, pos |-> Place(p, a), ch |-> ChannelOf[a], rate |-> job[p].work[a].rate,
     on |-> ~job[p].work[a].off, sched |-> old, key |-> ~job[p].work[a].off]

\* applyAccountWithCleanup: the channel and its source groups are read and
\* the source key, one per channel and sync group, is bound to the group.
Prepare(p, a) ==
    LET c == ChannelOf[a] IN
    /\ MyTurn(p, a)
    /\ \/ a \notin job[p].on /\ Go(p, a, "off") /\ UNCHANGED <<keys, left>>
       \/ a \in job[p].on /\ c \notin chans /\ Go(p, a, "off") /\ UNCHANGED <<keys, left>>
       \/ a \in job[p].on /\ c \in chans /\ source[a] = Gone /\ GoOff(p, a, "put") /\ UNCHANGED <<keys, left>>
       \/ /\ a \in job[p].on /\ c \in chans /\ source[a] # Gone
          /\ keys' = [keys EXCEPT ![c] = {a}]
          /\ job' = [job EXCEPT ![p].work[a].at = "put", ![p].work[a].rate = source[a]]
          /\ UNCHANGED left
       \/ /\ a \in job[p].on /\ c \in chans
          /\ keys' \in {keys, [keys EXCEPT ![c] = {a}]}
          /\ Fails(p, a)
    /\ UNCHANGED <<tables, source, chans, remote, wiping, status>>

AfterPut(p, a) == IF SyncsModels /\ ~job[p].work[a].off THEN "models" ELSE "sched"

\* UpdateAccount of r: without a response the write may have happened.
Update(p, a, r) ==
    \/ /\ remote[r].live
       /\ remote' = [remote EXCEPT ![r] = Request(p, a, @.sched)]
       /\ GoWith(p, a, AfterPut(p, a), r)
       /\ UNCHANGED left
    \/ /\ remote' \in {remote, IF remote[r].live THEN [remote EXCEPT ![r] = Request(p, a, @.sched)] ELSE remote}
       /\ Fails(p, a)

\* mutant: a mapped account that has been deleted fails the apply.
Put_NeedsMapped(p, a) ==
    LET r == maps[a].id IN
    /\ AtWork(p, a, "put")
    /\ \/ r # 0 /\ Update(p, a, r)
       \/ r # 0 /\ ~remote[r].live /\ Ends(p, a, FALSE) /\ UNCHANGED <<remote, left>>
       \/ r = 0 /\ Go(p, a, "find") /\ UNCHANGED <<remote, left>>
    /\ UNCHANGED <<tables, upstream, wiping, status>>

\* The mapped remote account is updated; the placeholder's only when the
\* snapshot has it.  One that is not there any more is looked up by name.
Put(p, a) ==
    LET r == maps[a].id
        known == r # 0 /\ (job[p].work[a].off => job[p].before[r].live)
    IN  /\ AtWork(p, a, "put")
        /\ \/ known /\ Update(p, a, r)
           \/ /\ known => ~remote[r].live
              /\ Go(p, a, "find")
              /\ UNCHANGED <<remote, left>>
        /\ UNCHANGED <<tables, upstream, wiping, status>>

\* FindAccountByName: the position's name, with the channel's.
Find(p, a) ==
    /\ AtWork(p, a, "find")
    /\ LET found == Named(Place(p, a), ChannelOf[a])
       IN  \/ \E r \in found : GoWith(p, a, "reuse", r) /\ UNCHANGED left
           \/ found = {} /\ Go(p, a, "create") /\ UNCHANGED left
           \/ Fails(p, a)
    /\ UNCHANGED <<tables, upstream, remote, wiping, status>>

Reuse(p, a) ==
    LET r == job[p].work[a].id IN
    /\ AtWork(p, a, "reuse")
    /\ \/ Update(p, a, r)
       \/ ~remote[r].live /\ Ends(p, a, FALSE) /\ UNCHANGED <<remote, left>>
    /\ UNCHANGED <<tables, upstream, wiping, status>>

Create(p, a) ==
    /\ AtWork(p, a, "create")
    /\ Unborn # {}
    /\ LET r == CHOOSE n \in Unborn : \A m \in Unborn : n <= m
           made == [remote EXCEPT ![r] = Request(p, a, TRUE)]
       IN  \/ remote' = made /\ GoWith(p, a, AfterPut(p, a), r) /\ UNCHANGED left
           \/ remote' \in {remote, made} /\ Fails(p, a)
    /\ UNCHANGED <<tables, upstream, wiping, status>>

\* SyncAccountModelsFromUpstream; disableManagedTargetAfterApplyFailure
\* follows when it fails.
SyncModels(p, a) ==
    /\ AtWork(p, a, "models")
    /\ \/ Go(p, a, "sched") /\ UNCHANGED left
       \/ Spend("events") /\ Go(p, a, "undo")
    /\ UNCHANGED <<tables, upstream, remote, wiping, status>>

\* One that has gone meanwhile is mapped all the same.
Undo(p, a) ==
    LET r == job[p].work[a].id IN
    /\ AtWork(p, a, "undo")
    /\ \/ /\ remote[r].live
          /\ remote' = [remote EXCEPT ![r] = [Request(p, a, @.sched) EXCEPT !.on = FALSE]]
          /\ GoOff(p, a, "sched")
          /\ UNCHANGED <<maps, left>>
       \/ /\ ~remote[r].live
          /\ maps' = [maps EXCEPT ![a] = [id |-> r, pos |-> Place(p, a)]]
          /\ Ends(p, a, FALSE)
          /\ UNCHANGED <<remote, left>>
       \/ Fails(p, a) /\ UNCHANGED <<remote, maps>>
    /\ UNCHANGED <<rows, upstream, wiping, status>>

\* syncRemoteAccountSchedulable, then Upsert of the mapping (one step: a
\* failure may come between them).
Schedule(p, a) ==
    LET w == job[p].work[a]
        scheduled == [remote EXCEPT ![w.id].sched = ~w.off]
    IN  /\ AtWork(p, a, "sched")
        /\ \/ /\ remote[w.id].live
              /\ remote' = scheduled
              /\ maps' = [maps EXCEPT ![a] = [id |-> w.id, pos |-> Place(p, a)]]
              /\ IF w.off THEN Ends(p, a, FALSE)
                 ELSE IF a \in Tested THEN Go(p, a, "test") ELSE Ends(p, a, TRUE)
              /\ UNCHANGED left
           \/ ~remote[w.id].live /\ Ends(p, a, FALSE) /\ UNCHANGED <<remote, maps, left>>
           \/ /\ remote' \in {remote, IF remote[w.id].live THEN scheduled ELSE remote}
              /\ Fails(p, a)
              /\ UNCHANGED maps
        /\ UNCHANGED <<rows, upstream, wiping, status>>

\* testManagedTargetAccount: a failed test takes the account out of the
\* scheduling and is no failure of the apply.
Test(p, a) ==
    LET r == job[p].work[a].id IN
    /\ AtWork(p, a, "test")
    /\ \/ /\ remote[r].live
          /\ remote' = [remote EXCEPT ![r].sched = TRUE]
          /\ Ends(p, a, TRUE)
          /\ UNCHANGED left
       \/ /\ remote[r].live
          /\ remote' = [remote EXCEPT ![r].sched = FALSE]
          /\ Spend("events")
          /\ job' = [job EXCEPT ![p].work[a] = [Waiting EXCEPT !.at = "done"],
                                ![p].ok = @ \cup {a}, ![p].sick = @ \cup {a}]
       \/ ~remote[r].live /\ Ends(p, a, FALSE) /\ UNCHANGED <<remote, left>>
       \/ Fails(p, a) /\ UNCHANGED remote
    /\ UNCHANGED <<tables, upstream, wiping, status>>

\* An account that is disabled has no outcome; that of an enabled one whose
\* channel is gone is a failure.
SkipEnds(p, a) ==
    IF a \in job[p].on THEN Ends(p, a, FALSE) ELSE Go(p, a, "done")

\* disableManagedTargetForSkippedAccount: what the snapshot knows of the
\* mapped account is written back, inactive.
Off(p, a) ==
    LET r == maps[a].id
        known == r # 0 /\ job[p].before[r].live
        already == known /\ ~job[p].before[r].on /\ ~job[p].before[r].sched
    IN  /\ AtWork(p, a, "off")
        /\ \/ (~known \/ already) /\ SkipEnds(p, a) /\ UNCHANGED <<remote, left>>
           \/ /\ known /\ remote[r].live
              /\ remote' = [remote EXCEPT ![r] = [job[p].before[r] EXCEPT !.on = FALSE, !.sched = remote[r].sched]]
              /\ GoWith(p, a, "unsched", r)
              /\ UNCHANGED left
           \/ known /\ ~remote[r].live /\ SkipEnds(p, a) /\ UNCHANGED <<remote, left>>
           \/ known /\ Fails(p, a) /\ UNCHANGED remote
        /\ UNCHANGED <<tables, upstream, wiping, status>>

Unschedule(p, a) ==
    LET r == job[p].work[a].id IN
    /\ AtWork(p, a, "unsched")
    /\ \/ /\ remote[r].live
          /\ remote' = [remote EXCEPT ![r].sched = FALSE]
          /\ SkipEnds(p, a)
          /\ UNCHANGED left
       \/ ~remote[r].live /\ Ends(p, a, FALSE) /\ UNCHANGED <<remote, left>>
       \/ Fails(p, a) /\ UNCHANGED remote
    /\ UNCHANGED <<tables, upstream, wiping, status>>

\* The outcomes are counted ("failed" stands for blocked_missing_group too).
Finish(p) ==
    /\ job[p].pc = "working"
    /\ \A a \in ToSet(job[p].list) : job[p].work[a].at = "done"
    /\ Abort(p, IF job[p].ok = {} \/ job[p].bad # {} THEN "failed" ELSE "applied")
    /\ UNCHANGED <<tables, upstream, remote, wiping, left>>

AccountStep(p, a) ==
    \/ Prepare(p, a) \/ Put(p, a) \/ Find(p, a) \/ Reuse(p, a) \/ Create(p, a)
    \/ SyncModels(p, a) \/ Undo(p, a) \/ Schedule(p, a) \/ Test(p, a)
    \/ Off(p, a) \/ Unschedule(p, a)

Running(p) ==
    \/ Sort(p) \/ Ping(p) \/ ReapRemote(p) \/ ReapRow(p)
    \/ ListRemote(p) \/ Sweep(p) \/ Snapshot(p)
    \/ \E a \in Accounts : AccountStep(p, a)
    \/ Finish(p)

(***************************************************************************)
(* The operator, the sources, the target and the process.                  *)
(***************************************************************************)
\* UpdateSyncGroup: SaveForGroup with the operator's list; an account that
\* had no row is created.
Edit ==
    /\ Spend("edits")
    /\ \E e \in Edits :
         /\ \A a \in ToSet(e.list) : rows[a].st # "gone"
         /\ rows' = [a \in Accounts |->
                      IF a \in ToSet(e.list)
                      THEN [st |-> "kept", on |-> a \in e.on,
                            pos |-> (CHOOSE i \in DOMAIN e.list : e.list[i] = a) - 1]
                      ELSE IF rows[a].st = "kept" THEN [st |-> "gone", pos |-> 0, on |-> FALSE]
                      ELSE rows[a]]
    /\ Disturb
    /\ UNCHANGED <<maps, upstream, remote, wiping, status>>

\* DeleteManaged: the remote accounts of the mappings read are deleted
\* (errors are ignored), then the keys and all mappings of the group.
WipeRemote ==
    /\ Spend("events")
    /\ wiping = NoMaps /\ maps # NoMaps
    /\ \E missed \in SUBSET Mapped :
         remote' = [r \in Remotes |-> IF r \in Mapped \ missed THEN NoRemote ELSE remote[r]]
    /\ wiping' = maps
    /\ Disturb
    /\ UNCHANGED <<tables, upstream, status>>

WipeRows ==
    /\ wiping # NoMaps
    /\ keys' = [c \in Channels |->
                  IF \E a \in Kept : ChannelOf[a] = c /\ wiping[a].id # 0 THEN {} ELSE keys[c]]
    /\ maps' = NoMaps
    /\ wiping' = NoMaps
    /\ UNCHANGED <<rows, source, chans, remote, job, left, status>>

\* A source group changes its rate, vanishes or comes back.
SourceChanges ==
    /\ Spend("events")
    /\ \E a \in Accounts : \E r \in (Rates \cup {Gone}) \ {source[a]} : source' = [source EXCEPT ![a] = r]
    /\ Disturb
    /\ UNCHANGED <<tables, keys, chans, remote, wiping, status>>

ChannelDeleted ==
    /\ Spend("events")
    /\ \E c \in chans : chans' = chans \ {c}
    /\ Disturb
    /\ UNCHANGED <<tables, keys, source, remote, wiping, status>>

\* The target's own administrator deletes an account.
RemoteLost ==
    /\ Spend("events")
    /\ \E r \in Remotes : remote[r].live /\ Delete(r)
    /\ Disturb
    /\ UNCHANGED <<tables, upstream, wiping, status>>

\* The process stops; DeleteManaged stops with it.
Crash ==
    /\ Spend("events")
    /\ job # [p \in Appliers |-> Idle] \/ wiping # NoMaps
    /\ job' = [p \in Appliers |-> Idle]
    /\ wiping' = NoMaps
    /\ UNCHANGED <<tables, upstream, remote, status>>

Environment == Edit \/ WipeRemote \/ SourceChanges \/ ChannelDeleted \/ RemoteLost \/ Crash

Next ==
    \/ \E p \in Appliers : Start(p) \/ Running(p)
    \/ WipeRows
    \/ Environment

\* The cron job of the rates comes round; calls end, by their timeouts.
Fairness ==
    /\ WF_vars(Start(Scanner))
    /\ \A p \in Appliers : WF_vars(Running(p))
    /\ WF_vars(WipeRows)

Spec == Init /\ [][Next]_vars /\ Fairness

(***************************************************************************)
(* Properties                                                              *)
(***************************************************************************)
TypeOK ==
    /\ rows \in [Accounts -> Rows]
    /\ maps \in [Accounts -> Maps]
    /\ \A c \in Channels : keys[c] \subseteq Accounts /\ Cardinality(keys[c]) <= 1
    /\ source \in [Accounts -> Rates \cup {Gone}]
    /\ chans \subseteq Channels
    /\ remote \in [Remotes -> RemoteAccounts]
    /\ wiping \in [Accounts -> Maps]
    /\ \A p \in Appliers :
         /\ job[p].list \in Seq(Accounts) /\ IsInjective(job[p].list)
         /\ job[p].before \in [Remotes -> RemoteAccounts]
         /\ (job[p].ok \cup job[p].bad) \subseteq ToSet(job[p].list)
         /\ job[p].ok \cap job[p].bad = {}

\* An enabled account is served: its own remote account has its place,
\* its current rate and a key bound to its source group, and is scheduled.
ServedBy(a, r) ==
    /\ remote[r].live
    /\ remote[r].pos = rows[a].pos /\ remote[r].ch = ChannelOf[a]
    /\ remote[r].rate = source[a]
    /\ remote[r].on /\ remote[r].key
    /\ keys[ChannelOf[a]] = {a}

ClosedTo(a) ==
    maps[a].id # 0 /\ remote[maps[a].id].live
        => ~remote[maps[a].id].on /\ ~remote[maps[a].id].sched

Usable(a) == rows[a].on /\ ChannelOf[a] \in chans /\ source[a] # Gone

\* The target is what the configuration says: every usable account has its
\* remote account, all others are closed, an account that was there for a
\* source group which is gone still is, and there is nothing else.
Exact(untested) ==
    /\ \A a \in Kept :
         IF Usable(a)
         THEN /\ maps[a].id # 0 /\ ServedBy(a, maps[a].id)
              /\ remote[maps[a].id].sched \/ a \in untested
         ELSE /\ ClosedTo(a)
              /\ rows[a].on /\ ChannelOf[a] \in chans => maps[a].id # 0 /\ remote[maps[a].id].live
    /\ {r \in Remotes : remote[r].live} \subseteq {maps[a].id : a \in Kept}

\* An apply nobody interfered with leaves the target exact when it reports
\* success, and also when it reports failures although no call failed (a
\* source group or channel is gone).  A test that failed may keep an account
\* out of the scheduling.
ApplyIsExact ==
    [][\A p \in Appliers :
          /\ Finish(p) /\ job[p].solo
          /\ status' = "applied" \/ job[p].events = left.events
          => Exact(job[p].sick)]_vars

\* Two accounts never share a remote account: what one of them writes, or
\* the deletion of one, would hit the other.
OwnRemote ==
    \A a, b \in Accounts : a # b /\ maps[a].id # 0 => maps[a].id # maps[b].id

\* Whatever was interrupted, overlapped or failed, the scans of the rates
\* bring the target back (a group without accounts is not applied at all).
TargetConverges == <>[](Kept = {} \/ Exact({}))

\* The apply keeps the accounts it read: one that cannot be applied keeps
\* its slot ("保留同步槽位", README.zh.md:1352).
SlotsKept ==
    [][\A p \in Appliers : Sort(p) => \A a \in Kept \cap ToSet(job[p].list) : rows'[a].st = "kept"]_vars
=============================================================================
