------------------------- MODULE GatewayState_proofs -------------------------
(***************************************************************************)
(* What the gateway keeps of its tables is safe for any goroutines, keys,  *)
(* prices and bounds: the caches that are invalidated (GatewayCaches), the *)
(* routes under administration (RouteAdmin) and the two-second snapshots   *)
(* (ReadCache).                                                            *)
(*                                                                         *)
(* The invariant of RouteAdmin says of each writer that what it took along *)
(* from an earlier read may still be acted on: a list to be saved has no   *)
(* number twice and none that is yet to be given; a goroutine that is      *)
(* about to create a key still finds none of that name, since it is alone  *)
(* with the name; and, until a key strays, the key in its hands is of the  *)
(* source it was read for.                                                 *)
(***************************************************************************)
EXTENDS ReadCache, RouteAdmin, GatewayCaches, TLAPS, FiniteSetTheorems

-----------------------------------------------------------------------------
(* GatewayCaches: what an invalidation dropped stays dropped. *)

\* A fetch: what it got is a list, or NoList.
FetchCall == [pc : {"free", "asking", "read", "done"}, epoch : Nat, got : Nat]
\* An asker: where it is, the call it waits for, what it left with.
Asker == [pc : {"away", "waiting", "storing"}, on : Nat, got : Nat, late : BOOLEAN]

\* The variables of GroupsCache have their types, and a waiter waits for a call.
ListTyped ==
  /\ listed \in Nat /\ covered \in Nat /\ epoch \in Nat /\ covered <= listed
  /\ list \in [there : BOOLEAN, version : Nat, late : BOOLEAN]
  /\ registered \in {NoCall} \cup Fetches
  /\ calls \in [Fetches -> FetchCall]
  /\ askers \in [Askers -> Asker]
  /\ \A k \in Askers : askers[k].pc = "waiting" => askers[k].on \in Fetches

\* A call of the present generation has seen what the last invalidation covers.
FetchSound(c) ==
  /\ calls[c].epoch <= epoch
  /\ calls[c].epoch = epoch /\ calls[c].got # NoList => calls[c].got >= covered

\* So has the answer that an asker is about to store, unless he is late.
AskerSound(k) ==
  askers[k].pc = "storing" /\ ~askers[k].late /\ askers[k].got # NoList => askers[k].got >= covered

\* ListIsCurrent and what makes it inductive.
ListInv ==
  ListTyped /\ ListIsCurrent /\ (\A c \in Fetches : FetchSound(c)) /\ (\A k \in Askers : AskerSound(k))

\* Calls are numbers other than NoCall.
LEMMA FetchesTyped == Fetches \subseteq Nat /\ NoCall \notin Fetches
<1>1. Cardinality(Askers) \in Nat
  BY AskersFinite, FS_CardinalityType
<1> QED
  BY <1>1 DEF Fetches, NoCall

\* The initial state satisfies the invariant.
LEMMA ListInitSound == ListInit => ListInv
  BY DEF ListInit, ListInv, ListTyped, ListIsCurrent, FetchSound, AskerSound, FetchCall, Asker,
         Free, Gone, NoAnswer, NoList, NoCall

\* A fetch that is started has seen nothing yet and is of the present generation; the
\* other calls are as they were.
LEMMA StartFetchSound ==
  ASSUME ListTyped, NEW cs \in [Fetches -> FetchCall], StartFetch(cs)
  PROVE  /\ Joined \in Fetches /\ registered' = Joined
         /\ calls' \in [Fetches -> FetchCall]
         /\ \A c \in Fetches : calls'[c] = cs[c] \/ (calls'[c].epoch = epoch /\ calls'[c].got = NoList)
<1>1. Joined \in Fetches
  BY DEF StartFetch, Joined, ListTyped
<1> QED
  BY <1>1 DEF StartFetch, ListTyped, FetchCall, Free, NoList

\* A waiter that leaves removes at most a call that nobody waits for.
LEMMA LeftTyped ==
  ASSUME ListTyped, NEW k \in Askers, askers[k].pc = "waiting"
  PROVE  /\ Left(k) \in [Fetches -> FetchCall]
         /\ \A c \in Fetches : Left(k)[c] = calls[c] \/ (Left(k)[c].epoch = 0 /\ Left(k)[c].got = NoList)
<1>1. askers[k].on \in Fetches
  BY DEF ListTyped
<1>2. Free \in FetchCall /\ Free.epoch = 0 /\ Free.got = NoList
  BY DEF Free, FetchCall, NoList
<1> QED
  BY <1>1, <1>2 DEF Left, ListTyped

\* Every step of GroupsCache keeps the invariant.
LEMMA ListStepSound == ListInv /\ [ListNext]_listVars => ListInv'
<1> SUFFICES ASSUME ListInv, [ListNext]_listVars PROVE ListInv'
  OBVIOUS
<1> USE DEF ListInv
<1>1. ASSUME NEW k \in Askers, AskOld(k) PROVE ListInv'
  <2>1. calls \in [Fetches -> FetchCall] /\ StartFetch(calls) /\ UNCHANGED <<listed, covered, list, epoch, askers>>
    BY <1>1 DEF AskOld, ListTyped
  <2>2. /\ Joined \in Fetches /\ registered' = Joined
        /\ calls' \in [Fetches -> FetchCall]
        /\ \A c \in Fetches : calls'[c] = calls[c] \/ (calls'[c].epoch = epoch /\ calls'[c].got = NoList)
    BY <2>1, StartFetchSound
  <2> QED
    BY <2>1, <2>2 DEF ListTyped, ListIsCurrent, FetchSound, AskerSound
<1>2. ASSUME NEW k \in Askers, AskMissing(k) PROVE ListInv'
  <2>1. /\ calls \in [Fetches -> FetchCall] /\ StartFetch(calls) /\ UNCHANGED <<listed, covered, list, epoch>>
        /\ askers' = [askers EXCEPT ![k] = [Gone EXCEPT !.pc = "waiting", !.on = Joined]]
    BY <1>2 DEF AskMissing, ListTyped
  <2>2. /\ Joined \in Fetches /\ registered' = Joined
        /\ calls' \in [Fetches -> FetchCall]
        /\ \A c \in Fetches : calls'[c] = calls[c] \/ (calls'[c].epoch = epoch /\ calls'[c].got = NoList)
    BY <2>1, StartFetchSound
  <2>3. ListTyped'
    BY <2>1, <2>2, FetchesTyped DEF ListTyped, Asker, Gone, NoCall, NoList
  <2>4. \A c \in Fetches : FetchSound(c)'
    BY <2>1, <2>2 DEF FetchSound, ListTyped
  <2>5. \A j \in Askers : AskerSound(j)'
    BY <2>1 DEF AskerSound, ListTyped, Gone
  <2> QED
    BY <2>1, <2>3, <2>4, <2>5 DEF ListIsCurrent
<1>3. ASSUME NEW k \in Askers, Wake(k) PROVE ListInv'
  <2> DEFINE call == calls[askers[k].on]
  <2>1. /\ askers[k].pc = "waiting" /\ call.epoch = epoch
        /\ askers' = [askers EXCEPT ![k] = [Gone EXCEPT !.pc = "storing", !.got = call.got]]
        /\ calls' = Left(k) /\ UNCHANGED <<listed, covered, list, epoch, registered>>
    BY <1>3 DEF Wake
  <2>2. /\ askers[k].on \in Fetches /\ call \in FetchCall /\ FetchSound(askers[k].on)
        /\ calls' \in [Fetches -> FetchCall]
        /\ \A c \in Fetches : calls'[c] = calls[c] \/ (calls'[c].epoch = 0 /\ calls'[c].got = NoList)
    BY <2>1, LeftTyped DEF ListTyped
  <2>3. ListTyped'
    BY <2>1, <2>2 DEF ListTyped, Asker, FetchCall, Gone, NoCall, NoList
  <2>4. \A c \in Fetches : FetchSound(c)'
    BY <2>1, <2>2 DEF FetchSound, ListTyped
  <2>5. \A j \in Askers : AskerSound(j)'
    BY <2>1, <2>2 DEF AskerSound, FetchSound, ListTyped, Gone
  <2> QED
    BY <2>1, <2>3, <2>4, <2>5 DEF ListIsCurrent
<1>4. ASSUME NEW k \in Askers, WakeAgain(k) PROVE ListInv'
  <2>1. /\ askers[k].pc = "waiting" /\ StartFetch(Left(k)) /\ UNCHANGED <<listed, covered, list, epoch>>
        /\ askers' = [askers EXCEPT ![k].on = Joined]
    BY <1>4 DEF WakeAgain
  <2>2. /\ Left(k) \in [Fetches -> FetchCall]
        /\ \A c \in Fetches : Left(k)[c] = calls[c] \/ (Left(k)[c].epoch = 0 /\ Left(k)[c].got = NoList)
    BY <2>1, LeftTyped
  <2>3. /\ Joined \in Fetches /\ registered' = Joined
        /\ calls' \in [Fetches -> FetchCall]
        /\ \A c \in Fetches : calls'[c] = Left(k)[c] \/ (calls'[c].epoch = epoch /\ calls'[c].got = NoList)
    BY <2>1, <2>2, StartFetchSound
  <2>4. ListTyped'
    BY <2>1, <2>3, FetchesTyped DEF ListTyped, Asker
  <2>5. \A c \in Fetches : FetchSound(c)'
    BY <2>1, <2>2, <2>3 DEF FetchSound, ListTyped
  <2>6. \A j \in Askers : AskerSound(j)'
    BY <2>1 DEF AskerSound, ListTyped, Asker
  <2> QED
    BY <2>1, <2>4, <2>5, <2>6 DEF ListIsCurrent
<1>5. ASSUME NEW k \in Askers, Leave(k) PROVE ListInv'
  <2>1. /\ askers[k].pc = "waiting"
        /\ askers' = [askers EXCEPT ![k] = [Gone EXCEPT !.pc = "storing"]]
        /\ calls' = Left(k) /\ UNCHANGED <<listed, covered, list, epoch, registered>>
    BY <1>5 DEF Leave
  <2>2. /\ calls' \in [Fetches -> FetchCall]
        /\ \A c \in Fetches : calls'[c] = calls[c] \/ (calls'[c].epoch = 0 /\ calls'[c].got = NoList)
    BY <2>1, LeftTyped
  <2>3. ListTyped'
    BY <2>1, <2>2 DEF ListTyped, Asker, Gone, NoCall, NoList
  <2>4. \A c \in Fetches : FetchSound(c)'
    BY <2>1, <2>2 DEF FetchSound, ListTyped
  <2>5. \A j \in Askers : AskerSound(j)'
    BY <2>1 DEF AskerSound, ListTyped, Gone
  <2> QED
    BY <2>1, <2>3, <2>4, <2>5 DEF ListIsCurrent
<1>6. ASSUME NEW k \in Askers, Store(k) PROVE ListInv'
  <2>1. AskerSound(k) /\ askers[k] \in Asker
    BY DEF ListTyped
  <2> QED
    BY <1>6, <2>1 DEF Store, ListTyped, ListIsCurrent, FetchSound, AskerSound, Asker, Gone, NoList, NoCall
<1>7. ASSUME NEW c \in Fetches, Fetch(c) PROVE ListInv'
  <2>1. PICK got \in {listed, NoList} : calls' = [calls EXCEPT ![c].pc = "read", ![c].got = got]
    BY <1>7 DEF Fetch
  <2>2. UNCHANGED <<listed, covered, list, epoch, registered, askers>>
    BY <1>7 DEF Fetch
  <2>3. got \in Nat /\ (got # NoList => got >= covered)
    BY DEF ListTyped, NoList
  <2>4. ListTyped'
    BY <2>1, <2>2, <2>3 DEF ListTyped, FetchCall
  <2>5. \A d \in Fetches : FetchSound(d)'
    BY <2>1, <2>2, <2>3 DEF FetchSound, ListTyped, FetchCall
  <2> QED
    BY <2>2, <2>4, <2>5 DEF ListIsCurrent, AskerSound
<1>8. ASSUME NEW c \in Fetches, Land(c) PROVE ListInv'
  <2>1. /\ Ended(c) \in FetchCall
        /\ \/ Ended(c).epoch = calls[c].epoch /\ Ended(c).got = calls[c].got
           \/ Ended(c).epoch = 0 /\ Ended(c).got = NoList
    <3>1. calls[c] \in FetchCall /\ Free \in FetchCall /\ Free.epoch = 0 /\ Free.got = NoList
      BY DEF ListTyped, Free, FetchCall, NoList
    <3> DEFINE over == [calls[c] EXCEPT !.pc = "done"]
    <3>2. over \in FetchCall /\ over.epoch = calls[c].epoch /\ over.got = calls[c].got
      BY <3>1 DEF FetchCall
    <3>3. Ended(c) = over \/ Ended(c) = Free
      BY DEF Ended
    <3> QED
      BY <3>1, <3>2, <3>3
  <2>2. FetchSound(c) /\ calls[c] \in FetchCall
    BY DEF ListTyped
  <2>3. UNCHANGED <<listed, covered, epoch, askers>> /\ calls' = [calls EXCEPT ![c] = Ended(c)]
    BY <1>8 DEF Land
  <2>4. ListTyped'
    BY <1>8, <2>1, <2>2, <2>3 DEF Land, ListTyped, FetchCall
  <2>5. ListIsCurrent'
    BY <1>8, <2>2, <2>3 DEF Land, Lands, ListIsCurrent, FetchSound
  <2>6. \A d \in Fetches : FetchSound(d)'
    BY <2>1, <2>3 DEF FetchSound, ListTyped
  <2> QED
    BY <2>3, <2>4, <2>5, <2>6 DEF AskerSound
<1>9. CASE InvalidateList
  <2>1. \A c \in Fetches : FetchSound(c)'
    BY <1>9 DEF InvalidateList, FetchSound, ListTyped, FetchCall
  <2>2. \A k \in Askers : askers'[k] \in Asker /\ askers'[k].pc = askers[k].pc
                          /\ askers'[k].on = askers[k].on /\ (askers'[k].pc = "storing" => askers'[k].late)
    <3> TAKE k \in Askers
    <3>1. askers'[k] = [askers[k] EXCEPT !.late = (askers[k].pc = "storing")] /\ askers[k] \in Asker
      BY <1>9 DEF InvalidateList, ListTyped
    <3>2. (askers[k].pc = "storing") \in BOOLEAN
      OBVIOUS
    <3> QED
      BY <3>1, <3>2 DEF Asker
  <2>3. ListTyped'
    <3>1. askers' \in [Askers -> Asker]
      BY <1>9, <2>2 DEF InvalidateList
    <3> QED
      BY <1>9, <2>2, <3>1 DEF InvalidateList, ListTyped, NoAnswer, NoList
  <2> QED
    BY <1>9, <2>1, <2>2, <2>3 DEF InvalidateList, ListIsCurrent, AskerSound, NoAnswer
<1>10. CASE Relist
  BY <1>10 DEF Relist, ListTyped, ListIsCurrent, FetchSound, AskerSound
<1>11. CASE UNCHANGED listVars
  BY <1>11 DEF listVars, ListTyped, ListIsCurrent, FetchSound, AskerSound
<1> QED
  BY <1>1, <1>2, <1>3, <1>4, <1>5, <1>6, <1>7, <1>8, <1>9, <1>10, <1>11 DEF ListNext

\* RulesAreCurrent and what makes it inductive: rules that a request is about
\* to store are not older than the last announcement, unless he is late.
RulesInv ==
  /\ rules \in Nat /\ announced \in Nat /\ announced <= rules
  /\ compiled \in [there : BOOLEAN, version : Nat, late : BOOLEAN]
  /\ clients \in [Clients -> [pc : {"away", "compiling", "using"}, version : Nat, late : BOOLEAN]]
  /\ \A r \in Clients :
       clients[r].pc = "compiling" /\ ~clients[r].late => clients[r].version >= announced
  /\ RulesAreCurrent

\* Every step of RulesCache keeps the invariant.
LEMMA RulesStepSound == RulesInv /\ [RulesNext]_rulesVars => RulesInv'
<1> SUFFICES ASSUME RulesInv, [RulesNext]_rulesVars PROVE RulesInv'
  OBVIOUS
<1> USE DEF RulesInv, RulesAreCurrent, Outside
<1>1. ASSUME NEW r \in Clients, Validate(r) PROVE RulesInv'
  BY <1>1 DEF Validate
<1>2. ASSUME NEW r \in Clients, Compile(r) PROVE RulesInv'
  BY <1>2 DEF Compile
<1>3. ASSUME NEW r \in Clients, Close(r) PROVE RulesInv'
  BY <1>3 DEF Close
<1>4. CASE EditRules
  BY <1>4 DEF EditRules
<1>5. CASE Announce
  <2>1. \A r \in Clients :
          /\ clients'[r] = [clients[r] EXCEPT !.late = (clients[r].pc = "compiling")]
          /\ (clients[r].pc = "compiling") \in BOOLEAN
    BY <1>5 DEF Announce
  <2>2. clients' \in [Clients -> [pc : {"away", "compiling", "using"}, version : Nat, late : BOOLEAN]]
    BY <1>5, <2>1 DEF Announce
  <2>3. \A r \in Clients : clients'[r].pc = "compiling" => clients'[r].late
    BY <2>1
  <2> QED
    BY <1>5, <2>2, <2>3 DEF Announce, Dropped, NoRules
<1>6. CASE UNCHANGED rulesVars
  BY <1>6 DEF rulesVars
<1> QED
  BY <1>1, <1>2, <1>3, <1>4, <1>5, <1>6 DEF RulesNext

\* The group list and the compiled rules of the gateway never get older than
\* their last invalidation, but by the late stores that are named
\* (loadGroupsByChannel, responseValidatorForGroup and those who invalidate).
THEOREM DroppedStaysDropped == ListSpec /\ RulesSpec => []InvalidationSticks
<1>1. RulesInit => RulesInv
  BY DEF RulesInit, RulesInv, RulesAreCurrent, NoRules, Outside
<1>2. ListInv /\ RulesInv => InvalidationSticks
  BY DEF ListInv, RulesInv, InvalidationSticks
<1> QED
  BY <1>1, <1>2, ListInitSound, ListStepSound, RulesStepSound, PTL DEF ListSpec, RulesSpec

-----------------------------------------------------------------------------
(* RouteAdmin: types. *)

\* A row of the list.
RouteRow == [id : Nat, source : Sources, key : Nat, over : BOOLEAN, billing : Nat]
\* What is charged for each source; 0 is unknown.
Prices == [Sources -> Nat]
\* A key of the upstream.
UpstreamKey == [name : Sources \cup {Legacy}, group : Sources]
\* A save that is being prepared, or carried out.
Job == [pc : {"idle", "form", "listing", "ordering", "saving", "limiting", "weighing", "flagging"},
        list : Seq(RouteRow)]
\* A goroutine of EnsureRouteKeys.
EnsureTask == [pc : {"idle", "locking", "finding", "updating", "creating", "revealing", "binding"},
               row : RouteRow, key : Nat]

\* The variables of RouteAdmin have their types, and a key that is named by a
\* row or by a goroutine that works on it exists.
AdminTyped ==
  /\ routes \in Seq(RouteRow) /\ nextId \in Nat
  /\ ratio \in Prices /\ cached \in [held : BOOLEAN, groups : Prices]
  /\ keys \in Seq(UpstreamKey)
  /\ jobs \in [Admins -> Job] /\ tasks \in [Ensurers -> EnsureTask]
  /\ \A a \in Admins : jobs[a].pc = "flagging" => jobs[a].list # << >>
  /\ strayed \in BOOLEAN /\ crashed \in BOOLEAN
  /\ left \in [{"edits", "scans", "moves", "sweeps"} -> Nat]

\* The number names a key of the upstream, or none.
Exists(k) == k = NoKey \/ k \in DOMAIN keys

\* A key that a row or a goroutine names exists.
KeysExist ==
  /\ \A p \in DOMAIN routes : Exists(routes[p].key)
  /\ \A e \in Ensurers :
       /\ Exists(tasks[e].row.key)
       /\ tasks[e].pc \in {"updating", "revealing", "binding"} => tasks[e].key \in DOMAIN keys

\* The rows have numbers of their own, which the next one is not among; so have
\* those of a list that is to be saved, except for the new ones.
IdsSound ==
  /\ 1 <= nextId /\ \A p \in DOMAIN routes : 1 <= routes[p].id /\ routes[p].id < nextId
  /\ \A p, q \in DOMAIN routes : p # q => routes[p].id # routes[q].id
  /\ \A a \in Admins : jobs[a].pc \in {"form", "ordering", "saving"} =>
       \A p, q \in DOMAIN jobs[a].list :
         p # q /\ jobs[a].list[p].id = jobs[a].list[q].id => jobs[a].list[p].id = 0

\* The goroutine has the lock of its source's stable name.
Working(e) == tasks[e].pc \notin {"idle", "locking"}

\* One goroutine per stable name; what it found out about the keys of that name
\* is still true when it acts on it.
NamesSound ==
  /\ \A e, f \in Ensurers : e # f /\ Working(e) /\ Working(f) => tasks[e].row.source # tasks[f].row.source
  /\ \A e \in Ensurers :
       /\ tasks[e].pc = "creating" => \A k \in DOMAIN keys : keys[k].name # tasks[e].row.source
       /\ tasks[e].pc = "updating" =>
            \A k \in DOMAIN keys : keys[k].name = tasks[e].row.source => k = tasks[e].key
  /\ \A k, m \in DOMAIN keys : keys[k].name = keys[m].name => keys[k].name = Legacy \/ k = m

\* The key, if there is one, is of the source.
Fits(k, s) == k # NoKey => keys[k].group = s

\* Until a key strays, the rows and the goroutines have keys of their source.
FitSound ==
  /\ \A k \in DOMAIN keys : keys[k].name \in Sources => keys[k].group = keys[k].name
  /\ ~strayed =>
       /\ \A p \in DOMAIN routes : Fits(routes[p].key, routes[p].source)
       /\ \A e \in Ensurers :
            /\ tasks[e].pc # "idle" => Fits(tasks[e].row.key, tasks[e].row.source)
            /\ tasks[e].pc \in {"updating", "revealing", "binding"} => Fits(tasks[e].key, tasks[e].row.source)


-----------------------------------------------------------------------------
(* The operators on lists of rows. *)

\* The limit's verdict is a truth value.
LEMMA OverIsBoolean == \A rate : OverLimit(rate) \in BOOLEAN
  BY DEF OverLimit

\* A rate is a number.
LEMMA RateTyped ==
  ASSUME NEW r \in RouteRow, NEW groups \in Prices
  PROVE  RateForRoute(r, groups) \in Nat
  BY DEF RateForRoute, RouteRow, Prices

\* Where the elements of a concatenation come from.
LEMMA ConcatAt ==
  ASSUME NEW S, NEW a \in Seq(S), NEW b \in Seq(S), NEW q \in 1..Len(a) + Len(b)
  PROVE  (a \o b)[q] = IF q <= Len(a) THEN a[q] ELSE b[q - Len(a)]
OBVIOUS

\* The element after a gap at p is the one that moves up into it.
LEMMA PastTheGap ==
  ASSUME NEW l \in Nat, NEW p \in 1..l, NEW q \in 1..l - 1, ~(q < p)
  PROVE  /\ q \in 1..(p - 1) + (l - p)
         /\ ~(q <= p - 1)
         /\ q - (p - 1) \in 1..l - p
         /\ p + (q - (p - 1)) = q + 1
OBVIOUS

\* The list without its element p: those behind it move up.
LEMMA RemoveAtSound ==
  ASSUME NEW S, NEW form \in Seq(S), NEW p \in DOMAIN form
  PROVE  /\ RemoveAt(form, p) \in Seq(S)
         /\ DOMAIN RemoveAt(form, p) = 1..Len(form) - 1
         /\ \A q \in 1..Len(form) - 1 : RemoveAt(form, p)[q] = form[IF q < p THEN q ELSE q + 1]
<1> DEFINE a == SubSeq(form, 1, p - 1)
           b == SubSeq(form, p + 1, Len(form))
<1>1. p \in 1..Len(form) /\ Len(form) \in Nat
  OBVIOUS
<1>2. a \in Seq(S) /\ Len(a) = p - 1 /\ \A q \in 1..p - 1 : a[q] = form[q]
  BY <1>1
<1>3. b \in Seq(S) /\ Len(b) = Len(form) - p /\ \A q \in 1..Len(form) - p : b[q] = form[p + q]
  BY <1>1
<1>4. RemoveAt(form, p) = a \o b
  BY DEF RemoveAt
<1> HIDE DEF a, b
<1>5. a \o b \in Seq(S) /\ Len(a \o b) = Len(form) - 1
  BY <1>1, <1>2, <1>3
<1>6. ASSUME NEW q \in 1..Len(form) - 1 PROVE (a \o b)[q] = form[IF q < p THEN q ELSE q + 1]
  <2>1. CASE q < p
    BY <2>1, <1>1, <1>2, <1>3
  <2>2. CASE ~(q < p)
    <3>1. /\ q \in 1..(p - 1) + (Len(form) - p) /\ ~(q <= p - 1)
          /\ q - (p - 1) \in 1..Len(form) - p
          /\ p + (q - (p - 1)) = q + 1
      BY <2>2, <1>1, PastTheGap
    <3>2. a \in Seq(S) /\ b \in Seq(S) /\ Len(a) = p - 1 /\ Len(b) = Len(form) - p
      BY <1>2, <1>3
    <3>3. (a \o b)[q] = IF q <= Len(a) THEN a[q] ELSE b[q - Len(a)]
      BY <3>1, <3>2, ConcatAt
    <3>4. (a \o b)[q] = b[q - (p - 1)]
      BY <3>1, <3>2, <3>3
    <3>5. b[q - (p - 1)] = form[p + (q - (p - 1))]
      BY <3>1, <1>3
    <3> QED
      BY <2>2, <3>1, <3>4, <3>5
  <2> QED
    BY <2>1, <2>2
<1>7. DOMAIN (a \o b) = 1..Len(a \o b)
  BY <1>5
<1> HIDE DEF a, b
<1> QED
  <2>1. RemoveAt(form, p) \in Seq(S)
    BY <1>4, <1>5
  <2>2. DOMAIN RemoveAt(form, p) = 1..Len(form) - 1
    BY <1>4, <1>5, <1>7
  <2>3. \A q \in 1..Len(form) - 1 : RemoveAt(form, p)[q] = form[IF q < p THEN q ELSE q + 1]
    BY <1>4, <1>6, Zenon
  <2> QED
    BY <2>1, <2>2, <2>3

\* What the operator makes of a list of rows is a list of rows.
LEMMA EditsTyped ==
  ASSUME NEW form \in Seq(RouteRow)
  PROVE  Edits(form) \subseteq Seq(RouteRow)
<1> SUFFICES ASSUME NEW e \in Edits(form) PROVE e \in Seq(RouteRow)
  OBVIOUS
<1>1. ASSUME NEW p \in DOMAIN form, NEW s \in Sources, e = [form EXCEPT ![p].source = s]
      PROVE  e \in Seq(RouteRow)
  <2>1. DOMAIN e = 1..Len(form) /\ Len(form) \in Nat
    BY <1>1
  <2>2. \A q \in DOMAIN form : q # p => e[q] = form[q]
    BY <1>1
  <2>3. e[p] = [form[p] EXCEPT !.source = s] /\ form[p] \in RouteRow
    BY <1>1
  <2>4. e[p] \in RouteRow
    BY <2>3 DEF RouteRow
  <2>5. \A q \in 1..Len(form) : e[q] \in RouteRow
    BY <2>2, <2>4
  <2>6. e = [q \in 1..Len(form) |-> e[q]]
    BY <1>1, <2>1
  <2> QED
    BY <2>1, <2>5, <2>6
<1>2. ASSUME NEW p \in DOMAIN form, e = RemoveAt(form, p) PROVE e \in Seq(RouteRow)
  BY <1>2, RemoveAtSound
<1>3. ASSUME NEW s \in Sources, e = Append(form, Row(0, s)) PROVE e \in Seq(RouteRow)
  <2>1. Row(0, s) \in RouteRow
    BY DEF Row, RouteRow, NoKey
  <2> QED
    BY <1>3, <2>1
<1> QED
  BY <1>1, <1>2, <1>3 DEF Edits

\* Ordering a list permutes it, and changes what its rows are billed at.
LEMMA OrderedSound ==
  ASSUME NEW rs \in Seq(RouteRow), NEW groups \in Prices, NEW m \in Ordered(rs, groups)
  PROVE  /\ m \in Seq(RouteRow) /\ DOMAIN m = DOMAIN rs
         /\ \E place \in [DOMAIN rs -> DOMAIN rs] :
              /\ \A p, q \in DOMAIN rs : p # q => place[p] # place[q]
              /\ \A p \in DOMAIN rs : m[p].id = rs[place[p]].id
<1> DEFINE rate(i) == RateForRoute(rs[i], groups)
           before(i, j) == rate(i) < rate(j) \/ (rate(i) = rate(j) /\ i < j)
<1>1. PICK place \in [DOMAIN rs -> DOMAIN rs] :
        /\ \A p, q \in DOMAIN rs : p < q => before(place[p], place[q])
        /\ m = [p \in DOMAIN rs |-> [rs[place[p]] EXCEPT !.billing = rate(place[p])]]
  BY DEF Ordered
<1>2. \A i \in DOMAIN rs : rs[i] \in RouteRow /\ rate(i) \in Nat
  BY RateTyped
<1>3. \A p, q \in DOMAIN rs : p < q => place[p] # place[q]
  <2> SUFFICES ASSUME NEW p \in DOMAIN rs, NEW q \in DOMAIN rs, p < q PROVE place[p] # place[q]
    OBVIOUS
  <2>1. before(place[p], place[q])
    BY <1>1
  <2>2. place[p] \in DOMAIN rs /\ rate(place[p]) \in Nat /\ place[p] \in Nat
    BY <1>2
  <2>3. ~before(place[p], place[p])
    BY <2>2
  <2> QED
    BY <2>1, <2>3
<1>4. \A p, q \in DOMAIN rs : p # q => p < q \/ q < p
  OBVIOUS
<1>5. \A p \in DOMAIN rs : m[p] \in RouteRow /\ m[p].id = rs[place[p]].id
  BY <1>1, <1>2 DEF RouteRow
<1>6. DOMAIN m = 1..Len(rs) /\ Len(rs) \in Nat
  BY <1>1
<1>7. m \in Seq(RouteRow)
  <2> HIDE DEF rate, before
  <2>1. m \in [1..Len(rs) -> RouteRow]
    BY <1>1, <1>5, <1>6
  <2> QED
    BY <2>1, <1>6
<1>8. \A p, q \in DOMAIN rs : p # q => place[p] # place[q]
  BY <1>3, <1>4
<1> HIDE DEF rate, before
<1> QED
  BY <1>1, <1>5, <1>7, <1>8

\* The rows whose flag is to change are a list of rows.
LEMMA ReflaggedSound ==
  ASSUME NEW rs \in Seq(RouteRow), NEW groups \in Prices, NEW m \in Reflagged(rs, groups)
  PROVE  m \in Seq(RouteRow)
<1> DEFINE flagged(r) == [r EXCEPT !.over = OverLimit(RateForRoute(r, groups))]
           changed == {p \in DOMAIN rs : flagged(rs[p]) # rs[p]}
           count == Cardinality(changed)
<1>1. count \in Nat
  <2>1. changed \subseteq 1..Len(rs) /\ Len(rs) \in Nat
    OBVIOUS
  <2> QED
    <3>1. IsFiniteSet(1..Len(rs))
      BY <2>1, FS_Interval
    <3> QED
      BY <2>1, <3>1, FS_Subset, FS_CardinalityType
<1>2. PICK place \in [1..count -> changed] : m = [p \in 1..count |-> flagged(rs[place[p]])]
  BY DEF Reflagged
<1>3. \A i \in DOMAIN rs : flagged(rs[i]) \in RouteRow
  <2> TAKE i \in DOMAIN rs
  <2>1. OverLimit(RateForRoute(rs[i], groups)) \in BOOLEAN
    BY OverIsBoolean
  <2>2. rs[i] \in RouteRow
    OBVIOUS
  <2> HIDE DEF flagged
  <2>3. flagged(rs[i]) = [rs[i] EXCEPT !.over = OverLimit(RateForRoute(rs[i], groups))]
    BY DEF flagged
  <2> QED
    BY <2>1, <2>2, <2>3 DEF RouteRow
<1> HIDE DEF flagged
<1>4. \A p \in 1..count : place[p] \in DOMAIN rs
  OBVIOUS
<1> HIDE DEF changed, count
<1>5. m \in [1..count -> RouteRow]
  BY <1>2, <1>3, <1>4
<1> QED
  BY <1>1, <1>5

\* The row of a number that a row has.
LEMMA RowFound ==
  ASSUME NEW id \in IdsOf(routes)
  PROVE  \E i \in DOMAIN routes : RowWith(routes, id) = routes[i] /\ routes[i].id = id
  BY DEF RowWith, IdsOf, Rows

\* The item is of a row that still has its source.
Continues(item) == item.id \in IdsOf(routes) /\ RowWith(routes, item.id).source = item.source

\* The key and the flag of a saved item: those of the row it continues, or none.
LEMMA KeptSound ==
  ASSUME routes \in Seq(RouteRow), NEW item \in RouteRow
  PROVE  /\ Kept(item) \in RouteRow /\ Kept(item).source = item.source
         /\ Continues(item) => /\ Kept(item).key = RowWith(routes, item.id).key
                               /\ Kept(item).over = RowWith(routes, item.id).over
         /\ ~Continues(item) => Kept(item).key = NoKey
<1> DEFINE row == RowWith(routes, item.id)
<1>1. CASE Continues(item)
  <2>1. row \in RouteRow
    BY <1>1, RowFound DEF Continues
  <2>2. Kept(item) = [item EXCEPT !.key = row.key, !.over = row.over]
    BY <1>1 DEF Kept, Continues
  <2> HIDE DEF row
  <2>3. Kept(item) \in RouteRow /\ Kept(item).source = item.source /\ Kept(item).key = row.key
    BY <2>1, <2>2 DEF RouteRow
  <2>4. Kept(item).over = row.over
    BY <2>1, <2>2 DEF RouteRow
  <2> QED
    BY <1>1, <2>3, <2>4 DEF row
<1>2. CASE ~Continues(item)
  <2>1. Kept(item) = [item EXCEPT !.key = NoKey, !.over = FALSE]
    BY <1>2 DEF Kept, Continues
  <2>2. Kept(item).source = item.source /\ Kept(item).key = NoKey
    BY <2>1 DEF RouteRow
  <2>3. Kept(item) \in RouteRow
    <3>1. NoKey \in Nat /\ FALSE \in BOOLEAN
      BY DEF NoKey
    <3> QED
      BY <2>1, <3>1 DEF RouteRow
  <2> QED
    BY <1>2, <2>2, <2>3
<1> QED
  BY <1>1, <1>2

\* A saved row has the number of its item, if a row has it, or else a new one;
\* it keeps its source; the key and the flag are those that Kept says.
LEMMA SaveSound ==
  ASSUME AdminTyped, NEW rs \in Seq(RouteRow), SaveForGroup(rs)
  PROVE  /\ routes' \in Seq(RouteRow) /\ nextId' \in Nat /\ nextId <= nextId'
         /\ DOMAIN routes' = DOMAIN rs
         /\ \A p \in DOMAIN rs :
              /\ routes'[p].source = rs[p].source
              /\ routes'[p].key = Kept(rs[p]).key /\ routes'[p].over = Kept(rs[p]).over
              /\ rs[p].id \in IdsOf(routes) => routes'[p].id = rs[p].id
              /\ rs[p].id \notin IdsOf(routes) => nextId <= routes'[p].id /\ routes'[p].id < nextId'
         /\ \A p, q \in DOMAIN rs :
              p < q /\ rs[p].id \notin IdsOf(routes) /\ rs[q].id \notin IdsOf(routes) => routes'[p].id < routes'[q].id
<1> DEFINE new == {p \in DOMAIN rs : rs[p].id \notin IdsOf(routes)}
           below(p) == {q \in new : q < p}
           idAt(p) == IF p \in new THEN nextId + Cardinality(below(p)) ELSE rs[p].id
<1>1. IsFiniteSet(new)
  <2>1. new \subseteq 1..Len(rs) /\ Len(rs) \in Nat
    OBVIOUS
  <2> QED
    BY <2>1, FS_Interval, FS_Subset
<1>2. Cardinality(new) \in Nat
  BY <1>1, FS_CardinalityType
<1>3. \A S \in SUBSET new : IsFiniteSet(S) /\ Cardinality(S) \in Nat
  BY <1>1, FS_Subset, FS_CardinalityType
<1>4. \A S \in SUBSET new : \A T \in SUBSET S : T # S => Cardinality(T) < Cardinality(S)
  <2> SUFFICES ASSUME NEW S \in SUBSET new, NEW T \in SUBSET S, T # S PROVE Cardinality(T) < Cardinality(S)
    OBVIOUS
  <2>1. IsFiniteSet(S) /\ Cardinality(S) \in Nat /\ T \in SUBSET new
    BY <1>3
  <2>2. Cardinality(T) <= Cardinality(S) /\ (Cardinality(S) = Cardinality(T) => S = T)
    BY <2>1, FS_Subset
  <2>3. Cardinality(T) \in Nat
    BY <1>3, <2>1
  <2> QED
    BY <2>1, <2>2, <2>3
<1>5. \A p \in DOMAIN rs : below(p) \in SUBSET new /\ p \notin below(p)
  OBVIOUS
<1>6. \A p \in DOMAIN rs : Cardinality(below(p)) \in Nat
  BY <1>3, <1>5
<1>7. \A p \in new : Cardinality(below(p)) < Cardinality(new)
  <2> TAKE p \in new
  <2>1. below(p) \in SUBSET new /\ below(p) # new
    BY <1>5
  <2> QED
    BY <1>4, <2>1
<1>8. \A p, q \in new : p < q => Cardinality(below(p)) < Cardinality(below(q))
  <2> SUFFICES ASSUME NEW p \in new, NEW q \in new, p < q PROVE Cardinality(below(p)) < Cardinality(below(q))
    OBVIOUS
  <2>1. below(p) \in SUBSET below(q) /\ p \in below(q) /\ p \notin below(p) /\ below(q) \in SUBSET new
    OBVIOUS
  <2>2. below(p) # below(q)
    BY <2>1
  <2> HIDE DEF below, new
  <2> QED
    BY <1>4, <2>1, <2>2
<1>9. /\ routes' = [p \in DOMAIN rs |-> [Kept(rs[p]) EXCEPT !.id = idAt(p)]]
      /\ nextId' = nextId + Cardinality(new)
  BY DEF SaveForGroup
<1>10. routes \in Seq(RouteRow) /\ nextId \in Nat
  BY DEF AdminTyped
<1>11. \A p \in DOMAIN rs : rs[p] \in RouteRow /\ Kept(rs[p]) \in RouteRow /\ Kept(rs[p]).source = rs[p].source
  BY <1>10, KeptSound
<1>12. \A p \in DOMAIN rs : p \in new <=> rs[p].id \notin IdsOf(routes)
  OBVIOUS
<1>13. new \subseteq DOMAIN rs
  OBVIOUS
<1> HIDE DEF below, new
<1>14. \A p \in DOMAIN rs : idAt(p) \in Nat
  <2> TAKE p \in DOMAIN rs
  <2>1. nextId + Cardinality(below(p)) \in Nat
    BY <1>6, <1>10
  <2>2. rs[p].id \in Nat
    BY <1>11 DEF RouteRow
  <2> QED
    BY <2>1, <2>2
<1>15. \A p \in new : nextId <= idAt(p) /\ idAt(p) < nextId'
  BY <1>2, <1>6, <1>7, <1>9, <1>10, <1>13
<1>16. \A p, q \in new : p < q => idAt(p) < idAt(q)
  BY <1>6, <1>8, <1>10, <1>13
<1>17. \A p \in DOMAIN rs : p \notin new => idAt(p) = rs[p].id
  OBVIOUS
<1> HIDE DEF idAt
<1>18. \A p \in DOMAIN rs :
         /\ routes'[p] \in RouteRow /\ routes'[p].id = idAt(p) /\ routes'[p].source = rs[p].source
         /\ routes'[p].key = Kept(rs[p]).key
  BY <1>9, <1>11, <1>14 DEF RouteRow
<1>19. \A p \in DOMAIN rs : routes'[p].over = Kept(rs[p]).over
  BY <1>9, <1>11 DEF RouteRow
<1>20. routes' \in Seq(RouteRow) /\ DOMAIN routes' = DOMAIN rs
  <2>1. DOMAIN routes' = 1..Len(rs) /\ Len(rs) \in Nat
    BY <1>9
  <2>2. routes' \in [1..Len(rs) -> RouteRow]
    BY <1>9, <1>18, <2>1
  <2> QED
    BY <2>1, <2>2
<1>21. nextId' \in Nat /\ nextId <= nextId'
  BY <1>2, <1>9, <1>10
<1> QED
  BY <1>12, <1>15, <1>16, <1>17, <1>18, <1>19, <1>20, <1>21

-----------------------------------------------------------------------------
(* RouteAdmin: every step keeps the types. *)

\* A new row is a row.
LEMMA RowTyped == \A i \in Nat, s \in Sources : Row(i, s) \in RouteRow
  BY DEF Row, RouteRow, NoKey

\* A goroutine at rest.
LEMMA IdleTyped == IdleTask \in EnsureTask /\ IdleTask.pc = "idle" /\ IdleTask.row.key = NoKey
<1>1. (CHOOSE s \in Sources : TRUE) \in Sources
  BY PricesSound
<1>2. Row(0, CHOOSE s \in Sources : TRUE) \in RouteRow
  BY <1>1, RowTyped
<1> QED
  BY <1>2 DEF IdleTask, EnsureTask, Row, NoKey

\* A job at rest.
LEMMA IdleJobTyped == IdleJob \in Job /\ IdleJob.pc = "idle"
  BY DEF IdleJob, Job

\* A step of a job leaves the other one alone.
LEMMA GoOnTyped ==
  ASSUME AdminTyped, NEW a \in Admins, NEW rs \in Seq(RouteRow), NEW pc, GoOn(a, pc, rs),
         pc \in {"idle", "form", "listing", "ordering", "saving", "limiting", "weighing"}
           \/ (pc = "flagging" /\ rs # << >>)
  PROVE  /\ jobs' \in [Admins -> Job]
         /\ \A b \in Admins : jobs'[b].pc = "flagging" => jobs'[b].list # << >>
         /\ jobs'[a].pc = pc /\ jobs'[a].list = rs
         /\ \A b \in Admins : b # a => jobs'[b] = jobs[b]
<1>1. jobs \in [Admins -> Job] /\ \A b \in Admins : jobs[b].pc = "flagging" => jobs[b].list # << >>
  BY DEF AdminTyped
<1>2. [pc |-> pc, list |-> rs] \in Job
  BY DEF Job
<1> QED
  BY <1>1, <1>2 DEF GoOn

\* What loadGroupsByChannel answers and caches is a price list.
LEMMA LoadGroupsTyped ==
  ASSUME AdminTyped, NEW groups \in {cached.groups, ratio, Unpriced}, LoadGroups(groups)
  PROVE  groups \in Prices /\ cached' \in [held : BOOLEAN, groups : Prices]
<1>1. Unpriced \in Prices /\ ratio \in Prices /\ cached.groups \in Prices
  BY DEF Unpriced, Prices, AdminTyped
<1> QED
  BY <1>1 DEF LoadGroups

\* A step of a goroutine that goes on leaves the others, and its row, alone.
LEMMA MoveTyped ==
  ASSUME AdminTyped, NEW e \in Ensurers, NEW k \in Nat, NEW pc, Move(e, pc, k),
         pc \in {"finding", "updating", "creating", "revealing", "binding"}
  PROVE  /\ tasks' \in [Ensurers -> EnsureTask]
         /\ tasks'[e].pc = pc /\ tasks'[e].key = k /\ tasks'[e].row = tasks[e].row
         /\ \A f \in Ensurers : f # e => tasks'[f] = tasks[f]
<1>1. tasks \in [Ensurers -> EnsureTask]
  BY DEF AdminTyped
<1>2. tasks'[e] = [tasks[e] EXCEPT !.pc = pc, !.key = k] /\ tasks[e] \in EnsureTask
  BY <1>1 DEF Move
<1>3. tasks'[e] \in EnsureTask /\ tasks'[e].pc = pc /\ tasks'[e].key = k /\ tasks'[e].row = tasks[e].row
  BY <1>2 DEF EnsureTask
<1>4. \A f \in Ensurers : f # e => tasks'[f] = tasks[f]
  BY <1>1 DEF Move
<1>5. tasks' = [f \in Ensurers |-> tasks'[f]]
  BY <1>1 DEF Move
<1> QED
  BY <1>1, <1>3, <1>4, <1>5

\* A goroutine that gives up leaves the others alone.
LEMMA GiveUpTyped ==
  ASSUME AdminTyped, NEW e \in Ensurers, GiveUp(e)
  PROVE  /\ tasks' \in [Ensurers -> EnsureTask]
         /\ tasks'[e].pc = "idle" /\ tasks'[e].row.key = NoKey
         /\ \A f \in Ensurers : f # e => tasks'[f] = tasks[f]
  BY IdleTyped DEF AdminTyped, GiveUp

\* The budget stays one.
LEMMA SpendTyped ==
  ASSUME AdminTyped, NEW what \in {"edits", "scans", "moves", "sweeps"}, Spend(what)
  PROVE  left' \in [{"edits", "scans", "moves", "sweeps"} -> Nat]
  BY DEF AdminTyped, Spend

\* The keys as they are, and with one more.
LEMMA MadeTyped ==
  ASSUME AdminTyped, NEW s \in Sources
  PROVE  /\ Managed(s) \in UpstreamKey /\ Managed(s).name = s /\ Managed(s).group = s
         /\ Append(keys, Managed(s)) \in Seq(UpstreamKey)
         /\ DOMAIN keys = 1..Len(keys) /\ Len(keys) \in Nat
         /\ Len(Append(keys, Managed(s))) = Len(keys) + 1
         /\ DOMAIN Append(keys, Managed(s)) = 1..Len(keys) + 1
         /\ \A k \in DOMAIN keys : Append(keys, Managed(s))[k] = keys[k]
         /\ Append(keys, Managed(s))[Len(keys) + 1] = Managed(s)
<1>1. Managed(s) \in UpstreamKey /\ Managed(s).name = s /\ Managed(s).group = s
  BY DEF Managed, UpstreamKey
<1>2. keys \in Seq(UpstreamKey)
  BY DEF AdminTyped
<1> QED
  BY <1>1, <1>2

\* What Flag and Bind do to the rows.
LEMMA FlagSound ==
  ASSUME AdminTyped, NEW a \in Admins, Flag(a)
  PROVE  /\ routes' \in Seq(RouteRow) /\ DOMAIN routes' = DOMAIN routes
         /\ \A p \in DOMAIN routes :
              /\ routes'[p].id = routes[p].id /\ routes'[p].source = routes[p].source
              /\ routes'[p].key = routes[p].key
         /\ GoOn(a, IF Tail(jobs[a].list) = << >> THEN "idle" ELSE "flagging", Tail(jobs[a].list))
         /\ Tail(jobs[a].list) \in Seq(RouteRow)
<1>1. /\ jobs[a].list # << >> /\ jobs[a].list \in Seq(RouteRow) /\ routes \in Seq(RouteRow)
  BY DEF Flag, At, AdminTyped, Job
<1> DEFINE item == Head(jobs[a].list)
<1>2. item \in RouteRow /\ Tail(jobs[a].list) \in Seq(RouteRow)
  BY <1>1
<1>3. routes' = [p \in DOMAIN routes |->
        IF routes[p].id = item.id THEN [routes[p] EXCEPT !.over = item.over] ELSE routes[p]]
  BY DEF Flag
<1> HIDE DEF item
<1>4. \A p \in DOMAIN routes : routes[p] \in RouteRow
  BY <1>1
<1>5. \A p \in DOMAIN routes :
        LET new == [routes[p] EXCEPT !.over = item.over]
        IN  /\ new \in RouteRow /\ new.id = routes[p].id /\ new.source = routes[p].source
            /\ new.key = routes[p].key
  <2> TAKE p \in DOMAIN routes
  <2>1. item.over \in BOOLEAN /\ routes[p] \in RouteRow
    BY <1>2, <1>4 DEF RouteRow
  <2> QED
    BY <2>1 DEF RouteRow
<1>6. \A p \in DOMAIN routes :
        /\ routes'[p] \in RouteRow /\ routes'[p].id = routes[p].id /\ routes'[p].source = routes[p].source
        /\ routes'[p].key = routes[p].key
  BY <1>3, <1>4, <1>5
<1>7. DOMAIN routes' = 1..Len(routes) /\ Len(routes) \in Nat /\ DOMAIN routes = 1..Len(routes)
  BY <1>1, <1>3
<1>8. routes' \in [1..Len(routes) -> RouteRow]
  BY <1>3, <1>6, <1>7
<1>9. routes' \in Seq(RouteRow)
  BY <1>7, <1>8
<1> QED
  BY <1>2, <1>6, <1>7, <1>9 DEF Flag

\* Bind changes the key of the rows with the number, and nothing else.
LEMMA BindSound ==
  ASSUME AdminTyped, NEW e \in Ensurers, Bind(e)
  PROVE  /\ routes' \in Seq(RouteRow) /\ DOMAIN routes' = DOMAIN routes
         /\ \A p \in DOMAIN routes :
              /\ routes'[p].id = routes[p].id /\ routes'[p].source = routes[p].source
              /\ routes[p].id # tasks[e].row.id => routes'[p].key = routes[p].key
              /\ routes[p].id = tasks[e].row.id => routes'[p].key = tasks[e].key
<1>1. routes \in Seq(RouteRow) /\ tasks[e].key \in Nat
  BY DEF AdminTyped, EnsureTask
<1>2. routes' = [p \in DOMAIN routes |->
        IF routes[p].id = tasks[e].row.id THEN [routes[p] EXCEPT !.key = tasks[e].key] ELSE routes[p]]
  BY DEF Bind
<1>3. \A p \in DOMAIN routes : routes[p] \in RouteRow
  BY <1>1
<1>4. \A p \in DOMAIN routes :
        LET new == [routes[p] EXCEPT !.key = tasks[e].key]
        IN  /\ new \in RouteRow /\ new.id = routes[p].id /\ new.source = routes[p].source
            /\ new.key = tasks[e].key
  BY <1>1, <1>3 DEF RouteRow
<1>5. \A p \in DOMAIN routes :
        /\ routes'[p] \in RouteRow /\ routes'[p].id = routes[p].id /\ routes'[p].source = routes[p].source
        /\ routes[p].id # tasks[e].row.id => routes'[p].key = routes[p].key
        /\ routes[p].id = tasks[e].row.id => routes'[p].key = tasks[e].key
  BY <1>2, <1>3, <1>4
<1>6. DOMAIN routes' = 1..Len(routes) /\ Len(routes) \in Nat /\ DOMAIN routes = 1..Len(routes)
  BY <1>1, <1>2
<1>7. routes' \in [1..Len(routes) -> RouteRow]
  BY <1>2, <1>5, <1>6
<1>8. routes' \in Seq(RouteRow)
  BY <1>6, <1>7
<1> QED
  BY <1>5, <1>6, <1>8

\* The types are right at first.
LEMMA AdminInitTyped == AdminInit => AdminTyped
<1> SUFFICES ASSUME AdminInit PROVE AdminTyped
  OBVIOUS
<1>1. PICK s \in Sources, t \in Sources, legacy \in BOOLEAN :
        /\ routes = << [Row(1, s) EXCEPT !.key = IF legacy THEN 1 ELSE NoKey], Row(2, t) >>
        /\ keys = IF legacy THEN << [name |-> Legacy, group |-> s] >> ELSE << >>
  BY DEF AdminInit
<1>2. Row(2, t) \in RouteRow /\ [Row(1, s) EXCEPT !.key = IF legacy THEN 1 ELSE NoKey] \in RouteRow
  BY DEF Row, RouteRow, NoKey
<1>3. routes \in Seq(RouteRow)
  BY <1>1, <1>2
<1>4. keys \in Seq(UpstreamKey)
  <2>1. [name |-> Legacy, group |-> s] \in UpstreamKey
    BY DEF UpstreamKey
  <2> QED
    BY <1>1, <2>1
<1>5. ratio \in Prices /\ cached \in [held : BOOLEAN, groups : Prices]
  BY DEF AdminInit, Unpriced, Prices
<1>6. left \in [{"edits", "scans", "moves", "sweeps"} -> Nat]
  BY RoomSound DEF AdminInit
<1>7. jobs \in [Admins -> Job] /\ \A a \in Admins : jobs[a].pc = "flagging" => jobs[a].list # << >>
  BY IdleJobTyped DEF AdminInit
<1>8. tasks \in [Ensurers -> EnsureTask]
  BY IdleTyped DEF AdminInit
<1> QED
  BY <1>3, <1>4, <1>5, <1>6, <1>7, <1>8 DEF AdminInit, AdminTyped

\* Every step keeps the types.
LEMMA AdminStepTyped == AdminTyped /\ [AdminNext]_adminVars => AdminTyped'
<1> SUFFICES ASSUME AdminTyped, [AdminNext]_adminVars PROVE AdminTyped'
  OBVIOUS
<1>0. /\ routes \in Seq(RouteRow) /\ jobs \in [Admins -> Job] /\ << >> \in Seq(RouteRow)
      /\ \A a \in Admins : jobs[a].list \in Seq(RouteRow)
  BY DEF AdminTyped, Job
<1>1. CASE OpenForm
  <2>1. "operator" \in Admins /\ GoOn("operator", "form", routes) /\ Spend("edits")
    BY <1>1 DEF OpenForm, Admins
  <2> QED
    BY <1>0, <1>1, <2>1, GoOnTyped, SpendTyped DEF OpenForm, AdminTyped, rows, ensuring
<1>2. CASE SubmitForm
  <2>1. PICK edited \in Edits(jobs["operator"].list), groups \in {cached.groups, ratio, Unpriced} :
        \E rs \in Ordered(edited, groups) : LoadGroups(groups) /\ GoOn("operator", "saving", rs)
    BY <1>2 DEF SubmitForm
  <2>2. "operator" \in Admins /\ groups \in Prices /\ cached' \in [held : BOOLEAN, groups : Prices]
    BY <2>1, LoadGroupsTyped DEF Admins
  <2>3. edited \in Seq(RouteRow)
    BY <1>0, <2>1, <2>2, EditsTyped
  <2>4. PICK rs \in Ordered(edited, groups) : GoOn("operator", "saving", rs)
    BY <2>1
  <2>5. rs \in Seq(RouteRow)
    BY <2>2, <2>3, OrderedSound
  <2> QED
    BY <1>2, <2>2, <2>4, <2>5, GoOnTyped DEF SubmitForm, AdminTyped, rows, ensuring
<1>3. CASE BeginResort
  <2>1. "scan" \in Admins /\ GoOn("scan", "listing", << >>) /\ Spend("scans")
    BY <1>3 DEF BeginResort, Admins
  <2>2. cached' \in [held : BOOLEAN, groups : Prices]
    BY <1>3 DEF BeginResort, Unpriced, Prices
  <2> QED
    BY <1>0, <1>3, <2>1, <2>2, GoOnTyped, SpendTyped DEF BeginResort, AdminTyped, rows, ensuring
<1>4. CASE ListForResort
  <2>1. "scan" \in Admins /\ GoOn("scan", IF routes = << >> THEN "limiting" ELSE "ordering", routes)
    BY <1>4 DEF ListForResort, Admins
  <2> QED
    BY <1>0, <1>4, <2>1, GoOnTyped DEF ListForResort, AdminTyped, rows, ensuring
<1>5. CASE Resort
  <2>1. PICK groups \in {cached.groups, ratio, Unpriced} :
        \E rs \in Ordered(jobs["scan"].list, groups) : LoadGroups(groups) /\ GoOn("scan", "saving", rs)
    BY <1>5 DEF Resort
  <2>2. "scan" \in Admins /\ groups \in Prices /\ cached' \in [held : BOOLEAN, groups : Prices]
    BY <2>1, LoadGroupsTyped DEF Admins
  <2>3. PICK rs \in Ordered(jobs["scan"].list, groups) : GoOn("scan", "saving", rs)
    BY <2>1
  <2>4. rs \in Seq(RouteRow)
    BY <1>0, <2>2, OrderedSound
  <2> QED
    BY <1>5, <2>2, <2>3, <2>4, GoOnTyped DEF Resort, AdminTyped, rows, ensuring
<1>6. CASE Refresh
  BY <1>6 DEF Refresh, AdminTyped, rows, ensuring
<1>7. CASE Restart
  <2>1. cached' \in [held : BOOLEAN, groups : Prices]
    BY <1>7 DEF Restart, Unpriced, Prices
  <2>2. jobs' \in [Admins -> Job] /\ \A a \in Admins : jobs'[a].pc = "flagging" => jobs'[a].list # << >>
    BY <1>7, IdleJobTyped DEF Restart
  <2>3. tasks' \in [Ensurers -> EnsureTask]
    BY <1>7, IdleTyped DEF Restart
  <2> QED
    BY <1>7, <2>1, <2>2, <2>3 DEF Restart, AdminTyped, rows
<1>8. ASSUME NEW a \in Admins, Save(a) PROVE AdminTyped'
  <2>1. routes' \in Seq(RouteRow) /\ nextId' \in Nat
    <3>1. CASE SaveForGroup(jobs[a].list)
      BY <1>0, <3>1, SaveSound
    <3>2. CASE UNCHANGED rows
      BY <3>2 DEF rows, AdminTyped
    <3> QED
      BY <1>8, <3>1, <3>2 DEF Save
  <2>2. PICK pc \in {"limiting", "idle"} : GoOn(a, pc, << >>)
    BY <1>8 DEF Save
  <2> QED
    BY <1>0, <1>8, <2>1, <2>2, GoOnTyped DEF Save, AdminTyped, ensuring
<1>9. ASSUME NEW a \in Admins, ReadForLimit(a) PROVE AdminTyped'
  <2>1. PICK pc \in {"weighing", "idle"} : GoOn(a, pc, routes)
    BY <1>9 DEF ReadForLimit
  <2> QED
    BY <1>0, <1>9, <2>1, GoOnTyped DEF ReadForLimit, AdminTyped, ensuring, rows
<1>10. ASSUME NEW a \in Admins, Weigh(a) PROVE AdminTyped'
  <2>1. PICK groups \in {cached.groups, ratio, Unpriced} :
        \E rs \in Reflagged(jobs[a].list, groups) :
          LoadGroups(groups) /\ GoOn(a, IF rs = << >> THEN "idle" ELSE "flagging", rs)
    BY <1>10 DEF Weigh
  <2>2. groups \in Prices /\ cached' \in [held : BOOLEAN, groups : Prices]
    BY <2>1, LoadGroupsTyped
  <2>3. PICK rs \in Reflagged(jobs[a].list, groups) : GoOn(a, IF rs = << >> THEN "idle" ELSE "flagging", rs)
    BY <2>1
  <2>4. rs \in Seq(RouteRow)
    BY <1>0, <2>2, ReflaggedSound
  <2> QED
    BY <1>10, <2>2, <2>3, <2>4, GoOnTyped DEF Weigh, AdminTyped, ensuring, rows
<1>11. ASSUME NEW a \in Admins, Flag(a) PROVE AdminTyped'
  <2>1. routes' \in Seq(RouteRow)
    BY <1>11, FlagSound
  <2> DEFINE rest == Tail(jobs[a].list)
             pc == IF rest = << >> THEN "idle" ELSE "flagging"
  <2>2. GoOn(a, pc, rest) /\ rest \in Seq(RouteRow)
    BY <1>11, FlagSound
  <2>3. pc \in {"idle"} \/ (pc = "flagging" /\ rest # << >>)
    OBVIOUS
  <2> HIDE DEF pc, rest
  <2> QED
    BY <1>11, <2>1, <2>2, <2>3, GoOnTyped DEF Flag, AdminTyped, ensuring
<1>12. ASSUME NEW e \in Ensurers, StartEnsure(e) PROVE AdminTyped'
  <2>1. PICK r \in Rows(routes) : tasks' = [tasks EXCEPT ![e] = [pc |-> "locking", row |-> r, key |-> NoKey]]
    BY <1>12 DEF StartEnsure
  <2>2. r \in RouteRow
    BY <1>0 DEF Rows
  <2>3. tasks' \in [Ensurers -> EnsureTask]
    BY <2>1, <2>2 DEF AdminTyped, EnsureTask, NoKey
  <2> QED
    BY <1>12, <2>3, SpendTyped DEF StartEnsure, AdminTyped, rows
<1>13. ASSUME NEW e \in Ensurers, Lock(e) PROVE AdminTyped'
  BY <1>13, MoveTyped DEF Lock, AdminTyped, administration, rows, NoKey
<1>14. ASSUME NEW e \in Ensurers, Find(e) PROVE AdminTyped'
  <2>1. tasks' \in [Ensurers -> EnsureTask]
    <3>1. tasks[e].row.key \in Nat /\ NoKey \in Nat
      BY DEF AdminTyped, EnsureTask, RouteRow, NoKey
    <3>2. ASSUME NEW k \in Named(tasks[e].row.source) PROVE k \in Nat
      BY DEF Named, AdminTyped
    <3> QED
      BY <1>14, <3>1, <3>2, MoveTyped, GiveUpTyped DEF Find
  <2> QED
    BY <1>14, <2>1 DEF Find, AdminTyped, administration, rows
<1>15. ASSUME NEW e \in Ensurers, Update(e) PROVE AdminTyped'
  <2>1. tasks[e].key \in Nat /\ tasks[e].row.source \in Sources /\ keys \in Seq(UpstreamKey)
    BY DEF AdminTyped, EnsureTask, RouteRow
  <2>2. tasks' \in [Ensurers -> EnsureTask]
    BY <1>15, <2>1, MoveTyped, GiveUpTyped DEF Update
  <2>3. keys' \in Seq(UpstreamKey)
    <3>1. Managed(tasks[e].row.source) \in UpstreamKey
      BY <2>1, MadeTyped
    <3> QED
      BY <1>15, <2>1, <3>1 DEF Update
  <2> QED
    BY <1>15, <2>2, <2>3 DEF Update, AdminTyped, administration, rows
<1>16. ASSUME NEW e \in Ensurers, Create(e) PROVE AdminTyped'
  <2> DEFINE made == Append(keys, Managed(tasks[e].row.source))
  <2>1. made \in Seq(UpstreamKey) /\ Len(made) \in Nat /\ keys \in Seq(UpstreamKey) /\ crashed \in BOOLEAN
    BY MadeTyped DEF AdminTyped, EnsureTask, RouteRow
  <2>2. keys' \in {keys, made} /\ crashed' \in BOOLEAN /\ (Move(e, "revealing", Len(made)) \/ GiveUp(e))
    BY <1>16, <2>1 DEF Create
  <2> HIDE DEF made
  <2>3. tasks' \in [Ensurers -> EnsureTask]
    BY <2>1, <2>2, MoveTyped, GiveUpTyped
  <2> QED
    BY <1>16, <2>1, <2>2, <2>3 DEF Create, AdminTyped, administration, rows
<1>17. ASSUME NEW e \in Ensurers, Reveal(e) PROVE AdminTyped'
  <2>1. tasks[e].key \in Nat
    BY DEF AdminTyped, EnsureTask
  <2> QED
    BY <1>17, <2>1, MoveTyped, GiveUpTyped DEF Reveal, AdminTyped, administration, rows
<1>18. ASSUME NEW e \in Ensurers, Bind(e) PROVE AdminTyped'
  <2>1. routes' \in Seq(RouteRow) /\ tasks' \in [Ensurers -> EnsureTask]
    BY <1>18, BindSound, GiveUpTyped DEF Bind
  <2>2. strayed' \in BOOLEAN
    BY <1>18 DEF Bind, AdminTyped
  <2> QED
    BY <1>18, <2>1, <2>2 DEF Bind, AdminTyped
<1>19. ASSUME NEW s \in Sources, Reprice(s) PROVE AdminTyped'
  <2>1. PICK x \in Ratios \ {ratio[s]} : ratio' = [ratio EXCEPT ![s] = x]
    BY <1>19 DEF Reprice
  <2>2. ratio' \in Prices
    BY <2>1, PricesSound DEF AdminTyped, Prices
  <2> QED
    BY <1>19, <2>2, SpendTyped DEF Reprice, AdminTyped, rows, ensuring
<1>20. CASE UNCHANGED adminVars
  BY <1>20 DEF adminVars, AdminTyped
<1> QED
  BY <1>1, <1>2, <1>3, <1>4, <1>5, <1>6, <1>7, <1>8, <1>9, <1>10, <1>11, <1>12, <1>13, <1>14, <1>15,
     <1>16, <1>17, <1>18, <1>19, <1>20 DEF AdminNext

-----------------------------------------------------------------------------
(* RouteAdmin: the keys that are spoken of exist, and rows have their numbers. *)

\* The steps that touch neither the rows nor the keys nor who ensures them.
QuietStep ==
  \/ OpenForm \/ SubmitForm \/ BeginResort \/ ListForResort \/ Resort \/ Refresh
  \/ \E a \in Admins : ReadForLimit(a) \/ Weigh(a)
  \/ \E s \in Sources : Reprice(s)

\* Quiet steps are quiet.
LEMMA QuietIsQuiet == QuietStep => UNCHANGED <<routes, nextId, keys, tasks, strayed>>
  BY DEF QuietStep, OpenForm, SubmitForm, BeginResort, ListForResort, Resort, Refresh, ReadForLimit,
         Weigh, Reprice, rows, ensuring

\* The steps, by what they touch.
LEMMA AdminSteps ==
  [AdminNext]_adminVars =>
    \/ QuietStep \/ Restart \/ UNCHANGED adminVars
    \/ \E a \in Admins : Save(a) \/ Flag(a)
    \/ \E e \in Ensurers : StartEnsure(e) \/ Lock(e) \/ Find(e) \/ Update(e) \/ Create(e) \/ Reveal(e) \/ Bind(e)
  BY DEF AdminNext, QuietStep

\* What a step of a goroutine does to the others.
LEMMA EnsureFrame ==
  ASSUME AdminTyped, NEW e \in Ensurers,
         Lock(e) \/ Find(e) \/ Update(e) \/ Create(e) \/ Reveal(e)
  PROVE  UNCHANGED <<routes, nextId, jobs, strayed>>
  BY DEF Lock, Find, Update, Create, Reveal, administration, rows

\* The key of a row after a save is none, or that of a row of the same source.
LEMMA KeptKey ==
  ASSUME AdminTyped, NEW a \in Admins, Save(a), NEW p \in DOMAIN routes'
  PROVE  \/ routes'[p].key = NoKey
         \/ \E i \in DOMAIN routes : routes[i].key = routes'[p].key /\ routes[i].source = routes'[p].source
<1>1. jobs[a].list \in Seq(RouteRow) /\ routes \in Seq(RouteRow)
  BY DEF AdminTyped, Job
<1>2. CASE UNCHANGED rows
  BY <1>2 DEF rows
<1>3. CASE SaveForGroup(jobs[a].list)
  <2> DEFINE item == jobs[a].list[p]
  <2>1. /\ p \in DOMAIN jobs[a].list /\ routes'[p].source = item.source
        /\ routes'[p].key = Kept(item).key
    BY <1>1, <1>3, SaveSound
  <2>2. item \in RouteRow
    BY <1>1, <2>1
  <2> HIDE DEF item
  <2>3. CASE ~Continues(item)
    BY <1>1, <2>1, <2>2, <2>3, KeptSound
  <2>4. CASE Continues(item)
    <3>1. PICK i \in DOMAIN routes : RowWith(routes, item.id) = routes[i]
      BY <2>4, RowFound DEF Continues
    <3>2. routes'[p].key = routes[i].key /\ routes[i].source = item.source
      BY <1>1, <2>1, <2>2, <2>4, <3>1, KeptSound DEF Continues
    <3> QED
      BY <2>1, <3>2
  <2> QED
    BY <2>3, <2>4
<1> QED
  BY <1>2, <1>3 DEF Save

\* Every step keeps the keys that are spoken of.
LEMMA KeysExistStep == AdminTyped /\ KeysExist /\ [AdminNext]_adminVars => KeysExist'
<1> SUFFICES ASSUME AdminTyped, KeysExist, [AdminNext]_adminVars PROVE KeysExist'
  OBVIOUS
<1>1. CASE QuietStep \/ UNCHANGED adminVars
  BY <1>1, QuietIsQuiet DEF KeysExist, Exists, adminVars
<1>2. CASE Restart
  BY <1>2, IdleTyped DEF Restart, rows, KeysExist, Exists
<1>3. ASSUME NEW a \in Admins, Save(a) PROVE KeysExist'
  <2>1. UNCHANGED <<keys, tasks>>
    BY <1>3 DEF Save, ensuring
  <2> QED
    BY <1>3, <2>1, KeptKey DEF KeysExist, Exists
<1>4. ASSUME NEW a \in Admins, Flag(a) PROVE KeysExist'
  <2>1. UNCHANGED <<keys, tasks>>
    BY <1>4 DEF Flag, ensuring
  <2> QED
    BY <1>4, <2>1, FlagSound DEF KeysExist, Exists
<1>5. ASSUME NEW e \in Ensurers, StartEnsure(e) PROVE KeysExist'
  <2>1. PICK r \in Rows(routes) : tasks' = [tasks EXCEPT ![e] = [pc |-> "locking", row |-> r, key |-> NoKey]]
    BY <1>5 DEF StartEnsure
  <2>2. Exists(r.key)
    BY DEF Rows, KeysExist
  <2>3. UNCHANGED <<routes, keys>>
    BY <1>5 DEF StartEnsure, rows
  <2> QED
    BY <2>1, <2>2, <2>3 DEF KeysExist, Exists, AdminTyped
<1>6. ASSUME NEW e \in Ensurers, NEW pc, NEW k \in Nat, Move(e, pc, k), UNCHANGED routes,
             pc \in {"finding", "updating", "creating", "revealing", "binding"},
             pc \in {"updating", "revealing", "binding"} => k \in DOMAIN keys',
             DOMAIN keys \subseteq DOMAIN keys'
      PROVE  KeysExist'
  <2>1. /\ tasks'[e].pc = pc /\ tasks'[e].key = k /\ tasks'[e].row = tasks[e].row
        /\ \A f \in Ensurers : f # e => tasks'[f] = tasks[f]
    BY <1>6, MoveTyped
  <2>2. \A x : Exists(x) => Exists(x)'
    BY <1>6 DEF Exists
  <2>3. ASSUME NEW f \in Ensurers
        PROVE  /\ Exists(tasks[f].row.key)'
               /\ tasks'[f].pc \in {"updating", "revealing", "binding"} => tasks'[f].key \in DOMAIN keys'
    BY <1>6, <2>1, <2>2 DEF KeysExist, Exists
  <2>4. \A p \in DOMAIN routes' : Exists(routes[p].key)'
    BY <1>6, <2>2 DEF KeysExist, Exists
  <2> QED
    BY <2>3, <2>4 DEF KeysExist
<1>7. ASSUME NEW e \in Ensurers, GiveUp(e), UNCHANGED routes, DOMAIN keys \subseteq DOMAIN keys'
      PROVE  KeysExist'
  <2>1. tasks'[e].pc = "idle" /\ tasks'[e].row.key = NoKey /\ \A f \in Ensurers : f # e => tasks'[f] = tasks[f]
    BY <1>7, GiveUpTyped
  <2> QED
    BY <1>7, <2>1 DEF KeysExist, Exists
<1>8. \A k \in DOMAIN keys : k \in Nat
  BY DEF AdminTyped
<1>9. NoKey \in Nat
  BY DEF NoKey
<1>10. ASSUME NEW e \in Ensurers, Lock(e) PROVE KeysExist'
  BY <1>6, <1>9, <1>10, EnsureFrame DEF Lock
<1>11. ASSUME NEW e \in Ensurers, Find(e) PROVE KeysExist'
  <2>1. UNCHANGED <<routes, keys>>
    BY <1>11, EnsureFrame DEF Find
  <2>2. ASSUME NEW k \in Named(tasks[e].row.source), Move(e, "updating", k) PROVE KeysExist'
    BY <1>6, <1>8, <2>1, <2>2 DEF Named
  <2>3. ASSUME tasks[e].row.key # NoKey, Move(e, "updating", tasks[e].row.key) PROVE KeysExist'
    BY <1>6, <1>8, <2>1, <2>3 DEF KeysExist, Exists
  <2>4. ASSUME Move(e, "creating", NoKey) PROVE KeysExist'
    BY <1>6, <1>9, <2>1, <2>4
  <2> QED
    BY <1>7, <1>11, <2>1, <2>2, <2>3, <2>4 DEF Find
<1>12. ASSUME NEW e \in Ensurers, Update(e) PROVE KeysExist'
  <2>1. UNCHANGED routes /\ DOMAIN keys' = DOMAIN keys
    BY <1>12, EnsureFrame DEF Update, AdminTyped
  <2>2. tasks[e].key \in DOMAIN keys
    BY <1>12 DEF Update, Task, KeysExist
  <2> QED
    BY <1>6, <1>7, <1>8, <1>12, <2>1, <2>2 DEF Update
<1>13. ASSUME NEW e \in Ensurers, Create(e) PROVE KeysExist'
  <2> DEFINE made == Append(keys, Managed(tasks[e].row.source))
  <2>1. /\ Len(made) \in DOMAIN made /\ DOMAIN keys \subseteq DOMAIN made /\ Len(made) \in Nat
    BY MadeTyped DEF AdminTyped, EnsureTask, RouteRow
  <2>2. UNCHANGED routes
    BY <1>13, EnsureFrame
  <2>3. (keys' = made /\ Move(e, "revealing", Len(made))) \/ (keys' \in {made, keys} /\ GiveUp(e))
    BY <1>13 DEF Create
  <2> HIDE DEF made
  <2> QED
    BY <1>6, <1>7, <2>1, <2>2, <2>3
<1>14. ASSUME NEW e \in Ensurers, Reveal(e) PROVE KeysExist'
  <2>1. UNCHANGED <<routes, keys>> /\ tasks[e].key \in DOMAIN keys
    BY <1>14, EnsureFrame DEF Reveal, Task, KeysExist
  <2> QED
    BY <1>6, <1>7, <1>8, <1>14, <2>1 DEF Reveal
<1>15. ASSUME NEW e \in Ensurers, Bind(e) PROVE KeysExist'
  <2>1. tasks[e].key \in DOMAIN keys /\ GiveUp(e) /\ UNCHANGED keys
    BY <1>15 DEF Bind, Task, KeysExist
  <2>2. tasks'[e].pc = "idle" /\ tasks'[e].row.key = NoKey /\ \A f \in Ensurers : f # e => tasks'[f] = tasks[f]
    BY <2>1, GiveUpTyped
  <2>3. \A p \in DOMAIN routes' : Exists(routes[p].key)'
    BY <1>15, <2>1, BindSound DEF KeysExist, Exists
  <2> QED
    BY <2>1, <2>2, <2>3 DEF KeysExist, Exists
<1> QED
  BY <1>1, <1>2, <1>3, <1>4, <1>5, <1>10, <1>11, <1>12, <1>13, <1>14, <1>15, AdminSteps

\* Every step keeps the numbers of the rows apart.
LEMMA IdsStep == AdminTyped /\ IdsSound /\ [AdminNext]_adminVars => IdsSound'
<1> SUFFICES ASSUME AdminTyped, IdsSound, [AdminNext]_adminVars PROVE IdsSound'
  OBVIOUS
<1> DEFINE Apart(rs) == \A p, q \in DOMAIN rs : p # q /\ rs[p].id = rs[q].id => rs[p].id = 0
           Listed(pc) == pc \in {"form", "ordering", "saving"}
<1>0. /\ routes \in Seq(RouteRow) /\ jobs \in [Admins -> Job] /\ << >> \in Seq(RouteRow) /\ nextId \in Nat
      /\ \A a \in Admins : jobs[a].list \in Seq(RouteRow) /\ (Listed(jobs[a].pc) => Apart(jobs[a].list))
      /\ Apart(routes)
  BY DEF AdminTyped, Job, IdsSound
<1>1. ASSUME UNCHANGED <<routes, nextId>>, NEW a \in Admins, NEW rs \in Seq(RouteRow), NEW pc, GoOn(a, pc, rs),
             Listed(pc) => Apart(rs)
      PROVE  IdsSound'
  <2>1. jobs'[a].pc = pc /\ jobs'[a].list = rs /\ \A b \in Admins : b # a => jobs'[b] = jobs[b]
    BY <1>0, <1>1 DEF GoOn
  <2> QED
    BY <1>0, <1>1, <2>1 DEF IdsSound
<1>2. ASSUME UNCHANGED <<routes, nextId, jobs>> PROVE IdsSound'
  BY <1>2 DEF IdsSound
<1>3. ASSUME NEW groups \in Prices, NEW rs \in Seq(RouteRow), Apart(rs), NEW m \in Ordered(rs, groups)
      PROVE  m \in Seq(RouteRow) /\ Apart(m)
  <2>1. /\ m \in Seq(RouteRow) /\ DOMAIN m = DOMAIN rs
        /\ \E place \in [DOMAIN rs -> DOMAIN rs] :
             /\ \A p, q \in DOMAIN rs : p # q => place[p] # place[q]
             /\ \A p \in DOMAIN rs : m[p].id = rs[place[p]].id
    BY <1>3, OrderedSound
  <2>2. PICK place \in [DOMAIN rs -> DOMAIN rs] :
          /\ \A p, q \in DOMAIN rs : p # q => place[p] # place[q]
          /\ \A p \in DOMAIN rs : m[p].id = rs[place[p]].id
    BY <2>1
  <2>3. ASSUME NEW p \in DOMAIN m, NEW q \in DOMAIN m, p # q, m[p].id = m[q].id PROVE m[p].id = 0
    <3>1. place[p] \in DOMAIN rs /\ place[q] \in DOMAIN rs /\ place[p] # place[q]
      BY <2>1, <2>2, <2>3
    <3>2. m[p].id = rs[place[p]].id /\ m[q].id = rs[place[q]].id
      BY <2>1, <2>2
    <3> QED
      BY <1>3, <2>3, <3>1, <3>2
  <2> QED
    BY <2>1, <2>3
<1>4. ASSUME NEW form \in Seq(RouteRow), Apart(form), NEW edited \in Edits(form) PROVE Apart(edited)
  <2>1. ASSUME NEW p \in DOMAIN form, NEW s \in Sources, edited = [form EXCEPT ![p].source = s]
        PROVE  Apart(edited)
    <3>1. DOMAIN edited = DOMAIN form
      BY <2>1
    <3>2. \A q \in DOMAIN form : edited[q].id = form[q].id
      <4> TAKE q \in DOMAIN form
      <4>1. CASE q = p
        <5>1. edited[p] = [form[p] EXCEPT !.source = s] /\ form[p] \in RouteRow
          BY <2>1
        <5> QED
          BY <4>1, <5>1 DEF RouteRow
      <4>2. CASE q # p
        BY <2>1, <4>2
      <4> QED
        BY <4>1, <4>2
    <3> QED
      BY <1>4, <3>1, <3>2
  <2>2. ASSUME NEW p \in DOMAIN form, edited = RemoveAt(form, p) PROVE Apart(edited)
    <3>1. DOMAIN edited = 1..Len(form) - 1 /\ \A q \in 1..Len(form) - 1 : edited[q] = form[IF q < p THEN q ELSE q + 1]
      BY <2>2, RemoveAtSound
    <3>2. DOMAIN form = 1..Len(form) /\ Len(form) \in Nat
      OBVIOUS
    <3>3. ASSUME NEW q \in DOMAIN edited, NEW r \in DOMAIN edited, q # r, edited[q].id = edited[r].id
          PROVE  edited[q].id = 0
      <4> DEFINE at(x) == IF x < p THEN x ELSE x + 1
      <4>1. at(q) \in DOMAIN form /\ at(r) \in DOMAIN form /\ at(q) # at(r)
        BY <3>1, <3>2, <3>3
      <4>2. edited[q] = form[at(q)] /\ edited[r] = form[at(r)]
        BY <3>1
      <4> HIDE DEF at
      <4> QED
        BY <1>4, <3>3, <4>1, <4>2
    <3> QED
      BY <3>3
  <2>3. ASSUME NEW s \in Sources, edited = Append(form, Row(0, s)) PROVE Apart(edited)
    <3>1. Len(form) \in Nat /\ DOMAIN form = 1..Len(form) /\ DOMAIN edited = 1..Len(form) + 1
      BY <2>3
    <3>2. edited[Len(form) + 1].id = 0
      <4>1. edited[Len(form) + 1] = Row(0, s)
        BY <2>3
      <4> QED
        BY <4>1 DEF Row
    <3>3. \A q \in DOMAIN form : edited[q] = form[q]
      BY <2>3
    <3> QED
      BY <1>4, <3>1, <3>2, <3>3
  <2> QED
    BY <2>1, <2>2, <2>3 DEF Edits
<1>5. CASE QuietStep
  <2> USE <1>5, QuietIsQuiet
  <2>1. CASE OpenForm
    BY <1>0, <1>1, <2>1 DEF OpenForm, Admins
  <2>2. CASE SubmitForm
    <3>1. PICK edited \in Edits(jobs["operator"].list), groups \in {cached.groups, ratio, Unpriced} :
          \E rs \in Ordered(edited, groups) : LoadGroups(groups) /\ GoOn("operator", "saving", rs)
      BY <2>2 DEF SubmitForm
    <3>2. "operator" \in Admins /\ groups \in Prices /\ Listed(jobs["operator"].pc)
      BY <2>2, <3>1, LoadGroupsTyped DEF Admins, SubmitForm, At
    <3>3. edited \in Seq(RouteRow) /\ Apart(edited)
      BY <1>0, <1>4, <3>1, <3>2, EditsTyped
    <3>4. PICK rs \in Ordered(edited, groups) : GoOn("operator", "saving", rs)
      BY <3>1
    <3>5. rs \in Seq(RouteRow) /\ Apart(rs)
      BY <1>3, <3>2, <3>3
    <3> QED
      BY <1>1, <3>2, <3>4, <3>5
  <2>3. CASE BeginResort
    BY <1>0, <1>1, <2>3 DEF BeginResort, Admins
  <2>4. CASE ListForResort
    BY <1>0, <1>1, <2>4 DEF ListForResort, Admins
  <2>5. CASE Resort
    <3>1. PICK groups \in {cached.groups, ratio, Unpriced} :
          \E rs \in Ordered(jobs["scan"].list, groups) : LoadGroups(groups) /\ GoOn("scan", "saving", rs)
      BY <2>5 DEF Resort
    <3>2. "scan" \in Admins /\ groups \in Prices /\ Listed(jobs["scan"].pc)
      BY <2>5, <3>1, LoadGroupsTyped DEF Admins, Resort, At
    <3>3. PICK rs \in Ordered(jobs["scan"].list, groups) : GoOn("scan", "saving", rs)
      BY <3>1
    <3>4. rs \in Seq(RouteRow) /\ Apart(rs)
      BY <1>0, <1>3, <3>2
    <3> QED
      BY <1>1, <3>2, <3>3, <3>4
  <2>6. CASE Refresh
    BY <1>2, <2>6 DEF Refresh, rows
  <2>7. ASSUME NEW a \in Admins, ReadForLimit(a) PROVE IdsSound'
    BY <1>0, <1>1, <2>7 DEF ReadForLimit
  <2>8. ASSUME NEW a \in Admins, Weigh(a) PROVE IdsSound'
    <3>1. PICK groups \in {cached.groups, ratio, Unpriced} :
          \E rs \in Reflagged(jobs[a].list, groups) :
            LoadGroups(groups) /\ GoOn(a, IF rs = << >> THEN "idle" ELSE "flagging", rs)
      BY <2>8 DEF Weigh
    <3>2. groups \in Prices
      BY <3>1, LoadGroupsTyped
    <3>3. PICK rs \in Reflagged(jobs[a].list, groups) : GoOn(a, IF rs = << >> THEN "idle" ELSE "flagging", rs)
      BY <3>1
    <3>4. rs \in Seq(RouteRow)
      BY <1>0, <3>2, ReflaggedSound
    <3> QED
      BY <1>1, <3>3, <3>4
  <2>9. ASSUME NEW s \in Sources, Reprice(s) PROVE IdsSound'
    BY <1>2, <2>9 DEF Reprice, rows
  <2> QED
    BY <2>1, <2>2, <2>3, <2>4, <2>5, <2>6, <2>7, <2>8, <2>9 DEF QuietStep
<1>6. CASE Restart
  <2>1. \A a \in Admins : ~Listed(jobs'[a].pc)
    BY <1>6, IdleJobTyped DEF Restart
  <2> QED
    BY <1>6, <2>1 DEF Restart, rows, IdsSound
<1>7. ASSUME NEW a \in Admins, Save(a) PROVE IdsSound'
  <2>1. PICK pc \in {"idle", "limiting"} : GoOn(a, pc, << >>)
    BY <1>7 DEF Save
  <2>2. CASE UNCHANGED rows
    BY <1>0, <1>1, <2>1, <2>2 DEF rows
  <2>3. CASE SaveForGroup(jobs[a].list)
    <3> DEFINE rs == jobs[a].list
               Old(p) == rs[p].id \in IdsOf(routes)
    <3>1. /\ rs \in Seq(RouteRow) /\ Apart(rs)
      BY <1>0, <1>7 DEF Save, At
    <3>2. /\ routes' \in Seq(RouteRow) /\ nextId' \in Nat /\ nextId <= nextId' /\ DOMAIN routes' = DOMAIN rs
          /\ \A p \in DOMAIN rs :
               /\ Old(p) => routes'[p].id = rs[p].id
               /\ ~Old(p) => nextId <= routes'[p].id /\ routes'[p].id < nextId'
          /\ \A p, q \in DOMAIN rs : p < q /\ ~Old(p) /\ ~Old(q) => routes'[p].id < routes'[q].id
      BY <2>3, <3>1, SaveSound
    <3>3. \A p \in DOMAIN rs : Old(p) => 1 <= rs[p].id /\ rs[p].id < nextId
      BY DEF IdsOf, Rows, IdsSound
    <3>4. \A p \in DOMAIN rs : routes'[p].id \in Nat /\ p \in Nat
      <4> TAKE p \in DOMAIN rs
      <4>1. p \in Nat
        BY <3>1
      <4>2. routes'[p] \in RouteRow
        BY <3>2
      <4> QED
        BY <4>1, <4>2 DEF RouteRow
    <3>5. 1 <= nextId
      BY DEF IdsSound
    <3>6. \A b \in Admins : Listed(jobs'[b].pc) => jobs'[b] = jobs[b] /\ Listed(jobs[b].pc)
      BY <1>0, <2>1 DEF GoOn
    <3> HIDE DEF Old, rs
    <3>7. \A p \in DOMAIN rs : 1 <= routes'[p].id /\ routes'[p].id < nextId'
      BY <1>0, <3>2, <3>3, <3>4, <3>5
    <3>8. ASSUME NEW p \in DOMAIN rs, NEW q \in DOMAIN rs, p < q PROVE routes'[p].id # routes'[q].id
      <4>1. CASE Old(p) /\ Old(q)
        BY <3>1, <3>2, <3>3, <3>8, <4>1
      <4>2. CASE ~Old(p) /\ ~Old(q)
        BY <3>2, <3>4, <3>8, <4>2
      <4>3. CASE Old(p) /\ ~Old(q)
        BY <1>0, <3>2, <3>3, <3>4, <4>3
      <4>4. CASE ~Old(p) /\ Old(q)
        BY <1>0, <3>2, <3>3, <3>4, <4>4
      <4> QED
        BY <4>1, <4>2, <4>3, <4>4
    <3>9. \A p, q \in DOMAIN routes' : p # q => routes'[p].id # routes'[q].id
      BY <3>2, <3>4, <3>8
    <3>10. 1 <= nextId'
      BY <1>0, <3>2, <3>5
    <3>11. \A b \in Admins : Listed(jobs'[b].pc) => Apart(jobs'[b].list)
      BY <1>0, <3>6
    <3> QED
      BY <3>2, <3>7, <3>9, <3>10, <3>11 DEF IdsSound
  <2> QED
    BY <1>7, <2>2, <2>3 DEF Save
<1>8. ASSUME NEW a \in Admins, Flag(a) PROVE IdsSound'
  <2> DEFINE rest == Tail(jobs[a].list)
             pc == IF rest = << >> THEN "idle" ELSE "flagging"
  <2>1. /\ DOMAIN routes' = DOMAIN routes /\ \A p \in DOMAIN routes : routes'[p].id = routes[p].id
        /\ GoOn(a, pc, rest) /\ UNCHANGED nextId
    BY <1>8, FlagSound DEF Flag
  <2>2. ~Listed(pc)
    OBVIOUS
  <2> HIDE DEF pc, rest
  <2>3. \A b \in Admins : Listed(jobs'[b].pc) => jobs'[b] = jobs[b]
    BY <1>0, <2>1, <2>2 DEF GoOn
  <2> QED
    BY <2>1, <2>3 DEF IdsSound
<1>9. ASSUME NEW e \in Ensurers,
             StartEnsure(e) \/ Lock(e) \/ Find(e) \/ Update(e) \/ Create(e) \/ Reveal(e)
      PROVE  IdsSound'
  <2>1. UNCHANGED <<routes, nextId, jobs>>
    BY <1>9, EnsureFrame DEF StartEnsure, rows
  <2> QED
    BY <1>2, <2>1
<1>10. ASSUME NEW e \in Ensurers, Bind(e) PROVE IdsSound'
  <2>1. /\ DOMAIN routes' = DOMAIN routes /\ \A p \in DOMAIN routes : routes'[p].id = routes[p].id
        /\ UNCHANGED <<nextId, jobs>>
    BY <1>10, BindSound DEF Bind
  <2> QED
    BY <2>1 DEF IdsSound
<1>11. CASE UNCHANGED adminVars
  BY <1>2, <1>11 DEF adminVars
<1> QED
  BY <1>5, <1>6, <1>7, <1>8, <1>9, <1>10, <1>11, AdminSteps

-----------------------------------------------------------------------------
(* RouteAdmin: who ensures a key, and whose key it is. *)

\* Every step keeps what is known about the keys' names.
LEMMA NamesStep == AdminTyped /\ KeysExist /\ NamesSound /\ [AdminNext]_adminVars => NamesSound'
<1> SUFFICES ASSUME AdminTyped, KeysExist, NamesSound, [AdminNext]_adminVars PROVE NamesSound'
  OBVIOUS
<1>0. tasks \in [Ensurers -> EnsureTask] /\ keys \in Seq(UpstreamKey)
  BY DEF AdminTyped
<1>1. ASSUME UNCHANGED <<keys, tasks>> PROVE NamesSound'
  BY <1>1 DEF NamesSound, Working
<1>2. ASSUME NEW e \in Ensurers, UNCHANGED keys, ~Working(e)', \A f \in Ensurers : f # e => tasks'[f] = tasks[f]
      PROVE  NamesSound'
  BY <1>2 DEF NamesSound, Working
<1>3. CASE QuietStep \/ UNCHANGED adminVars
  BY <1>1, <1>3, QuietIsQuiet DEF adminVars
<1>4. CASE Restart
  <2>1. \A e \in Ensurers : tasks'[e].pc = "idle"
    BY <1>4, IdleTyped DEF Restart
  <2> QED
    BY <1>4, <2>1 DEF Restart, NamesSound, Working
<1>5. ASSUME NEW a \in Admins, Save(a) \/ Flag(a) PROVE NamesSound'
  BY <1>1, <1>5 DEF Save, Flag, ensuring
<1>6. ASSUME NEW e \in Ensurers, StartEnsure(e) PROVE NamesSound'
  <2>1. PICK r \in Rows(routes) : tasks' = [tasks EXCEPT ![e] = [pc |-> "locking", row |-> r, key |-> NoKey]]
    BY <1>6 DEF StartEnsure
  <2>2. UNCHANGED keys
    BY <1>6 DEF StartEnsure
  <2>3. ~Working(e)' /\ \A f \in Ensurers : f # e => tasks'[f] = tasks[f]
    BY <1>0, <2>1 DEF Working
  <2> QED
    BY <1>2, <2>2, <2>3
<1>7. ASSUME NEW e \in Ensurers, GiveUp(e), UNCHANGED keys PROVE NamesSound'
  <2>1. tasks'[e].pc = "idle" /\ \A f \in Ensurers : f # e => tasks'[f] = tasks[f]
    BY <1>7, GiveUpTyped
  <2> QED
    BY <1>2, <1>7, <2>1 DEF Working
<1>8. ASSUME NEW e \in Ensurers, NEW pc, NEW k \in Nat, Move(e, pc, k), UNCHANGED keys,
             pc \in {"finding", "updating", "creating", "revealing", "binding"},
             \A f \in Ensurers : f # e /\ Working(f) => tasks[f].row.source # tasks[e].row.source,
             pc = "creating" => Named(tasks[e].row.source) = {},
             pc = "updating" => \A m \in Named(tasks[e].row.source) : m = k
      PROVE  NamesSound'
  <2>1. /\ tasks'[e].pc = pc /\ tasks'[e].key = k /\ tasks'[e].row = tasks[e].row
        /\ \A f \in Ensurers : f # e => tasks'[f] = tasks[f]
    BY <1>8, MoveTyped
  <2>2. \A f \in Ensurers : f # e => (Working(f)' <=> Working(f)) /\ tasks'[f].row.source = tasks[f].row.source
    BY <2>1 DEF Working
  <2>3. tasks'[e].row.source = tasks[e].row.source
    BY <2>1
  <2>4. \A f, g \in Ensurers : f # g /\ Working(f)' /\ Working(g)' => tasks'[f].row.source # tasks'[g].row.source
    BY <1>8, <2>2, <2>3 DEF NamesSound
  <2>5. ASSUME NEW f \in Ensurers
        PROVE  /\ tasks'[f].pc = "creating" => \A m \in DOMAIN keys' : keys'[m].name # tasks'[f].row.source
               /\ tasks'[f].pc = "updating" =>
                    \A m \in DOMAIN keys' : keys'[m].name = tasks'[f].row.source => m = tasks'[f].key
    <3>1. CASE f = e
      BY <1>8, <2>1, <3>1 DEF Named
    <3>2. CASE f # e
      BY <1>8, <2>1, <3>2 DEF NamesSound
    <3> QED
      BY <3>1, <3>2
  <2> QED
    BY <1>8, <2>4, <2>5 DEF NamesSound
<1>9. \A e, f \in Ensurers : Working(e) /\ f # e /\ Working(f) => tasks[f].row.source # tasks[e].row.source
  BY DEF NamesSound
<1>10. \A k \in DOMAIN keys : k \in Nat
  BY <1>0
<1>11. NoKey \in Nat
  BY DEF NoKey
<1>12. ASSUME NEW e \in Ensurers, Lock(e) PROVE NamesSound'
  <2>1. \A f \in Ensurers : f # e /\ Working(f) => tasks[f].row.source # tasks[e].row.source
    BY <1>12 DEF Lock, LockFree, Holders, Working
  <2> QED
    BY <1>8, <1>11, <1>12, <2>1 DEF Lock
<1>13. ASSUME NEW e \in Ensurers, Find(e) PROVE NamesSound'
  <2>1. Working(e) /\ UNCHANGED keys
    BY <1>13 DEF Find, Task, Working
  <2>2. tasks[e].row.source \in Sources
    BY <1>0 DEF EnsureTask, RouteRow
  <2>3. ASSUME NEW k \in Named(tasks[e].row.source), Move(e, "updating", k) PROVE NamesSound'
    <3>1. \A m \in Named(tasks[e].row.source) : m = k
      BY <2>2, PricesSound DEF Named, NamesSound
    <3>2. k \in Nat
      BY <1>10 DEF Named
    <3> QED
      BY <1>8, <1>9, <2>1, <2>3, <3>1, <3>2
  <2>4. ASSUME Named(tasks[e].row.source) = {}, tasks[e].row.key # NoKey, Move(e, "updating", tasks[e].row.key)
        PROVE  NamesSound'
    <3>1. tasks[e].row.key \in Nat
      BY <1>0 DEF EnsureTask, RouteRow
    <3> QED
      BY <1>8, <1>9, <2>1, <2>4, <3>1
  <2>5. ASSUME Named(tasks[e].row.source) = {}, Move(e, "creating", NoKey) PROVE NamesSound'
    BY <1>8, <1>9, <1>11, <2>1, <2>5
  <2>6. CASE GiveUp(e)
    BY <1>7, <2>1, <2>6
  <2> QED
    BY <1>13, <2>3, <2>4, <2>5, <2>6 DEF Find
<1>14. ASSUME NEW e \in Ensurers, NEW s \in Sources, s = tasks[e].row.source, Working(e),
              DOMAIN keys \subseteq DOMAIN keys',
              NEW m \in DOMAIN keys', keys'[m].name = s,
              \A k \in DOMAIN keys' : k # m => k \in DOMAIN keys /\ keys'[k] = keys[k],
              \A k \in DOMAIN keys : keys[k].name = s => k = m,
              tasks'[e].pc \notin {"updating", "creating"},
              tasks'[e].pc = "idle" \/ tasks'[e].row = tasks[e].row,
              \A f \in Ensurers : f # e => tasks'[f] = tasks[f]
       PROVE  NamesSound'
  <2>1. \A f \in Ensurers : f # e => (Working(f)' <=> Working(f)) /\ tasks'[f].row.source = tasks[f].row.source
    BY <1>14 DEF Working
  <2>2. Working(e)' => tasks'[e].row.source = s
    BY <1>14 DEF Working
  <2>3. \A f, g \in Ensurers : f # g /\ Working(f)' /\ Working(g)' => tasks'[f].row.source # tasks'[g].row.source
    BY <1>14, <2>1, <2>2 DEF NamesSound
  <2>4. s # Legacy
    BY PricesSound
  <2>5. \A k \in DOMAIN keys' : keys'[k].name = s => k = m
    BY <1>14
  <2>6. \A k, n \in DOMAIN keys' : keys'[k].name = keys'[n].name => keys'[k].name = Legacy \/ k = n
    BY <1>14, <2>5 DEF NamesSound
  <2>7. ASSUME NEW f \in Ensurers
        PROVE  /\ tasks'[f].pc = "creating" => \A k \in DOMAIN keys' : keys'[k].name # tasks'[f].row.source
               /\ tasks'[f].pc = "updating" =>
                    \A k \in DOMAIN keys' : keys'[k].name = tasks'[f].row.source => k = tasks'[f].key
    <3>1. CASE f = e
      BY <1>14, <3>1
    <3>2. CASE f # e /\ tasks[f].pc \in {"creating", "updating"}
      <4>1. tasks[f].row.source # s /\ tasks'[f] = tasks[f]
        BY <1>14, <3>2 DEF NamesSound, Working
      <4>2. \A k \in DOMAIN keys' : keys'[k].name = tasks[f].row.source => k \in DOMAIN keys /\ keys'[k] = keys[k]
        BY <1>14, <4>1
      <4> QED
        BY <3>2, <4>1, <4>2 DEF NamesSound
    <3>3. CASE f # e /\ tasks[f].pc \notin {"creating", "updating"}
      BY <1>14, <3>3
    <3> QED
      BY <3>1, <3>2, <3>3
  <2> QED
    BY <2>3, <2>6, <2>7 DEF NamesSound
<1>15. ASSUME NEW e \in Ensurers, Update(e) PROVE NamesSound'
  <2> DEFINE s == tasks[e].row.source
             m == tasks[e].key
  <2>1. /\ Working(e) /\ tasks[e].pc = "updating" /\ s \in Sources /\ m \in DOMAIN keys /\ m \in Nat
        /\ Managed(s) \in UpstreamKey /\ Managed(s).name = s
    BY <1>0, <1>10, <1>15, MadeTyped DEF Update, Task, Working, EnsureTask, RouteRow, KeysExist
  <2>2. CASE GiveUp(e) /\ UNCHANGED keys
    BY <1>7, <2>2
  <2>3. CASE keys' = [keys EXCEPT ![m] = Managed(s)] /\ Move(e, "revealing", m)
    <3>1. /\ DOMAIN keys' = DOMAIN keys /\ keys'[m] = Managed(s)
          /\ \A k \in DOMAIN keys' : k # m => k \in DOMAIN keys /\ keys'[k] = keys[k]
      BY <1>0, <2>1, <2>3
    <3>2. /\ tasks'[e].pc = "revealing" /\ tasks'[e].row = tasks[e].row
          /\ \A f \in Ensurers : f # e => tasks'[f] = tasks[f]
      BY <2>1, <2>3, MoveTyped
    <3>3. \A k \in DOMAIN keys : keys[k].name = s => k = m
      BY <2>1 DEF NamesSound
    <3> QED
      BY <1>14, <2>1, <3>1, <3>2, <3>3
  <2> QED
    BY <1>15, <2>2, <2>3 DEF Update
<1>16. ASSUME NEW e \in Ensurers, Create(e) PROVE NamesSound'
  <2> DEFINE s == tasks[e].row.source
             made == Append(keys, Managed(s))
  <2>1. Working(e) /\ tasks[e].pc = "creating" /\ s \in Sources
    BY <1>0, <1>16 DEF Create, Task, Working, EnsureTask, RouteRow
  <2>2. /\ Len(made) = Len(keys) + 1 /\ Len(keys) \in Nat /\ DOMAIN keys = 1..Len(keys)
        /\ DOMAIN made = 1..Len(keys) + 1 /\ made[Len(keys) + 1].name = s
        /\ \A k \in DOMAIN keys : made[k] = keys[k]
    BY <2>1, MadeTyped
  <2>3. \A k \in DOMAIN keys : keys[k].name # s
    BY <2>1 DEF NamesSound
  <2>4. \/ keys' = made /\ Move(e, "revealing", Len(made))
        \/ GiveUp(e) /\ keys' \in {keys, made}
    BY <1>16 DEF Create
  <2>5. /\ tasks'[e].pc = "idle" \/ (tasks'[e].pc = "revealing" /\ tasks'[e].row = tasks[e].row)
        /\ \A f \in Ensurers : f # e => tasks'[f] = tasks[f]
    BY <2>2, <2>4, MoveTyped, GiveUpTyped
  <2>6. CASE keys' = made
    <3>1. /\ DOMAIN keys \subseteq DOMAIN keys' /\ Len(keys) + 1 \in DOMAIN keys' /\ keys'[Len(keys) + 1].name = s
          /\ \A k \in DOMAIN keys' : k # Len(keys) + 1 => k \in DOMAIN keys /\ keys'[k] = keys[k]
      BY <2>2, <2>6
    <3> HIDE DEF s, made
    <3> QED
      BY <1>14, <2>1, <2>3, <2>5, <3>1 DEF s
  <2>7. CASE keys' # made
    BY <1>7, <2>4, <2>7
  <2> QED
    BY <2>6, <2>7
<1>17. ASSUME NEW e \in Ensurers, Reveal(e) PROVE NamesSound'
  <2>1. Working(e) /\ UNCHANGED keys /\ tasks[e].key \in Nat
    BY <1>0, <1>17 DEF Reveal, Task, Working, EnsureTask
  <2> QED
    BY <1>7, <1>8, <1>9, <1>17, <2>1 DEF Reveal
<1>18. ASSUME NEW e \in Ensurers, Bind(e) PROVE NamesSound'
  BY <1>7, <1>18 DEF Bind
<1> QED
  BY <1>3, <1>4, <1>5, <1>6, <1>12, <1>13, <1>15, <1>16, <1>17, <1>18, AdminSteps

\* Every step keeps the keys with their sources.
LEMMA FitStep == AdminTyped /\ KeysExist /\ FitSound /\ [AdminNext]_adminVars => FitSound'
<1> SUFFICES ASSUME AdminTyped, KeysExist, FitSound, [AdminNext]_adminVars PROVE FitSound'
  OBVIOUS
<1>0. tasks \in [Ensurers -> EnsureTask] /\ keys \in Seq(UpstreamKey) /\ routes \in Seq(RouteRow)
  BY DEF AdminTyped
<1> DEFINE TaskFits(f) ==
             /\ tasks[f].pc # "idle" => Fits(tasks[f].row.key, tasks[f].row.source)
             /\ tasks[f].pc \in {"updating", "revealing", "binding"} => Fits(tasks[f].key, tasks[f].row.source)
           RowsFit == \A p \in DOMAIN routes : Fits(routes[p].key, routes[p].source)
           NamesFit == \A k \in DOMAIN keys : keys[k].name \in Sources => keys[k].group = keys[k].name
<1>1. NamesFit /\ (~strayed => RowsFit /\ \A f \in Ensurers : TaskFits(f))
  BY DEF FitSound
<1>2. ASSUME UNCHANGED <<keys, strayed>>, UNCHANGED routes \/ (~strayed => RowsFit'), NEW e,
             ~strayed => TaskFits(e)', \A f \in Ensurers : f # e => tasks'[f] = tasks[f]
      PROVE  FitSound'
  <2>1. ASSUME ~strayed, NEW f \in Ensurers PROVE TaskFits(f)'
    <3>1. CASE f = e
      BY <1>2, <2>1, <3>1
    <3>2. CASE f # e
      BY <1>1, <1>2, <2>1, <3>2 DEF Fits
    <3> QED
      BY <3>1, <3>2
  <2>2. ~strayed => RowsFit'
    BY <1>1, <1>2 DEF Fits
  <2>3. NamesFit'
    BY <1>1, <1>2
  <2> QED
    BY <1>2, <2>1, <2>2, <2>3 DEF FitSound
<1>3. ASSUME UNCHANGED <<keys, strayed, tasks>>, UNCHANGED routes \/ (~strayed => RowsFit')
      PROVE  FitSound'
  <2>1. ~strayed => \A f \in Ensurers : TaskFits(f)'
    BY <1>1, <1>3 DEF Fits
  <2>2. ~strayed => RowsFit'
    BY <1>1, <1>3 DEF Fits
  <2>3. NamesFit'
    BY <1>1, <1>3
  <2> QED
    BY <1>3, <2>1, <2>2, <2>3 DEF FitSound
<1>4. CASE QuietStep \/ UNCHANGED adminVars
  BY <1>3, <1>4, QuietIsQuiet DEF adminVars
<1>5. CASE Restart
  <2>1. \A f \in Ensurers : TaskFits(f)'
    BY <1>5, IdleTyped DEF Restart
  <2> QED
    BY <1>1, <1>5, <2>1 DEF Restart, rows, FitSound, Fits
<1>6. ASSUME NEW a \in Admins, Save(a) PROVE FitSound'
  <2>1. UNCHANGED <<keys, strayed, tasks>>
    BY <1>6 DEF Save, ensuring
  <2>2. ~strayed => RowsFit'
    BY <1>1, <1>6, <2>1, KeptKey DEF Fits
  <2> QED
    BY <1>3, <2>1, <2>2
<1>7. ASSUME NEW a \in Admins, Flag(a) PROVE FitSound'
  <2>1. UNCHANGED <<keys, strayed, tasks>>
    BY <1>7 DEF Flag, ensuring
  <2>2. ~strayed => RowsFit'
    BY <1>1, <1>7, <2>1, FlagSound DEF Fits
  <2> QED
    BY <1>3, <2>1, <2>2
<1>8. ASSUME NEW e \in Ensurers, StartEnsure(e) PROVE FitSound'
  <2>1. PICK r \in Rows(routes) : tasks' = [tasks EXCEPT ![e] = [pc |-> "locking", row |-> r, key |-> NoKey]]
    BY <1>8 DEF StartEnsure
  <2>2. UNCHANGED <<keys, strayed, routes>>
    BY <1>8 DEF StartEnsure, rows
  <2>3. ~strayed => Fits(r.key, r.source)
    BY <1>1 DEF Rows
  <2>4. tasks'[e].row = r /\ tasks'[e].pc = "locking" /\ \A f \in Ensurers : f # e => tasks'[f] = tasks[f]
    BY <1>0, <2>1
  <2>5. ~strayed => TaskFits(e)'
    BY <2>2, <2>3, <2>4 DEF Fits
  <2> QED
    BY <1>2, <2>2, <2>4, <2>5
<1>9. ASSUME NEW e \in Ensurers, GiveUp(e) PROVE TaskFits(e)' /\ \A f \in Ensurers : f # e => tasks'[f] = tasks[f]
  BY <1>9, GiveUpTyped
<1>10. ASSUME NEW e \in Ensurers, NEW pc, NEW k \in Nat, Move(e, pc, k), UNCHANGED <<keys, strayed, routes>>,
              tasks[e].pc # "idle", pc \in {"finding", "updating", "creating", "revealing", "binding"},
              ~strayed /\ pc \in {"updating", "revealing", "binding"} => Fits(k, tasks[e].row.source)
       PROVE  FitSound'
  <2>1. /\ tasks'[e].pc = pc /\ tasks'[e].key = k /\ tasks'[e].row = tasks[e].row
        /\ \A f \in Ensurers : f # e => tasks'[f] = tasks[f]
    BY <1>10, MoveTyped
  <2>2. ~strayed => TaskFits(e)'
    BY <1>1, <1>10, <2>1 DEF Fits
  <2> QED
    BY <1>2, <1>10, <2>1, <2>2
<1>11. NoKey \in Nat /\ \A k \in DOMAIN keys : k \in Nat
  BY <1>0 DEF NoKey
<1>12. \A e \in Ensurers : tasks[e].key \in Nat /\ tasks[e].row.key \in Nat /\ tasks[e].row.source \in Sources
  BY <1>0 DEF EnsureTask, RouteRow
<1>13. ASSUME NEW e \in Ensurers, Lock(e) PROVE FitSound'
  <2>1. UNCHANGED <<keys, strayed, routes>> /\ tasks[e].pc # "idle" /\ Move(e, "finding", NoKey)
    BY <1>13, EnsureFrame DEF Lock, Task
  <2> QED
    BY <1>10, <1>11, <2>1
<1>14. ASSUME NEW e \in Ensurers, Find(e) PROVE FitSound'
  <2>1. UNCHANGED <<keys, strayed, routes>> /\ tasks[e].pc # "idle"
    BY <1>14, EnsureFrame DEF Find, Task
  <2>2. ASSUME NEW k \in Named(tasks[e].row.source), Move(e, "updating", k) PROVE FitSound'
    <3>1. k \in Nat /\ Fits(k, tasks[e].row.source)
      BY <1>1, <1>11, <1>12 DEF Named, Fits
    <3> QED
      BY <1>10, <2>1, <2>2, <3>1
  <2>3. ASSUME Move(e, "updating", tasks[e].row.key) PROVE FitSound'
    <3>1. ~strayed => Fits(tasks[e].row.key, tasks[e].row.source)
      BY <1>1, <2>1
    <3> QED
      BY <1>10, <1>12, <2>1, <2>3, <3>1
  <2>4. ASSUME Move(e, "creating", NoKey) PROVE FitSound'
    BY <1>10, <1>11, <2>1, <2>4
  <2>5. CASE GiveUp(e)
    BY <1>2, <1>9, <2>1, <2>5
  <2> QED
    BY <1>14, <2>2, <2>3, <2>4, <2>5 DEF Find
<1>15. ASSUME NEW s \in Sources, NEW m \in DOMAIN keys', keys'[m] = Managed(s), UNCHANGED <<strayed, routes>>,
              \A k \in DOMAIN keys' : k # m => k \in DOMAIN keys /\ keys'[k] = keys[k],
              \A k \in DOMAIN keys : k \in DOMAIN keys' /\ (~strayed => keys'[k].group = keys[k].group),
              NEW e \in Ensurers, \A f \in Ensurers : f # e => tasks'[f] = tasks[f],
              ~strayed => TaskFits(e)'
       PROVE  FitSound'
  <2>1. NamesFit'
    BY <1>1, <1>15, MadeTyped
  <2>2. \A k, x : Exists(k) /\ ~strayed /\ Fits(k, x) => Fits(k, x)'
    BY <1>15 DEF Fits, Exists
  <2>3. ~strayed => RowsFit'
    BY <1>1, <1>15, <2>2 DEF KeysExist
  <2>4. ASSUME ~strayed, NEW f \in Ensurers PROVE TaskFits(f)'
    <3>1. CASE f = e
      BY <1>15, <2>4, <3>1
    <3>2. CASE f # e
      <4>1. /\ tasks'[f] = tasks[f] /\ TaskFits(f) /\ Exists(tasks[f].row.key)
            /\ tasks[f].pc \in {"updating", "revealing", "binding"} => Exists(tasks[f].key)
        BY <1>1, <1>15, <2>4, <3>2 DEF KeysExist, Exists
      <4> QED
        BY <2>2, <2>4, <4>1
    <3> QED
      BY <3>1, <3>2
  <2> QED
    BY <1>15, <2>1, <2>3, <2>4 DEF FitSound
<1>16. ASSUME NEW e \in Ensurers, Update(e) PROVE FitSound'
  <2> DEFINE s == tasks[e].row.source
             m == tasks[e].key
  <2>1. /\ tasks[e].pc = "updating" /\ s \in Sources /\ m \in DOMAIN keys /\ m \in Nat
        /\ Managed(s).group = s
    BY <1>11, <1>12, <1>16, MadeTyped DEF Update, Task, KeysExist
  <2>2. UNCHANGED <<strayed, routes>>
    BY <1>16, EnsureFrame
  <2>3. CASE GiveUp(e) /\ UNCHANGED keys
    BY <1>2, <1>9, <2>2, <2>3
  <2>4. CASE keys' = [keys EXCEPT ![m] = Managed(s)] /\ Move(e, "revealing", m)
    <3>1. /\ DOMAIN keys' = DOMAIN keys /\ keys'[m] = Managed(s)
          /\ \A k \in DOMAIN keys' : k # m => k \in DOMAIN keys /\ keys'[k] = keys[k]
      BY <1>0, <2>1, <2>4
    <3>2. /\ tasks'[e].pc = "revealing" /\ tasks'[e].row = tasks[e].row /\ tasks'[e].key = m
          /\ \A f \in Ensurers : f # e => tasks'[f] = tasks[f]
      BY <2>1, <2>4, MoveTyped
    <3>3. ~strayed => m # NoKey /\ keys[m].group = s
      BY <1>0, <1>1, <2>1 DEF Fits, NoKey
    <3>4. \A k \in DOMAIN keys : k \in DOMAIN keys' /\ (~strayed => keys'[k].group = keys[k].group)
      BY <2>1, <3>1, <3>3
    <3>5. ASSUME ~strayed PROVE TaskFits(e)'
      <4>1. Fits(tasks[e].row.key, s) /\ Exists(tasks[e].row.key)
        BY <1>1, <2>1, <3>5 DEF KeysExist
      <4>2. Fits(tasks[e].row.key, s)'
        BY <3>2, <3>4, <3>5, <4>1 DEF Fits, Exists
      <4>3. Fits(m, s)'
        BY <2>1, <3>1, <3>2 DEF Fits
      <4> QED
        BY <3>2, <4>2, <4>3
    <3> QED
      BY <1>15, <2>1, <2>2, <3>1, <3>2, <3>4, <3>5
  <2> QED
    BY <1>16, <2>3, <2>4 DEF Update
<1>17. ASSUME NEW e \in Ensurers, Create(e) PROVE FitSound'
  <2> DEFINE s == tasks[e].row.source
             made == Append(keys, Managed(s))
             n == Len(keys) + 1
  <2>1. tasks[e].pc = "creating" /\ s \in Sources /\ UNCHANGED <<strayed, routes>>
    BY <1>12, <1>17, EnsureFrame DEF Create, Task
  <2>2. /\ Len(made) = n /\ n \in Nat /\ DOMAIN keys = 1..Len(keys)
        /\ DOMAIN made = 1..n /\ made[n] = Managed(s) /\ Managed(s).group = s
        /\ \A k \in DOMAIN keys : k \in DOMAIN made /\ made[k] = keys[k]
        /\ \A k \in DOMAIN made : k # n => k \in DOMAIN keys
    BY <2>1, MadeTyped
  <2>3. \/ keys' = made /\ Move(e, "revealing", Len(made))
        \/ GiveUp(e) /\ keys' \in {keys, made}
    BY <1>17 DEF Create
  <2>4. n \in DOMAIN made
    BY <2>2
  <2> HIDE DEF made, n
  <2>5. CASE GiveUp(e) /\ keys' = keys
    BY <1>2, <1>9, <2>1, <2>5
  <2>6. CASE GiveUp(e) /\ keys' = made
    <3>1. TaskFits(e)' /\ \A f \in Ensurers : f # e => tasks'[f] = tasks[f]
      BY <1>9, <2>6
    <3> QED
      BY <1>15, <2>1, <2>2, <2>4, <2>6, <3>1
  <2>7. CASE keys' = made /\ Move(e, "revealing", n)
    <3>1. /\ tasks'[e].pc = "revealing" /\ tasks'[e].row = tasks[e].row /\ tasks'[e].key = n
          /\ \A f \in Ensurers : f # e => tasks'[f] = tasks[f]
      BY <2>2, <2>7, MoveTyped
    <3>2. ASSUME ~strayed PROVE TaskFits(e)'
      <4>1. Fits(tasks[e].row.key, s) /\ Exists(tasks[e].row.key)
        BY <1>1, <2>1, <3>2 DEF KeysExist
      <4>2. Fits(tasks[e].row.key, s)'
        BY <2>2, <2>7, <3>1, <4>1 DEF Fits, Exists
      <4>3. keys'[tasks'[e].key].group = tasks'[e].row.source
        BY <2>2, <2>7, <3>1
      <4> QED
        BY <3>1, <4>2, <4>3 DEF Fits
    <3> QED
      BY <1>15, <2>1, <2>2, <2>4, <2>7, <3>1, <3>2
  <2> QED
    BY <2>2, <2>3, <2>5, <2>6, <2>7
<1>18. ASSUME NEW e \in Ensurers, Reveal(e) PROVE FitSound'
  <2>1. UNCHANGED <<keys, strayed, routes>> /\ tasks[e].pc = "revealing"
    BY <1>18, EnsureFrame DEF Reveal, Task
  <2>2. ~strayed => Fits(tasks[e].key, tasks[e].row.source)
    BY <1>1, <2>1
  <2> QED
    BY <1>2, <1>9, <1>10, <1>12, <1>18, <2>1, <2>2 DEF Reveal
<1>19. ASSUME NEW e \in Ensurers, Bind(e) PROVE FitSound'
  <2>1. /\ tasks[e].pc = "binding" /\ UNCHANGED keys
        /\ strayed' = (strayed \/ \E r \in Rows(routes) : r.id = tasks[e].row.id /\ r.source # tasks[e].row.source)
    BY <1>19 DEF Bind, Task
  <2>2. TaskFits(e)' /\ \A f \in Ensurers : f # e => tasks'[f] = tasks[f]
    BY <1>9, <1>19 DEF Bind
  <2>3. ASSUME ~strayed' PROVE RowsFit' /\ \A f \in Ensurers : TaskFits(f)'
    <3>1. ~strayed /\ \A p \in DOMAIN routes : routes[p].id = tasks[e].row.id => routes[p].source = tasks[e].row.source
      BY <2>1, <2>3 DEF Rows
    <3>2. Fits(tasks[e].key, tasks[e].row.source)
      BY <1>1, <2>1, <3>1
    <3>3. RowsFit'
      <4> SUFFICES ASSUME NEW p \in DOMAIN routes' PROVE Fits(routes[p].key, routes[p].source)'
        OBVIOUS
      <4>1. /\ p \in DOMAIN routes /\ routes'[p].source = routes[p].source
            /\ routes[p].id # tasks[e].row.id => routes'[p].key = routes[p].key
            /\ routes[p].id = tasks[e].row.id => routes'[p].key = tasks[e].key
        BY <1>19, BindSound
      <4>2. Fits(routes[p].key, routes[p].source)
        BY <1>1, <3>1, <4>1
      <4> QED
        BY <2>1, <3>1, <3>2, <4>1, <4>2 DEF Fits
    <3>4. ASSUME NEW f \in Ensurers PROVE TaskFits(f)'
      <4>1. CASE f = e
        BY <2>2, <4>1
      <4>2. CASE f # e
        <5>1. tasks'[f] = tasks[f] /\ TaskFits(f)
          BY <1>1, <2>2, <3>1, <4>2
        <5> QED
          BY <2>1, <5>1 DEF Fits
      <4> QED
        BY <4>1, <4>2
    <3> QED
      BY <3>3, <3>4
  <2>4. NamesFit'
    BY <1>1, <2>1
  <2> QED
    BY <2>3, <2>4 DEF FitSound
<1> QED
  BY <1>4, <1>5, <1>6, <1>7, <1>8, <1>13, <1>14, <1>16, <1>17, <1>18, <1>19, AdminSteps

-----------------------------------------------------------------------------
(* RouteAdmin: the theorems. *)

\* The inductive invariant of RouteAdmin.
AdminInv == AdminTyped /\ KeysExist /\ IdsSound /\ NamesSound /\ FitSound

\* The initial state satisfies the invariant.
LEMMA AdminInitSound == AdminInit => AdminInv
<1> SUFFICES ASSUME AdminInit PROVE AdminInv
  OBVIOUS
<1>1. PICK s \in Sources, t \in Sources, legacy \in BOOLEAN :
        /\ routes = << [Row(1, s) EXCEPT !.key = IF legacy THEN 1 ELSE NoKey], Row(2, t) >>
        /\ keys = IF legacy THEN << [name |-> Legacy, group |-> s] >> ELSE << >>
  BY DEF AdminInit
<1>2. /\ DOMAIN routes = 1..2 /\ routes[1].id = 1 /\ routes[2].id = 2 /\ routes[1].source = s
      /\ routes[2].key = NoKey /\ routes[1].key = IF legacy THEN 1 ELSE NoKey
  BY <1>1 DEF Row
<1>3. /\ legacy => DOMAIN keys = {1} /\ keys[1].name = Legacy /\ keys[1].group = s
      /\ ~legacy => DOMAIN keys = {}
  BY <1>1
<1>4. \A e \in Ensurers : tasks[e].pc = "idle" /\ tasks[e].row.key = NoKey
  BY IdleTyped DEF AdminInit
<1>5. \A a \in Admins : jobs[a].pc = "idle"
  BY IdleJobTyped DEF AdminInit
<1>6. KeysExist
  BY <1>2, <1>3, <1>4 DEF KeysExist, Exists, NoKey
<1>7. IdsSound
  BY <1>2, <1>5 DEF IdsSound, AdminInit
<1>8. NamesSound
  BY <1>3, <1>4 DEF NamesSound, Working
<1>9. FitSound
  BY <1>2, <1>3, <1>4, PricesSound DEF FitSound, Fits, NoKey
<1> QED
  BY <1>6, <1>7, <1>8, <1>9, AdminInitTyped DEF AdminInv

\* The invariant is one of the administration (admin_routes.go, rate_limit.go).
THEOREM AdminInvariant == AdminSpec => []AdminInv
<1>1. AdminInv /\ [AdminNext]_adminVars => AdminInv'
  BY AdminStepTyped, KeysExistStep, IdsStep, NamesStep, FitStep DEF AdminInv
<1> QED
  BY <1>1, AdminInitSound, PTL DEF AdminSpec

\* A route's key is one of its own source, whatever the operator, the scan and
\* the sweeps do to the rows meanwhile, until a key is bound to a row whose
\* source has changed (SaveForGroup, ensureRouteKeyResult, UpdateSourceKey).
THEOREM CredentialsFit == AdminSpec => []CredentialFits
<1>1. AdminInv => CredentialFits
  BY DEF AdminInv, FitSound, Fits, CredentialFits, Rows
<1> QED
  BY <1>1, AdminInvariant, PTL

\* The upstream has at most one key of a source's stable name: the lock per
\* name, and a creation that looks its key up before (lockEnsureUpstreamKey).
THEOREM ManagedKeyIsOne == AdminSpec => []OneManagedKey
<1>1. AdminInv => OneManagedKey
  <2> SUFFICES ASSUME AdminInv, NEW s \in Sources PROVE Cardinality(Named(s)) <= 1
    BY DEF OneManagedKey
  <2>1. \A k, m \in Named(s) : k = m
    BY PricesSound DEF AdminInv, NamesSound, Named
  <2>2. CASE Named(s) = {}
    BY <2>2, FS_EmptySet
  <2>3. ASSUME NEW k \in Named(s) PROVE Cardinality(Named(s)) <= 1
    <3>1. Named(s) = {k}
      BY <2>1
    <3>2. Cardinality({k}) = 1
      BY FS_Singleton
    <3> QED
      BY <3>1, <3>2
  <2> QED
    BY <2>2, <2>3
<1> QED
  BY <1>1, AdminInvariant, PTL

\* The transaction keeps the key and the flag of every row that keeps its
\* source, whatever the list it was given says of them (SaveForGroup).
LEMMA SaveKeeps ==
  ASSUME AdminInv, NEW a \in Admins, Save(a), NEW r \in Rows(routes), NEW u \in Rows(routes'),
         r.id = u.id, r.source = u.source
  PROVE  r.key = u.key /\ r.over = u.over
<1>1. /\ AdminTyped /\ IdsSound /\ routes \in Seq(RouteRow) /\ jobs[a].list \in Seq(RouteRow) /\ nextId \in Nat
  BY DEF AdminInv, AdminTyped, Job
<1>2. \A x, y \in Rows(routes) : x.id = y.id => x = y
  BY <1>1 DEF IdsSound, Rows
<1>3. CASE UNCHANGED rows
  BY <1>2, <1>3 DEF rows
<1>4. CASE SaveForGroup(jobs[a].list)
  <2> DEFINE rs == jobs[a].list
  <2>1. PICK p \in DOMAIN routes' : u = routes'[p]
    BY DEF Rows
  <2> DEFINE item == rs[p]
  <2>2. /\ p \in DOMAIN rs /\ u.source = item.source
        /\ u.key = Kept(item).key /\ u.over = Kept(item).over
        /\ item.id \in IdsOf(routes) => u.id = item.id
        /\ item.id \notin IdsOf(routes) => nextId <= u.id
    BY <1>1, <1>4, <2>1, SaveSound
  <2>3. item \in RouteRow
    BY <1>1, <2>2
  <2> HIDE DEF item, rs
  <2>4. r.id < nextId /\ r.id \in Nat
    <3>1. PICK i \in DOMAIN routes : r = routes[i]
      BY DEF Rows
    <3>2. routes[i] \in RouteRow
      BY <1>1
    <3> QED
      BY <1>1, <3>1, <3>2 DEF IdsSound, RouteRow
  <2>5. item.id \in IdsOf(routes)
    BY <1>1, <2>2, <2>4
  <2>6. RowWith(routes, item.id) = r
    <3>1. RowWith(routes, item.id) \in Rows(routes) /\ RowWith(routes, item.id).id = item.id
      BY <2>5, RowFound DEF Rows
    <3> QED
      BY <1>2, <2>2, <2>5, <3>1
  <2>7. Continues(item)
    BY <2>2, <2>5, <2>6 DEF Continues
  <2> QED
    BY <1>1, <2>2, <2>3, <2>6, <2>7, KeptSound
<1> QED
  BY <1>3, <1>4 DEF Save

\* A save that was prepared from old rows takes nothing from the rows as they
\* are: neither a key that was bound meanwhile nor the limit's verdict
\* (SaveRoutes, reorderRoutesPersisted, SaveForGroup).
THEOREM SavesKeepWhatIs == AdminSpec => NothingOldReturns
<1>1. AdminInv /\ [AdminNext]_adminVars
      => [\A a \in Admins : jobs[a].pc = "saving" =>
            \A r \in Rows(routes), t \in Rows(routes') :
              jobs'[a] # jobs[a] /\ r.id = t.id /\ r.source = t.source
                => r.key = t.key /\ r.over = t.over]_adminVars
  <2> SUFFICES ASSUME AdminInv, AdminNext, NEW a \in Admins, jobs[a].pc = "saving", jobs'[a] # jobs[a],
                      NEW r \in Rows(routes), NEW u \in Rows(routes'), r.id = u.id, r.source = u.source
               PROVE  r.key = u.key /\ r.over = u.over
    OBVIOUS
  <2>0. AdminTyped /\ jobs \in [Admins -> Job] /\ \A x, y \in Rows(routes) : x.id = y.id => x = y
    BY DEF AdminInv, AdminTyped, IdsSound, Rows
  <2>1. CASE UNCHANGED routes
    BY <2>0, <2>1
  <2>2. CASE Save(a)
    BY <2>2, SaveKeeps
  <2>3. ASSUME NEW b \in Admins, b # a, Save(b) \/ Flag(b) PROVE FALSE
    BY <2>0, <2>3 DEF Save, Flag, GoOn
  <2>4. ASSUME Flag(a) PROVE FALSE
    BY <2>4 DEF Flag, At
  <2>5. ASSUME NEW e \in Ensurers, Bind(e) PROVE FALSE
    BY <2>5 DEF Bind
  <2>6. UNCHANGED routes \/ \E b \in Admins : Save(b) \/ Flag(b) \/ \E e \in Ensurers : Bind(e)
    <3>1. ASSUME NEW e \in Ensurers,
                 StartEnsure(e) \/ Lock(e) \/ Find(e) \/ Update(e) \/ Create(e) \/ Reveal(e)
          PROVE  UNCHANGED routes
      BY <2>0, <3>1, EnsureFrame DEF StartEnsure, rows
    <3>2. QuietStep \/ Restart \/ UNCHANGED adminVars => UNCHANGED routes
      BY QuietIsQuiet DEF Restart, rows, adminVars
    <3> QED
      BY <3>1, <3>2, AdminSteps DEF Admins
  <2> QED
    BY <2>1, <2>2, <2>3, <2>4, <2>5, <2>6
<1> QED
  BY <1>1, AdminInvariant, PTL DEF AdminSpec, NothingOldReturns

-----------------------------------------------------------------------------
(***************************************************************************)
(* ReadCache: reads are fresh, queries for one key in one epoch do not     *)
(* overlap, and nobody waits for a call that is gone.                      *)
(*                                                                         *)
(* ReadsAreFresh is not inductive.  The invariant adds what the code       *)
(* relies on: a call whose epochs are still the present ones is the        *)
(* registered one and nothing was invalidated since it began, so that its  *)
(* result covers all that is settled; epochs only grow, so that a call     *)
(* they have left behind is never taken for a present one again.           *)
(***************************************************************************)
\* The goroutine runs a query of its own.
Calling(r) == readers[r].pc \in {"loading", "loaded"}

\* A call began in the past; if no epoch moved since, it is the registered one
\* and what was settled then is what is settled now.
CallSound(r) ==
  Calling(r) =>
    LET k == readers[r].key
    IN  /\ readers[r].epochs[1] <= clearEpoch /\ readers[r].epochs[2] <= keyEpochs[k]
        /\ readers[r].epochs = Epochs(k) => readers[r].since = settled[k] /\ inFlight[k] = r
        /\ readers[r].since <= settled[k]

\* What the query read covers what was settled when the call began.
LoadSound(r) ==
  readers[r].pc \in {"loaded", "done"} /\ readers[r].value # Failed =>
    readers[r].value >= readers[r].since

\* Who joined waits for a call that runs, of the same key, epochs and age.
JoinSound(r) ==
  readers[r].pc = "joined" =>
    LET s == readers[r].on
    IN  /\ s \in Readers /\ Calling(s)
        /\ readers[s].key = readers[r].key
        /\ readers[s].epochs = readers[r].epochs
        /\ readers[s].since = readers[r].since

KeySound(k) ==
  /\ settled[k] <= db[k]
  /\ items[k] # Nothing => items[k] >= settled[k]
  /\ inFlight[k] # Nobody => Calling(inFlight[k]) /\ readers[inFlight[k]].key = k

CallsSound == \A r \in Readers : CallSound(r)
LoadsSound == \A r \in Readers : LoadSound(r)
JoinsSound == \A r \in Readers : JoinSound(r)
KeysSound == \A k \in Keys : KeySound(k)

IInv == TypeOK /\ CallsSound /\ LoadsSound /\ JoinsSound /\ KeysSound /\ SingleFlight

USE BoundsSound, NobodyIsNoReader DEF Nothing, Failed

\* The types are right at first, and every step keeps them.
LEMMA InitTyped == Init => TypeOK
  BY DEF Init, TypeOK, Reader, Away

\* Every step keeps the types.
LEMMA StepTyped == TypeOK /\ [Next]_vars => TypeOK'
<1> SUFFICES ASSUME TypeOK, [Next]_vars PROVE TypeOK'
    OBVIOUS
<1> USE DEF TypeOK, Reader, cacheVars, worldVars
<1>1. ASSUME NEW r \in Readers, NEW k \in Keys, Begin(r, k) PROVE TypeOK'
  <2>1. items[k] \in Nat \cup {Nothing} /\ Epochs(k) \in Nat \X Nat
        BY DEF Epochs
  <2> QED
      BY <1>1, <2>1 DEF Begin, Arrive
<1>2. ASSUME NEW r \in Readers, Load(r) PROVE TypeOK'
  <2>1. PICK v \in {db[readers[r].key], Failed} :
              readers' = [readers EXCEPT ![r].pc = "loaded", ![r].value = v]
        BY <1>2 DEF Load
  <2>2. v \in {Failed, Nothing} \cup Nat /\ readers[r] \in Reader
        OBVIOUS
  <2>3. [readers[r] EXCEPT !.pc = "loaded", !.value = v] \in Reader
        BY <2>2
  <2>4. readers' = [readers EXCEPT ![r] = [readers[r] EXCEPT !.pc = "loaded", !.value = v]]
        BY <2>1
  <2> QED
      BY <1>2, <2>3, <2>4 DEF Load
<1>3. ASSUME NEW r \in Readers, Finish(r) PROVE TypeOK'
  <2>1. ASSUME NEW s \in Readers
        PROVE  [readers[s] EXCEPT !.pc = "done", !.on = Nobody, !.value = readers[r].value] \in Reader
    <3>1. readers[s] \in Reader /\ readers[r] \in Reader
          OBVIOUS
    <3>2. readers[r].value \in {Failed, Nothing} \cup Nat
          BY <3>1
    <3> QED
        BY <3>1, <3>2
  <2>2. readers' \in [Readers -> Reader]
        BY <1>3, <2>1 DEF Finish
  <2>3. items' \in [Keys -> {Nothing} \cup (Nat \ Uncacheable)]
        BY <1>3 DEF Finish, MayStore
  <2> QED
      BY <1>3, <2>2, <2>3 DEF Finish, Unregister
<1>4. ASSUME NEW r \in Readers, Return(r) PROVE TypeOK'
      BY <1>4 DEF Return, Away
<1>5. ASSUME NEW k \in Keys, Write(k) PROVE TypeOK'
      BY <1>5 DEF Write
<1>6. ASSUME NEW k \in Keys, Invalidate(k) PROVE TypeOK'
      BY <1>6 DEF Invalidate, Settle
<1>7. ASSUME NEW ks \in SUBSET Keys \ {{}}, InvalidateWhere(ks) PROVE TypeOK'
      BY <1>7 DEF InvalidateWhere, Settle
<1>8. CASE UNCHANGED vars
      BY <1>8 DEF vars
<1> QED
    BY <1>1, <1>2, <1>3, <1>4, <1>5, <1>6, <1>7, <1>8 DEF Next

\* The invariant holds initially.
LEMMA InitSound == Init => IInv
<1> SUFFICES ASSUME Init PROVE IInv
    OBVIOUS
<1>1. TypeOK
      BY InitTyped
<1>2. \A r \in Readers : readers[r].pc = "idle"
      BY DEF Init, Away
<1>3. CallsSound /\ LoadsSound /\ JoinsSound
      BY <1>2 DEF CallsSound, CallSound, LoadsSound, LoadSound, JoinsSound, JoinSound, Calling
<1>4. KeysSound
      BY DEF Init, KeysSound, KeySound
<1>5. SingleFlight
      BY <1>2 DEF SingleFlight, Calls
<1> QED
    BY <1>1, <1>3, <1>4, <1>5 DEF IInv

\* A goroutine arrives: it hits, joins a call of the present epochs, or starts
\* the only call of the present epochs.
LEMMA BeginSound ==
  ASSUME IInv, TypeOK', NEW r \in Readers, NEW k \in Keys, Begin(r, k)
  PROVE  IInv'
<1> USE DEF TypeOK, Reader
<1>0. /\ UNCHANGED <<db, settled, clearEpoch, keyEpochs>>
      /\ readers[r].pc = "idle"
      /\ Epochs(k)' = Epochs(k) /\ \A j \in Keys : Epochs(j)' = Epochs(j)
      BY DEF Begin, worldVars, Epochs
<1>1. CASE items[k] # Nothing /\ Arrive(r, k, "done", Nobody, items[k]) /\ UNCHANGED <<items, inFlight>>
  <2>1. readers'[r].pc = "done" /\ readers'[r].value = items[k] /\ readers'[r].since = settled[k]
        /\ \A s \in Readers \ {r} : readers'[s] = readers[s]
        BY <1>1 DEF IInv, Arrive
  <2>2. CallsSound'
        BY <2>1, <1>0, <1>1 DEF IInv, CallsSound, CallSound, Calling
  <2>3. LoadsSound'
        BY <2>1, <1>1 DEF IInv, LoadsSound, LoadSound, KeysSound, KeySound
  <2>4. JoinsSound'
        BY <2>1, <1>0 DEF IInv, JoinsSound, JoinSound, Calling
  <2>5. KeysSound'
        BY <2>1, <1>0, <1>1 DEF IInv, KeysSound, KeySound, Calling
  <2>6. SingleFlight'
        BY <2>1, <1>0 DEF IInv, SingleFlight, Calls
  <2> QED
      BY <2>2, <2>3, <2>4, <2>5, <2>6 DEF IInv
<1>2. CASE /\ items' = [items EXCEPT ![k] = Nothing]
           /\ Joinable(k) /\ Arrive(r, k, "joined", inFlight[k], Nothing) /\ UNCHANGED inFlight
  <2>1. /\ readers'[r].pc = "joined" /\ readers'[r].since = settled[k] /\ readers'[r].key = k
        /\ readers'[r].epochs = Epochs(k) /\ readers'[r].on = inFlight[k]
        /\ \A s \in Readers \ {r} : readers'[s] = readers[s]
        BY <1>2 DEF IInv, Arrive
  <2>2. CallsSound'
        BY <2>1, <1>0, <1>2 DEF IInv, CallsSound, CallSound, Calling
  <2>3. LoadsSound'
        BY <2>1, <1>0 DEF IInv, LoadsSound, LoadSound
  <2>4. /\ inFlight[k] \in Readers /\ Calling(inFlight[k])
        /\ readers[inFlight[k]].key = k /\ readers[inFlight[k]].epochs = Epochs(k)
        /\ inFlight[k] # r
        BY <1>2, <1>0 DEF Joinable, IInv, KeysSound, KeySound, Calling
  <2>5. readers[inFlight[k]].since = settled[k]
        BY <2>4 DEF IInv, CallsSound, CallSound
  <2>6. JoinsSound'
        BY <2>1, <2>4, <2>5, <1>0 DEF IInv, JoinsSound, JoinSound, Calling
  <2>7. KeysSound'
        BY <2>1, <1>0, <1>2 DEF IInv, KeysSound, KeySound, Calling
  <2>8. SingleFlight'
        BY <2>1, <1>0 DEF IInv, SingleFlight, Calls
  <2> QED
      BY <2>2, <2>3, <2>6, <2>7, <2>8 DEF IInv
<1>3. CASE /\ items' = [items EXCEPT ![k] = Nothing] /\ ~Joinable(k)
           /\ Arrive(r, k, "loading", Nobody, Nothing) /\ inFlight' = [inFlight EXCEPT ![k] = r]
  <2>1. /\ readers'[r].pc = "loading" /\ readers'[r].since = settled[k] /\ readers'[r].key = k
        /\ readers'[r].epochs = <<clearEpoch, keyEpochs[k]>>
        /\ \A s \in Readers \ {r} : readers'[s] = readers[s]
        BY <1>3 DEF IInv, Arrive, Epochs
  <2>2. ASSUME NEW s \in Readers, Calling(s), readers[s].key = k
        PROVE  readers[s].epochs # Epochs(k)
        BY <2>2, <1>3 DEF IInv, CallsSound, CallSound, Joinable
  <2>3. CallsSound'
    <3> SUFFICES ASSUME NEW s \in Readers PROVE CallSound(s)'
        BY DEF CallsSound
    <3>1. CASE s = r
          BY <3>1, <2>1, <1>0, <1>3 DEF IInv, CallSound, Epochs
    <3>2. CASE s # r
          BY <3>2, <2>1, <2>2, <1>0, <1>3 DEF IInv, CallsSound, CallSound, Calling
    <3> QED
        BY <3>1, <3>2
  <2>4. LoadsSound'
        BY <2>1, <1>0 DEF IInv, LoadsSound, LoadSound
  <2>5. JoinsSound'
        BY <2>1, <1>0 DEF IInv, JoinsSound, JoinSound, Calling
  <2>6. KeysSound'
        BY <2>1, <1>0, <1>3 DEF IInv, KeysSound, KeySound, Calling
  <2>7. SingleFlight'
    <3> SUFFICES ASSUME NEW j \in Keys, NEW s \in Calls(j)', NEW t \in Calls(j)', s # t
                 PROVE  readers'[s].epochs # readers'[t].epochs
        BY DEF SingleFlight
    <3>1. CASE s = r
          BY <3>1, <2>1, <2>2, <1>0 DEF Calls, Calling, Epochs
    <3>2. CASE t = r
          BY <3>2, <2>1, <2>2, <1>0 DEF Calls, Calling, Epochs
    <3>3. CASE s # r /\ t # r
          BY <3>3, <2>1 DEF IInv, SingleFlight, Calls
    <3> QED
        BY <3>1, <3>2, <3>3
  <2> QED
      BY <2>3, <2>4, <2>5, <2>6, <2>7 DEF IInv
<1> QED
    BY <1>1, <1>2, <1>3 DEF Begin

\* A load that starts, is joined or stores its answer keeps the invariant.
LEMMA LoadStepSound ==
  ASSUME IInv, TypeOK', NEW r \in Readers, Load(r)
  PROVE  IInv'
<1> USE DEF TypeOK, Reader
<1>1. /\ UNCHANGED <<db, settled, clearEpoch, keyEpochs, items, inFlight>>
      /\ readers[r].pc = "loading" /\ readers'[r].pc = "loaded"
      /\ readers'[r].value \in {db[readers[r].key], Failed}
      /\ readers'[r].key = readers[r].key /\ readers'[r].epochs = readers[r].epochs
      /\ readers'[r].since = readers[r].since
      /\ \A s \in Readers \ {r} : readers'[s] = readers[s]
      BY DEF IInv, Load, worldVars, cacheVars
<1>2. CallsSound'
      BY <1>1 DEF IInv, CallsSound, CallSound, Calling, Epochs
<1>3. LoadsSound'
  <2>1. readers[r].since <= db[readers[r].key]
        BY <1>1 DEF IInv, CallsSound, CallSound, Calling, KeysSound, KeySound
  <2> QED
      BY <1>1, <2>1 DEF IInv, LoadsSound, LoadSound
<1>4. JoinsSound'
      BY <1>1 DEF IInv, JoinsSound, JoinSound, Calling
<1>5. KeysSound'
      BY <1>1 DEF IInv, KeysSound, KeySound, Calling
<1>6. SingleFlight'
      BY <1>1 DEF IInv, SingleFlight, Calls
<1> QED
    BY <1>2, <1>3, <1>4, <1>5, <1>6 DEF IInv

\* The end of a call answers everybody that waits for it, and stores only what
\* covers all that is settled.
LEMMA FinishSound ==
  ASSUME IInv, TypeOK', NEW r \in Readers, Finish(r)
  PROVE  IInv'
<1> USE DEF TypeOK, Reader
<1>1. /\ UNCHANGED <<db, settled, clearEpoch, keyEpochs>>
      /\ readers[r].pc = "loaded"
      /\ inFlight' = [j \in Keys |-> IF inFlight[j] = r THEN Nobody ELSE inFlight[j]]
      /\ items' = IF MayStore(r) THEN [items EXCEPT ![readers[r].key] = readers[r].value] ELSE items
      BY DEF Finish, worldVars, Unregister
<1>2. ASSUME NEW s \in Readers, Answered(s, r)
      PROVE  /\ readers'[s].pc = "done" /\ readers'[s].value = readers[r].value
             /\ readers'[s].since = readers[s].since
  <2>1. readers'[s] = [readers[s] EXCEPT !.pc = "done", !.on = Nobody, !.value = readers[r].value]
        BY <1>2 DEF Finish
  <2>2. readers[s] \in Reader
        BY DEF IInv
  <2> QED
      BY <2>1, <2>2
<1>3. ASSUME NEW s \in Readers, ~Answered(s, r)
      PROVE  readers'[s] = readers[s]
      BY <1>3 DEF Finish
<1>4. ASSUME NEW s \in Readers, Calling(s)'
      PROVE  s # r /\ ~Answered(s, r) /\ Calling(s) /\ readers'[s] = readers[s]
      BY <1>2, <1>3, <1>4 DEF Calling, Answered
<1>5. CallsSound'
      BY <1>1, <1>4 DEF IInv, CallsSound, CallSound, Epochs
<1>6. LoadsSound'
  <2> SUFFICES ASSUME NEW s \in Readers PROVE LoadSound(s)'
      BY DEF LoadsSound
  <2>1. CASE Answered(s, r)
    <3>1. readers[s].since = readers[r].since
          BY <2>1 DEF Answered, IInv, JoinsSound, JoinSound
    <3> QED
        BY <3>1, <2>1, <1>1, <1>2 DEF IInv, LoadsSound, LoadSound
  <2>2. CASE ~Answered(s, r)
        BY <2>2, <1>3 DEF IInv, LoadsSound, LoadSound
  <2> QED
      BY <2>1, <2>2
<1>7. JoinsSound'
  <2> SUFFICES ASSUME NEW s \in Readers, readers'[s].pc = "joined" PROVE JoinSound(s)'
      BY DEF JoinsSound, JoinSound
  <2>1. ~Answered(s, r) /\ readers'[s] = readers[s]
        BY <1>2, <1>3
  <2>2. readers[s].on \in Readers /\ Calling(readers[s].on) /\ readers[s].on # r
        BY <2>1 DEF IInv, JoinsSound, JoinSound, Answered
  <2>3. readers'[readers[s].on] = readers[readers[s].on]
        BY <2>2, <1>3 DEF Answered, Calling
  <2> QED
      BY <2>1, <2>2, <2>3 DEF IInv, JoinsSound, JoinSound, Calling
<1>8. KeysSound'
  <2> SUFFICES ASSUME NEW k \in Keys PROVE KeySound(k)'
      BY DEF KeysSound
  <2>1. items'[k] # Nothing => items'[k] >= settled[k]
    <3>1. CASE MayStore(r) /\ k = readers[r].key
      <4>1. readers[r].since = settled[k]
            BY <3>1, <1>1 DEF IInv, CallsSound, CallSound, Calling, MayStore
      <4> QED
          BY <4>1, <3>1, <1>1 DEF IInv, LoadsSound, LoadSound, MayStore
    <3>2. CASE ~(MayStore(r) /\ k = readers[r].key)
          BY <3>2, <1>1 DEF IInv, KeysSound, KeySound
    <3> QED
        BY <3>1, <3>2
  <2>2. inFlight'[k] # Nobody =>
         readers'[inFlight'[k]].pc \in {"loading", "loaded"} /\ readers'[inFlight'[k]].key = k
    <3> SUFFICES ASSUME inFlight'[k] # Nobody
                 PROVE  /\ readers'[inFlight'[k]].pc \in {"loading", "loaded"}
                        /\ readers'[inFlight'[k]].key = k
        OBVIOUS
    <3>1. inFlight'[k] = inFlight[k] /\ inFlight[k] \in Readers /\ inFlight[k] # r
          BY <1>1 DEF IInv
    <3>2. Calling(inFlight[k]) /\ readers[inFlight[k]].key = k
          BY <3>1 DEF IInv, KeysSound, KeySound
    <3>3. readers'[inFlight[k]] = readers[inFlight[k]]
          BY <3>1, <3>2, <1>3 DEF Answered, Calling
    <3> QED
        BY <3>1, <3>2, <3>3 DEF Calling
  <2> QED
      BY <2>1, <2>2, <1>1 DEF IInv, KeysSound, KeySound, Calling
<1>9. SingleFlight'
      BY <1>4 DEF IInv, SingleFlight, Calls, Calling
<1> QED
    BY <1>5, <1>6, <1>7, <1>8, <1>9 DEF IInv

\* A read that returns keeps the invariant.
LEMMA ReturnSound ==
  ASSUME IInv, TypeOK', NEW r \in Readers, Return(r)
  PROVE  IInv'
<1> USE DEF TypeOK, Reader
<1>1. /\ UNCHANGED <<db, settled, clearEpoch, keyEpochs, items, inFlight>>
      /\ readers[r].pc = "done" /\ readers'[r].pc = "idle"
      /\ \A s \in Readers \ {r} : readers'[s] = readers[s]
      BY DEF IInv, Return, Away, worldVars, cacheVars
<1>2. CallsSound' /\ LoadsSound'
      BY <1>1 DEF IInv, CallsSound, CallSound, LoadsSound, LoadSound, Calling, Epochs
<1>3. JoinsSound' /\ KeysSound'
      BY <1>1 DEF IInv, JoinsSound, JoinSound, KeysSound, KeySound, Calling
<1>4. SingleFlight'
      BY <1>1 DEF IInv, SingleFlight, Calls
<1> QED
    BY <1>2, <1>3, <1>4 DEF IInv

\* A commit only makes rows newer than what is settled.
LEMMA WriteSound ==
  ASSUME IInv, TypeOK', NEW k \in Keys, Write(k)
  PROVE  IInv'
<1> USE DEF TypeOK, Reader
<1>1. /\ UNCHANGED <<settled, clearEpoch, keyEpochs, items, inFlight, readers>>
      /\ \A j \in Keys : db'[j] >= db[j]
      BY DEF IInv, Write, cacheVars
<1>2. CallsSound' /\ LoadsSound' /\ JoinsSound' /\ SingleFlight'
      BY <1>1 DEF IInv, CallsSound, CallSound, LoadsSound, LoadSound, JoinsSound, JoinSound,
                  SingleFlight, Calls, Calling, Epochs
<1>3. KeysSound'
      BY <1>1 DEF IInv, KeysSound, KeySound, Calling
<1> QED
    BY <1>2, <1>3 DEF IInv

\* Both invalidations: where the settled version may rise the snapshot goes and
\* no call is left in the present epochs.
LEMMA SettleSound ==
  ASSUME IInv, TypeOK', NEW ks \in SUBSET Keys,
         UNCHANGED <<db, inFlight, readers>>,
         settled' = [k \in Keys |-> IF k \in ks THEN db[k] ELSE settled[k]],
         items' = [k \in Keys |-> IF k \in ks THEN Nothing ELSE items[k]],
         clearEpoch' >= clearEpoch, \A k \in Keys : keyEpochs'[k] >= keyEpochs[k],
         \A k \in ks : clearEpoch' > clearEpoch \/ keyEpochs'[k] > keyEpochs[k]
  PROVE  IInv'
<1> USE DEF TypeOK, Reader
<1>1. \A k \in Keys : settled'[k] >= settled[k] /\ settled'[k] <= db[k]
      BY DEF IInv, KeysSound, KeySound
<1>2. CallsSound'
  <2> SUFFICES ASSUME NEW r \in Readers, Calling(r) PROVE CallSound(r)'
      BY DEF CallsSound, CallSound, Calling
  <2> DEFINE k == readers[r].key
  <2>1. /\ k \in Keys /\ readers[r].epochs[1] \in Nat /\ readers[r].epochs[2] \in Nat
        /\ readers[r].since \in Nat
        BY DEF IInv
  <2>2. /\ readers[r].epochs[1] <= clearEpoch /\ readers[r].epochs[2] <= keyEpochs[k]
        /\ readers[r].epochs = Epochs(k) => readers[r].since = settled[k] /\ inFlight[k] = r
        /\ readers[r].since <= settled[k]
        BY DEF IInv, CallsSound, CallSound
  <2>3. readers[r].epochs = Epochs(k)' => k \notin ks /\ readers[r].epochs = Epochs(k)
        BY <2>1, <2>2 DEF IInv, Epochs
  <2>4. /\ readers[r].epochs[1] <= clearEpoch' /\ readers[r].epochs[2] <= keyEpochs'[k]
        /\ readers[r].since <= settled'[k]
        BY <2>1, <2>2, <1>1 DEF IInv
  <2> QED
      BY <2>1, <2>2, <2>3, <2>4 DEF CallSound, Epochs
<1>3. LoadsSound' /\ JoinsSound' /\ SingleFlight'
      BY DEF IInv, LoadsSound, LoadSound, JoinsSound, JoinSound, SingleFlight, Calls, Calling
<1>4. KeysSound'
      BY <1>1 DEF IInv, KeysSound, KeySound, Calling
<1> QED
    BY <1>2, <1>3, <1>4 DEF IInv

\* Every step keeps the invariant.
LEMMA StepSound == IInv /\ [Next]_vars => IInv'
<1> SUFFICES ASSUME IInv, [Next]_vars PROVE IInv'
    OBVIOUS
<1>0. TypeOK'
      BY StepTyped DEF IInv
<1>1. ASSUME NEW r \in Readers, NEW k \in Keys, Begin(r, k) PROVE IInv'
      BY <1>0, <1>1, BeginSound
<1>2. ASSUME NEW r \in Readers, Load(r) PROVE IInv'
      BY <1>0, <1>2, LoadStepSound
<1>3. ASSUME NEW r \in Readers, Finish(r) PROVE IInv'
      BY <1>0, <1>3, FinishSound
<1>4. ASSUME NEW r \in Readers, Return(r) PROVE IInv'
      BY <1>0, <1>4, ReturnSound
<1>5. ASSUME NEW k \in Keys, Write(k) PROVE IInv'
      BY <1>0, <1>5, WriteSound
<1>6. ASSUME NEW k \in Keys, Invalidate(k) PROVE IInv'
  <2>1. /\ UNCHANGED <<db, inFlight, readers>> /\ {k} \in SUBSET Keys
        /\ settled' = [j \in Keys |-> IF j \in {k} THEN db[j] ELSE settled[j]]
        /\ items' = [j \in Keys |-> IF j \in {k} THEN Nothing ELSE items[j]]
        /\ clearEpoch' >= clearEpoch /\ \A j \in Keys : keyEpochs'[j] >= keyEpochs[j]
        /\ \A j \in {k} : clearEpoch' > clearEpoch \/ keyEpochs'[j] > keyEpochs[j]
    <3>1. /\ UNCHANGED <<db, inFlight, readers, clearEpoch>> /\ {k} \in SUBSET Keys
          /\ settled' = [j \in Keys |-> IF j \in {k} THEN db[j] ELSE settled[j]]
          BY <1>6 DEF Invalidate, Settle
    <3>2. items' = [j \in Keys |-> IF j \in {k} THEN Nothing ELSE items[j]]
          BY <1>6 DEF Invalidate, IInv, TypeOK
    <3>3. /\ \A j \in Keys : keyEpochs'[j] >= keyEpochs[j]
          /\ keyEpochs'[k] > keyEpochs[k] /\ clearEpoch \in Nat
          BY <1>6 DEF Invalidate, IInv, TypeOK
    <3> QED
        BY <3>1, <3>2, <3>3
  <2> QED
      BY <2>1, <1>0, SettleSound
<1>7. ASSUME NEW ks \in SUBSET Keys \ {{}}, InvalidateWhere(ks) PROVE IInv'
  <2>1. /\ UNCHANGED <<db, inFlight, readers>>
        /\ settled' = [j \in Keys |-> IF j \in ks THEN db[j] ELSE settled[j]]
        /\ items' = [j \in Keys |-> IF j \in ks THEN Nothing ELSE items[j]]
        /\ clearEpoch' >= clearEpoch /\ \A j \in Keys : keyEpochs'[j] >= keyEpochs[j]
        /\ \A j \in ks : clearEpoch' > clearEpoch \/ keyEpochs'[j] > keyEpochs[j]
        BY <1>7 DEF InvalidateWhere, Settle, IInv, TypeOK
  <2> QED
      BY <2>1, <1>0, SettleSound
<1>8. CASE UNCHANGED vars
  <2>1. CallsSound'
        BY <1>8 DEF vars, IInv, CallsSound, CallSound, Calling, Epochs
  <2>2. LoadsSound' /\ JoinsSound'
        BY <1>8 DEF vars, IInv, LoadsSound, LoadSound, JoinsSound, JoinSound, Calling
  <2>3. KeysSound' /\ SingleFlight'
        BY <1>8 DEF vars, IInv, KeysSound, KeySound, SingleFlight, Calls, Calling
  <2> QED
      BY <1>0, <2>1, <2>2, <2>3 DEF IInv
<1> QED
    BY <1>1, <1>2, <1>3, <1>4, <1>5, <1>6, <1>7, <1>8 DEF Next

\* The inductive invariant holds throughout (all of read_cache.go's load and
\* invalidations).
THEOREM CacheInvariant == Spec => []IInv
  BY InitSound, StepSound, PTL DEF Spec

\* The cache stays well typed; in particular what must not be cached never is.
THEOREM TypeCorrect == Spec => []TypeOK
<1>1. IInv => TypeOK
      BY DEF IInv
<1> QED
    BY <1>1, CacheInvariant, PTL

\* Nobody who calls load after an invalidation gets a row from before it.
THEOREM FreshReads == Spec => []ReadsAreFresh
<1>1. IInv => ReadsAreFresh
      BY DEF IInv, LoadsSound, LoadSound, ReadsAreFresh
<1> QED
    BY <1>1, CacheInvariant, PTL

\* Queries for one key overlap only across an invalidation.
THEOREM OneQueryPerEpoch == Spec => []SingleFlight
<1>1. IInv => SingleFlight
      BY DEF IInv
<1> QED
    BY <1>1, CacheInvariant, PTL

\* Whoever joined a call waits for one that is under way.
THEOREM NoOrphans == Spec => []JoinedCallsRun
<1>1. IInv => JoinedCallsRun
      BY DEF IInv, JoinsSound, JoinSound, JoinedCallsRun, Calls, Calling
<1> QED
    BY <1>1, CacheInvariant, PTL
=============================================================================
