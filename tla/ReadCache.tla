----------------------------- MODULE ReadCache -----------------------------
(***************************************************************************)
(* ttlReadCache (backend/storage/read_cache.go): the two-second snapshots  *)
(* that the gateway's hot path reads, with single flight per key.  A write *)
(* commits first and invalidates afterwards; a query that was already      *)
(* under way must not bring the old row back.                              *)
(*                                                                         *)
(* A row is its version.  Time is not counted: a snapshot may be found     *)
(* expired at any lookup.                                                  *)
(***************************************************************************)
EXTENDS Integers, FiniteSets

CONSTANTS
  Keys, Readers,
  Uncacheable,      \* versions that the cacheable predicate rejects
  MaxWrites,        \* bound: commits
  MaxInvalidations  \* bound: invalidate, invalidateWhere and clear calls

ASSUME BoundsSound == MaxWrites \in Nat /\ MaxInvalidations \in Nat /\ Uncacheable \subseteq Nat

VARIABLES
  db,          \* version of each row
  settled,     \* history: the version an invalidation of the key has covered
  clearEpoch, keyEpochs,
  items,       \* the cached version, or Nothing
  inFlight,    \* the reader whose call is registered for the key, or Nobody
  readers,     \* the goroutines inside load
  writes, invalidations

vars == <<db, settled, clearEpoch, keyEpochs, items, inFlight, readers, writes, invalidations>>
cacheVars == <<clearEpoch, keyEpochs, items>>
worldVars == <<db, settled, writes, invalidations>>

Nothing == -1
Failed == -2
Nobody == "nobody"
ASSUME NobodyIsNoReader == Nobody \notin Readers

\* A goroutine: where it is, its key, the epochs of its call, the reader whose
\* call it waits for, the value it has, and what was settled when it came.
Reader == [pc : {"idle", "joined", "loading", "loaded", "done"},
           key : Keys, epochs : Nat \X Nat, on : Readers \cup {Nobody},
           value : {Failed, Nothing} \cup Nat, since : Nat]

Epochs(k) == <<clearEpoch, keyEpochs[k]>>

Calls(k) == {r \in Readers : readers[r].pc \in {"loading", "loaded"} /\ readers[r].key = k}

\* A goroutine that is not inside load; the key means nothing.
Away(k) == [pc |-> "idle", key |-> k, epochs |-> <<0, 0>>, on |-> Nobody,
            value |-> Nothing, since |-> 0]

-----------------------------------------------------------------------------
Init ==
  /\ db = [k \in Keys |-> 0] /\ settled = [k \in Keys |-> 0]
  /\ clearEpoch = 0 /\ keyEpochs = [k \in Keys |-> 0]
  /\ items = [k \in Keys |-> Nothing]
  /\ inFlight = [k \in Keys |-> Nobody]
  /\ \E k \in Keys : readers = [r \in Readers |-> Away(k)]
  /\ writes = 0 /\ invalidations = 0

Arrive(r, k, pc, on, v) ==
  readers' = [readers EXCEPT ![r] =
    [pc |-> pc, key |-> k, epochs |-> Epochs(k), on |-> on, value |-> v, since |-> settled[k]]]

\* Mutated form: any call under way is joined, however old.
Joinable_AnyEpoch(k) == inFlight[k] # Nobody

\* The registered call began in the present epochs.
Joinable(k) == inFlight[k] # Nobody /\ readers[inFlight[k]].epochs = Epochs(k)

\* The first critical section of load: hit, join or start a call.  An entry
\* that has expired is removed.
Begin(r, k) ==
  /\ readers[r].pc = "idle"
  /\ \/ /\ items[k] # Nothing
        /\ Arrive(r, k, "done", Nobody, items[k])
        /\ UNCHANGED <<items, inFlight>>
     \/ /\ items' = [items EXCEPT ![k] = Nothing]
        /\ IF Joinable(k)
             THEN Arrive(r, k, "joined", inFlight[k], Nothing) /\ UNCHANGED inFlight
             ELSE Arrive(r, k, "loading", Nobody, Nothing) /\ inFlight' = [inFlight EXCEPT ![k] = r]
  /\ UNCHANGED <<worldVars, clearEpoch, keyEpochs>>

\* The query of the call, outside the lock.
Load(r) ==
  /\ readers[r].pc = "loading"
  /\ \E v \in {db[readers[r].key], Failed} :
       readers' = [readers EXCEPT ![r].pc = "loaded", ![r].value = v]
  /\ UNCHANGED <<worldVars, cacheVars, inFlight>>

\* The result may become the snapshot: no invalidation since the call began.
MayStore(r) ==
  /\ readers[r].value # Failed /\ readers[r].value \notin Uncacheable
  /\ readers[r].epochs = Epochs(readers[r].key)

Unregister(r) ==
  inFlight' = [k \in Keys |-> IF inFlight[k] = r THEN Nobody ELSE inFlight[k]]

\* The goroutines that the end of r's call answers: r and those that joined.
Answered(s, r) == s = r \/ (readers[s].pc = "joined" /\ readers[s].on = r)

\* The second critical section of load.
Finish(r) ==
  LET k == readers[r].key
  IN  /\ readers[r].pc = "loaded"
      /\ Unregister(r)
      /\ items' = IF MayStore(r) THEN [items EXCEPT ![k] = readers[r].value] ELSE items
      /\ readers' = [s \in Readers |->
           IF Answered(s, r)
             THEN [readers[s] EXCEPT !.pc = "done", !.on = Nobody, !.value = readers[r].value]
             ELSE readers[s]]
      /\ UNCHANGED <<worldVars, clearEpoch, keyEpochs>>

\* The caller has its value and may come again.
Return(r) ==
  /\ readers[r].pc = "done"
  /\ readers' = [readers EXCEPT ![r] = Away(readers[r].key)]
  /\ UNCHANGED <<worldVars, cacheVars, inFlight>>

-----------------------------------------------------------------------------
\* A repository method commits a new version of the row.
Write(k) ==
  /\ writes < MaxWrites
  /\ writes' = writes + 1
  /\ db' = [db EXCEPT ![k] = db[k] + 1]
  /\ UNCHANGED <<settled, invalidations, cacheVars, inFlight, readers>>

\* An invalidation of the keys in ks, which come to be settled.
Settle(ks) ==
  /\ invalidations < MaxInvalidations
  /\ invalidations' = invalidations + 1
  /\ settled' = [k \in Keys |-> IF k \in ks THEN db[k] ELSE settled[k]]
  /\ UNCHANGED <<db, writes, inFlight, readers>>

\* invalidate
Invalidate(k) ==
  /\ Settle({k})
  /\ keyEpochs' = [keyEpochs EXCEPT ![k] = @ + 1]
  /\ items' = [items EXCEPT ![k] = Nothing]
  /\ UNCHANGED clearEpoch

\* invalidateWhere, with the predicate true of the rows of ks; clear if it is
\* true of every row.
InvalidateWhere(ks) ==
  /\ Settle(ks)
  /\ clearEpoch' = clearEpoch + 1
  /\ items' = [k \in Keys |-> IF k \in ks THEN Nothing ELSE items[k]]
  /\ UNCHANGED keyEpochs

Next ==
  \/ \E r \in Readers : Load(r) \/ Finish(r) \/ Return(r) \/ \E k \in Keys : Begin(r, k)
  \/ \E k \in Keys : Write(k) \/ Invalidate(k)
  \/ \E ks \in SUBSET Keys \ {{}} : InvalidateWhere(ks)

Spec == Init /\ [][Next]_vars

-----------------------------------------------------------------------------
TypeOK ==
  /\ db \in [Keys -> Nat] /\ settled \in [Keys -> Nat]
  /\ clearEpoch \in Nat /\ keyEpochs \in [Keys -> Nat]
  /\ items \in [Keys -> {Nothing} \cup (Nat \ Uncacheable)]
  /\ inFlight \in [Keys -> Readers \cup {Nobody}]
  /\ readers \in [Readers -> Reader]
  /\ writes \in Nat /\ invalidations \in Nat

\* "A query that started before a write therefore cannot repopulate stale data
\* after it commits": whoever calls load after a write was invalidated gets
\* that write or a later one, whether from the snapshot, from its own query or
\* from a query it joined.
ReadsAreFresh ==
  \A r \in Readers : readers[r].pc = "done" /\ readers[r].value # Failed =>
    readers[r].value >= readers[r].since

\* "coalesces concurrent cache misses": two queries for one key run at the same
\* time only if an invalidation lies between them.
SingleFlight ==
  \A k \in Keys : \A r, s \in Calls(k) : r # s => readers[r].epochs # readers[s].epochs

\* Whoever joined a call waits for a call that is really under way: the owner
\* neither has finished without an answer nor went on to another one.
JoinedCallsRun ==
  \A r \in Readers : readers[r].pc = "joined" =>
    /\ readers[r].on \in Calls(readers[r].key)
    /\ readers[readers[r].on].epochs = readers[r].epochs

=============================================================================
