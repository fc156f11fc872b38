----------------------------- MODULE GroupsCache -----------------------------
(***************************************************************************)
(* The group lists of the channels, by whose ratios the gateway orders and *)
(* prices its routes (backend/gateway/runtime_cache.go): one fetch at a    *)
(* time, an old list served while it is refreshed, and a generation that a *)
(* finished fetch must match.  A rate scan invalidates them.               *)
(*                                                                         *)
(* A list is its version, which the upstream moves on.  Ages are not       *)
(* counted: an asker may find any list too old.  There is one channel; the *)
(* generation is common to all.                                            *)
(***************************************************************************)
EXTENDS Integers, FiniteSets

CONSTANTS
  Askers,       \* goroutines inside loadGroupsByChannel
  MaxListings,  \* bound: versions of the list
  MaxEpoch      \* bound: invalidations

ASSUME AskersFinite == IsFiniteSet(Askers)

VARIABLES
  listed,      \* the upstream's list
  covered,     \* history: what it was at the last invalidation
  list,        \* the cached list: [there, version, late]
  epoch,
  registered,  \* channelGroupsFetches: the channel's call, or NoCall
  calls,       \* the fetches
  askers

listVars == <<listed, covered, list, epoch, registered, calls, askers>>

NoList == 0
NoCall == 0
Fetches == 1..Cardinality(Askers) + 1  \* bound: fetches at a time
NoAnswer == [there |-> FALSE, version |-> NoList, late |-> FALSE]
Free == [pc |-> "free", epoch |-> 0, got |-> NoList]
Gone == [pc |-> "away", on |-> NoCall, got |-> NoList, late |-> FALSE]

ListInit ==
  /\ listed = 1 /\ covered = 1 /\ list = NoAnswer /\ epoch = 0 /\ registered = NoCall
  /\ calls = [c \in Fetches |-> Free] /\ askers = [k \in Askers |-> Gone]

Waiting(k, c) == askers[k].pc = "waiting" /\ askers[k].on = c

\* The call that an asker gets: the registered one or a new one.
Joined == IF registered # NoCall THEN registered ELSE CHOOSE c \in Fetches : calls[c].pc = "free"

\* startChannelGroupsFetch, from the calls cs
StartFetch(cs) ==
  /\ registered # NoCall \/ \E c \in Fetches : calls[c].pc = "free"
  /\ registered' = Joined
  /\ calls' = IF registered # NoCall THEN cs ELSE [cs EXCEPT ![Joined] = [Free EXCEPT !.pc = "asking", !.epoch = epoch]]

\* An old list is used, and refreshAsync called.  The use of a fresh list
\* changes nothing.
AskOld(k) ==
  /\ askers[k].pc = "away" /\ list.there
  /\ StartFetch(calls)
  /\ UNCHANGED <<listed, covered, list, epoch, askers>>

\* Without a list the asker waits for a fetch.
AskMissing(k) ==
  /\ askers[k].pc = "away" /\ ~list.there
  /\ StartFetch(calls)
  /\ askers' = [askers EXCEPT ![k] = [Gone EXCEPT !.pc = "waiting", !.on = Joined]]
  /\ UNCHANGED <<listed, covered, list, epoch>>

\* ListAPIKeyGroups reaches the upstream, or fails.
Fetch(c) ==
  /\ calls[c].pc = "asking"
  /\ \E got \in {listed, NoList} : calls' = [calls EXCEPT ![c].pc = "read", ![c].got = got]
  /\ UNCHANGED <<listed, covered, list, epoch, registered, askers>>

\* Mutated form: an answer is stored whatever was invalidated meanwhile.
Lands_AnyEpoch(c) == calls[c].got # NoList

\* An answer of the present generation becomes the list.
Lands(c) == calls[c].got # NoList /\ calls[c].epoch = epoch

\* The call nobody waits for is forgotten.
Ended(c) == IF \E k \in Askers : Waiting(k, c) THEN [calls[c] EXCEPT !.pc = "done"] ELSE Free

Land(c) ==
  /\ calls[c].pc = "read"
  /\ calls' = [calls EXCEPT ![c] = Ended(c)]
  /\ list' = IF Lands(c) THEN [there |-> TRUE, version |-> calls[c].got, late |-> FALSE] ELSE list
  /\ registered' = IF registered = c THEN NoCall ELSE registered
  /\ UNCHANGED <<listed, covered, epoch, askers>>

\* The calls when k no longer waits.
Left(k) ==
  LET c == askers[k].on
  IN  IF calls[c].pc = "done" /\ ~\E j \in Askers \ {k} : Waiting(j, c)
        THEN [calls EXCEPT ![c] = Free] ELSE calls

\* fetchChannelGroups: the waiter leaves with an answer of the present
\* generation,
Wake(k) ==
  LET call == calls[askers[k].on]
  IN  /\ askers[k].pc = "waiting" /\ call.pc = "done" /\ call.epoch = epoch
      /\ askers' = [askers EXCEPT ![k] = [Gone EXCEPT !.pc = "storing", !.got = call.got]]
      /\ calls' = Left(k)
      /\ UNCHANGED <<listed, covered, list, epoch, registered>>

\* and starts over with one of an older.
WakeAgain(k) ==
  LET call == calls[askers[k].on]
  IN  /\ askers[k].pc = "waiting" /\ call.pc = "done" /\ call.epoch # epoch
      /\ StartFetch(Left(k))
      /\ askers' = [askers EXCEPT ![k].on = Joined]
      /\ UNCHANGED <<listed, covered, list, epoch>>

\* The asker's own request is gone: it leaves with nothing.
Leave(k) ==
  /\ askers[k].pc = "waiting"
  /\ askers' = [askers EXCEPT ![k] = [Gone EXCEPT !.pc = "storing"]]
  /\ calls' = Left(k)
  /\ UNCHANGED <<listed, covered, list, epoch, registered>>

\* storeChannelGroupsCache: what the waiter left with is stored, nothing
\* included, without another look at the generation.
Store(k) ==
  /\ askers[k].pc = "storing"
  /\ list' = [there |-> TRUE, version |-> askers[k].got, late |-> askers[k].late]
  /\ askers' = [askers EXCEPT ![k] = Gone]
  /\ UNCHANGED <<listed, covered, epoch, registered, calls>>

\* InvalidateChannelGroupsCache, after a scan has found new ratios.  Whoever is
\* about to store what he left with is late.
InvalidateList ==
  /\ epoch < MaxEpoch
  /\ epoch' = epoch + 1 /\ list' = NoAnswer /\ registered' = NoCall
  /\ covered' = listed
  /\ askers' = [k \in Askers |-> [askers[k] EXCEPT !.late = (askers[k].pc = "storing")]]
  /\ UNCHANGED <<listed, calls>>

\* The upstream changes its ratios.
Relist ==
  /\ listed < MaxListings
  /\ listed' = listed + 1
  /\ UNCHANGED <<covered, list, epoch, registered, calls, askers>>

ListNext ==
  \/ \E k \in Askers : AskOld(k) \/ AskMissing(k) \/ Wake(k) \/ WakeAgain(k) \/ Leave(k) \/ Store(k)
  \/ \E c \in Fetches : Fetch(c) \/ Land(c)
  \/ InvalidateList \/ Relist

ListSpec == ListInit /\ [][ListNext]_listVars

-----------------------------------------------------------------------------
\* "Their epoch check prevents them from repopulating the cache": after an
\* invalidation no list older than the one the scan saw is cached - unless it
\* was stored by an asker who had left the check before the invalidation.
ListIsCurrent == list.there /\ list.version # NoList /\ ~list.late => list.version >= covered
=============================================================================
