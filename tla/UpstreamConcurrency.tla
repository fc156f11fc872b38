------------------------ MODULE UpstreamConcurrency ------------------------
(***************************************************************************)
(* One entry of the gateway's upstream concurrency registry                *)
(* (backend/gateway/upstream_concurrency.go) and the attempts that share   *)
(* it.  Each critical section under upstreamConcurrencyRegistry.mu is one  *)
(* action; what a goroutine does outside the lock (context checks, the     *)
(* select on ctx.Done and waiter.ready) is a separate step.                *)
(*                                                                         *)
(* An attempt may also be a stream that, when its upstream reported no     *)
(* input usage, gives its slot back early and queues again for a follow-up *)
(* count_tokens call (runtime_stream.go): its own deferred release then    *)
(* runs a second time and must do nothing.                                 *)
(***************************************************************************)
EXTENDS Integers, Sequences, FiniteSets

CONSTANTS
  Attempts,     \* goroutines forwarding to this upstream
  LimitArgs     \* the limits their (possibly stale) targets carry

ASSUME AttemptsFinite == IsFiniteSet(Attempts)
ASSUME LimitArgsInt == LimitArgs \subseteq Int

VARIABLES
  active,       \* entry.active
  limit,        \* entry.limit, NoEntry before the first acquire
  waiters,      \* entry.waiters
  granted,      \* waiter.granted of the attempt's current waiter
  pc,           \* where the attempt's goroutine is
  expired,      \* the context the attempt acquires under is done
  followUp      \* the stream already released its slot for a follow-up

vars == <<active, limit, waiters, granted, pc, expired, followUp>>

NoEntry == -1
Unlimited == 0

PCs == {"idle", "checked", "queued", "leaving", "giving", "holding", "closing"}

\* normalizeUpstreamConcurrencyLimit: a negative limit means no limit.
Normalize(l) == IF l < 0 THEN 0 ELSE l

HasRoom(act, lim) == lim = Unlimited \/ act < lim

\* The attempts that own a slot, whether they have noticed it or not.
Owners == {a \in Attempts : pc[a] = "holding" \/ granted[a]}

-----------------------------------------------------------------------------
\* Mutated form: off by one at the limit.
Grants_OneTooMany(act, lim, n) ==
  IF lim = Unlimited THEN n
  ELSE IF act > lim THEN 0
  ELSE IF lim - act + 1 < n THEN lim - act + 1 ELSE n

\* How many waiters a dispatch over n waiters lets in.
Grants(act, lim, n) ==
  IF lim = Unlimited THEN n
  ELSE IF act >= lim THEN 0
  ELSE IF lim - act < n THEN lim - act ELSE n

\* dispatchLocked on counter act, limit lim, queue w and grants g: the first
\* waiters are granted and leave the queue, in order, while there is room.
Dispatch(act, lim, w, g) ==
  LET n == Grants(act, lim, Len(w))
  IN  /\ active' = act + n
      /\ limit' = lim
      /\ waiters' = SubSeq(w, n + 1, Len(w))
      /\ granted' = [a \in Attempts |-> g[a] \/ \E i \in 1..n : w[i] = a]

OneLess(act) == IF act > 0 THEN act - 1 ELSE act

\* a's slot returns to the pool and the queue is served; the same critical
\* section ends a release, a cancelled grant and a grant found too late.
GiveSlotBack(a) ==
  Dispatch(OneLess(active), limit, waiters, [granted EXCEPT ![a] = FALSE])

\* removeUpstreamConcurrencyWaiter.
RemoveWaiter(w, a) ==
  LET at == CHOOSE i \in 1..Len(w) : w[i] = a
  IN  IF \E i \in 1..Len(w) : w[i] = a
      THEN [i \in 1..(Len(w) - 1) |-> IF i < at THEN w[i] ELSE w[i + 1]]
      ELSE w

\* Where a goes once its acquire failed or its slot is back: a follow-up
\* returns into the stream that made it, which still has its deferred release.
Return(a) == [pc EXCEPT ![a] = IF followUp[a] THEN "closing" ELSE "idle"]

-----------------------------------------------------------------------------
Init ==
  /\ active = 0
  /\ limit = NoEntry
  /\ waiters = <<>>
  /\ granted = [a \in Attempts |-> FALSE]
  /\ pc = [a \in Attempts |-> "idle"]
  /\ expired = [a \in Attempts |-> FALSE]
  /\ followUp = [a \in Attempts |-> FALSE]

\* acquire is called and finds its context live; one whose context is already
\* done, or whose budget is used up, returns an error and touches nothing.
Call(a) ==
  /\ pc[a] = "idle"
  /\ pc' = [pc EXCEPT ![a] = "checked"]
  /\ expired' = [expired EXCEPT ![a] = FALSE]
  /\ UNCHANGED <<active, limit, waiters, granted, followUp>>

\* The client goes away or the queue budget runs out.
Expire(a) ==
  /\ pc[a] \in {"checked", "queued"}
  /\ ~expired[a]
  /\ expired' = [expired EXCEPT ![a] = TRUE]
  /\ UNCHANGED <<active, limit, waiters, granted, pc, followUp>>

FastPath(lim) ==
  /\ (limit # NoEntry /\ limit # lim) \/ waiters = <<>>
  /\ HasRoom(active, lim)

\* The critical section of acquire: the newest caller's limit takes effect,
\* then the caller claims a slot at once or parks at the end of the queue.
Join(a) ==
  /\ pc[a] = "checked"
  /\ \E arg \in LimitArgs :
       LET lim == Normalize(arg)
       IN  \/ /\ FastPath(lim)
              /\ pc' = [pc EXCEPT ![a] = "holding"]
              /\ Dispatch(active + 1, lim, waiters, granted)
           \/ /\ ~FastPath(lim)
              /\ pc' = [pc EXCEPT ![a] = "queued"]
              /\ Dispatch(active, lim, Append(waiters, a), granted)
  /\ UNCHANGED <<expired, followUp>>

\* The select takes waiter.ready and the context is still live.
Wake(a) ==
  /\ pc[a] = "queued" /\ granted[a] /\ ~expired[a]
  /\ pc' = [pc EXCEPT ![a] = "holding"]
  /\ granted' = [granted EXCEPT ![a] = FALSE]
  /\ UNCHANGED <<active, limit, waiters, expired, followUp>>

\* The select takes waiter.ready but the context is done by now.
WakeTooLate(a) ==
  /\ pc[a] = "queued" /\ granted[a] /\ expired[a]
  /\ pc' = [pc EXCEPT ![a] = "giving"]
  /\ UNCHANGED <<active, limit, waiters, granted, expired, followUp>>

\* The select takes ctx.Done; a grant may still arrive before the lock does.
TakeDone(a) ==
  /\ pc[a] = "queued" /\ expired[a]
  /\ pc' = [pc EXCEPT ![a] = "leaving"]
  /\ UNCHANGED <<active, limit, waiters, granted, expired, followUp>>

\* The ctx.Done branch: return the slot if one was granted meanwhile, else
\* leave the queue.
Leave(a) ==
  /\ pc[a] = "leaving"
  /\ IF granted[a]
     THEN GiveSlotBack(a)
     ELSE Dispatch(active, limit, RemoveWaiter(waiters, a), granted)
  /\ pc' = Return(a)
  /\ UNCHANGED <<expired, followUp>>

\* The ready branch with a dead context: the granted slot goes back.
GiveBack(a) ==
  /\ pc[a] = "giving"
  /\ GiveSlotBack(a)
  /\ pc' = Return(a)
  /\ UNCHANGED <<expired, followUp>>

\* The attempt ends: its release function runs for the first time.
Release(a) ==
  /\ pc[a] = "holding"
  /\ GiveSlotBack(a)
  /\ pc' = Return(a)
  /\ UNCHANGED <<expired, followUp>>

\* Mutated form: the follow-up queues behind the slot its own stream holds.
StartFollowUp_KeepsSlot(a) ==
  /\ pc[a] = "holding" /\ ~followUp[a]
  /\ pc' = [pc EXCEPT ![a] = "checked"]
  /\ followUp' = [followUp EXCEPT ![a] = TRUE]
  /\ expired' = [expired EXCEPT ![a] = FALSE]
  /\ UNCHANGED <<active, limit, waiters, granted>>

\* recoverInput: the stream releases its slot before the follow-up request,
\* which acquires under a fresh context that the client cannot cancel.
StartFollowUp(a) ==
  /\ pc[a] = "holding" /\ ~followUp[a]
  /\ GiveSlotBack(a)
  /\ pc' = [pc EXCEPT ![a] = "checked"]
  /\ followUp' = [followUp EXCEPT ![a] = TRUE]
  /\ expired' = [expired EXCEPT ![a] = FALSE]

\* The stream's deferred releaseUpstream after a follow-up: a spent once.
Close(a) ==
  /\ pc[a] = "closing"
  /\ pc' = [pc EXCEPT ![a] = "idle"]
  /\ followUp' = [followUp EXCEPT ![a] = FALSE]
  /\ UNCHANGED <<active, limit, waiters, granted, expired>>

Step(a) ==
  \/ Call(a) \/ Expire(a) \/ Join(a) \/ Wake(a) \/ WakeTooLate(a)
  \/ TakeDone(a) \/ Leave(a) \/ GiveBack(a) \/ Release(a)
  \/ StartFollowUp(a) \/ Close(a)

Next == \E a \in Attempts : Step(a)

Spec == Init /\ [][Next]_vars

\* Goroutines run, and every attempt ends: gateway.forward_timeout bounds it.
\* Neither new calls nor expiry are owed.
Fairness ==
  \A a \in Attempts :
    /\ WF_vars(Join(a)) /\ WF_vars(Wake(a)) /\ WF_vars(WakeTooLate(a) \/ TakeDone(a))
    /\ WF_vars(Leave(a)) /\ WF_vars(GiveBack(a))
    /\ WF_vars(Release(a) \/ StartFollowUp(a)) /\ WF_vars(Close(a))

FairSpec == Spec /\ Fairness

-----------------------------------------------------------------------------
TypeOK ==
  /\ active \in Nat
  /\ limit \in Nat \cup {NoEntry}
  /\ waiters \in Seq(Attempts)
  /\ granted \in [Attempts -> BOOLEAN]
  /\ pc \in [Attempts -> PCs]
  /\ expired \in [Attempts -> BOOLEAN]
  /\ followUp \in [Attempts -> BOOLEAN]

Parked(a) == pc[a] \in {"queued", "leaving"} /\ ~granted[a]

\* The queue holds each parked attempt exactly once and nobody else, whatever
\* grants, cancellations and limit changes raced (so the granted-waiter skip
\* of dispatchLocked is never needed), and only an attempt still inside
\* acquire carries a grant.
QueueSound ==
  /\ \A i, j \in 1..Len(waiters) : waiters[i] = waiters[j] => i = j
  /\ \A a \in Attempts : Parked(a) <=> \E i \in 1..Len(waiters) : waiters[i] = a
  /\ \A a \in Attempts : granted[a] => pc[a] \in {"queued", "leaving", "giving"}
  /\ \A a \in Attempts : pc[a] = "giving" => granted[a]

\* No slot is lost or counted twice: entry.active is the number of attempts
\* that hold a slot or were granted one they have not picked up yet, through
\* cancelled grants, early releases and the second, spent release.
SlotAccounting == active = Cardinality(Owners)

\* No lost wakeup: while an attempt is parked the upstream is full.  Every
\* critical section that frees capacity must serve the queue before unlocking.
NoLostWakeup == waiters # <<>> => ~HasRoom(active, limit)

\* FIFO: an attempt that becomes an owner passes over one that stays parked
\* only if it is the newcomer whose own, larger limit created the room.
NoOvertaking ==
  [][\A a \in Owners' \ Owners : \A i \in 1..Len(waiters) :
       (\E j \in 1..Len(waiters') : waiters'[j] = waiters[i]) =>
         \/ \E k \in 1..(i - 1) : waiters[k] = a
         \/ /\ pc[a] = "checked"
            /\ limit # Unlimited
            /\ limit' > limit]_vars

\* Once callers agree on a limit, every parked attempt is granted a slot or
\* gives up on its own; a follow-up call never starves behind its own stream.
LimitSettles == <>[][FALSE]_limit
WaitersServed ==
  LimitSettles => \A a \in Attempts : Parked(a) ~> (granted[a] \/ expired[a])

\* The counter, the queue and the grants implement the slot pool.
Pool == INSTANCE SlotPool WITH owners <- Owners, cap <- limit
RefinesSlotPool == Pool!PoolSpec
=============================================================================
