--------------------- MODULE UpstreamConcurrency_proofs ---------------------
(***************************************************************************)
(* The limiter keeps its promise for every finite set of attempts and      *)
(* every set of limits.  Every critical section ends in Dispatch, so the   *)
(* proofs turn on one lemma: if the queue, the grants and the counter      *)
(* agree when Dispatch starts, they agree when it ends, and nobody who     *)
(* could be let in is left waiting.  An action then only has to show that  *)
(* they agree at the point where it calls Dispatch.                        *)
(*                                                                         *)
(* The hedged race, for every policy and every length of stream, follows:  *)
(* its client receives the winner's stream and no other's.                 *)
(***************************************************************************)
EXTENDS UpstreamConcurrency, HedgeRace, FiniteSetTheorems, TLAPS

\* Who owns a slot under the grants g.
OwnersOf(g, p) == {a \in Attempts : p[a] = "holding" \/ g[a]}

\* a is in the queue w.
In(w, a) == \E i \in 1..Len(w) : w[i] = a

\* QueueSound and TypeOK of a queue w, grants g and program counters p.
Agree(w, g, p) ==
  /\ w \in Seq(Attempts)
  /\ g \in [Attempts -> BOOLEAN]
  /\ p \in [Attempts -> PCs]
  /\ \A i, j \in 1..Len(w) : w[i] = w[j] => i = j
  /\ \A a \in Attempts : (p[a] \in {"queued", "leaving"} /\ ~g[a]) <=> In(w, a)
  /\ \A a \in Attempts : g[a] => p[a] \in {"queued", "leaving", "giving"}
  /\ \A a \in Attempts : p[a] = "giving" => g[a]

\* Grants lets in at most everybody, and stops early only when full.
LEMMA GrantsBounds ==
  ASSUME NEW act \in Nat, NEW lim \in Nat \cup {NoEntry}, NEW n \in Nat
  PROVE  /\ Grants(act, lim, n) \in 0..n
         /\ Grants(act, lim, n) = n \/ ~HasRoom(act + Grants(act, lim, n), lim)
BY DEF Grants, HasRoom, NoEntry, Unlimited

\* n different elements are n elements.
LEMMA PrefixCardinality ==
  ASSUME NEW w, NEW n \in Nat, NEW T,
         \A i, j \in 1..n : w[i] = w[j] => i = j,
         \A x : x \in T <=> \E i \in 1..n : w[i] = x
  PROVE  IsFiniteSet(T) /\ Cardinality(T) = n
<1> DEFINE f == [i \in 1..n |-> w[i]]
<1>1. f \in Surjection(1..n, T)
  BY DEF Surjection
<1>2. f \in Injection(1..n, T)
  BY DEF Injection, IsInjective
<1>3. IsFiniteSet(1..n) /\ Cardinality(1..n) = n
  BY FS_Interval
<1>4. IsFiniteSet(T) /\ (Cardinality(T) = Cardinality(1..n) <=> f \in Injection(1..n, T))
  BY <1>1, <1>3, FS_Surjection
<1> QED
  BY <1>2, <1>3, <1>4

\* Dropping one waiter drops that one only.
LEMMA RemoveWaiterSound ==
  ASSUME NEW w \in Seq(Attempts), NEW a \in Attempts,
         \A i, j \in 1..Len(w) : w[i] = w[j] => i = j
  PROVE  LET v == RemoveWaiter(w, a)
         IN  /\ v \in Seq(Attempts)
             /\ \A i, j \in 1..Len(v) : v[i] = v[j] => i = j
             /\ \A b \in Attempts : In(v, b) <=> b # a /\ In(w, b)
<1> DEFINE v == RemoveWaiter(w, a)
<1>1. CASE ~In(w, a)
  BY <1>1 DEF RemoveWaiter, In
<1>2. CASE In(w, a)
  <2>1. PICK at \in 1..Len(w) : w[at] = a /\ at = CHOOSE i \in 1..Len(w) : w[i] = a
    BY <1>2 DEF In
  <2>2. v = [i \in 1..(Len(w) - 1) |-> IF i < at THEN w[i] ELSE w[i + 1]]
    BY <1>2, <2>1 DEF RemoveWaiter, In
  <2>3. Len(w) - 1 \in Nat /\ v \in Seq(Attempts) /\ Len(v) = Len(w) - 1
    BY <2>1, <2>2
  <2>4. \A i, j \in 1..Len(v) : v[i] = v[j] => i = j
    BY <2>1, <2>2, <2>3
  <2>5. ASSUME NEW b \in Attempts
        PROVE  In(v, b) <=> b # a /\ In(w, b)
    <3>1. ASSUME In(v, b) PROVE b # a /\ In(w, b)
      BY <2>1, <2>2, <2>3, <3>1 DEF In
    <3>2. ASSUME b # a, In(w, b) PROVE In(v, b)
      <4>1. PICK k \in 1..Len(w) : w[k] = b
        BY <3>2 DEF In
      <4>2. k # at
        BY <2>1, <3>2, <4>1
      <4>3. CASE k < at
        BY <2>1, <2>2, <2>3, <4>1, <4>3 DEF In
      <4>4. CASE k > at
        <5>1. k - 1 \in 1..(Len(w) - 1) /\ ~(k - 1 < at) /\ (k - 1) + 1 = k
          BY <2>1, <4>1, <4>4
        <5>2. v[k - 1] = w[(k - 1) + 1]
          BY <2>2, <5>1
        <5>3. k - 1 \in 1..Len(v) /\ v[k - 1] = b
          BY <2>3, <4>1, <5>1, <5>2
        <5> QED
          BY <5>3 DEF In
      <4> QED
        BY <2>1, <4>1, <4>2, <4>3, <4>4
    <3> QED
      BY <3>1, <3>2
  <2> QED
    BY <2>3, <2>4, <2>5
<1> QED
  BY <1>1, <1>2

\* The heart of the proofs: what every critical section leaves behind.
LEMMA DispatchSound ==
  ASSUME NEW act \in Nat, NEW lim \in Nat \cup {NoEntry}, NEW w, NEW g, NEW p,
         Agree(w, g, p),
         act = Cardinality(OwnersOf(g, p)),
         Dispatch(act, lim, w, g),
         pc' = p
  PROVE  /\ Agree(waiters', granted', pc')
         /\ active' \in Nat
         /\ active' = Cardinality(OwnersOf(granted', pc'))
         /\ limit' = lim
         /\ waiters' # <<>> => ~HasRoom(active', limit')
<1> DEFINE n == Grants(act, lim, Len(w))
           T == {w[i] : i \in 1..n}
<1>1. w \in Seq(Attempts) /\ Len(w) \in Nat
  BY DEF Agree
<1>2. n \in 0..Len(w) /\ (n = Len(w) \/ ~HasRoom(act + n, lim))
  BY <1>1, GrantsBounds
<1> HIDE DEF n
<1>3. /\ active' = act + n
      /\ limit' = lim
      /\ waiters' = SubSeq(w, n + 1, Len(w))
      /\ granted' = [a \in Attempts |-> g[a] \/ \E i \in 1..n : w[i] = a]
  BY DEF Dispatch, n
<1>4. /\ waiters' \in Seq(Attempts)
      /\ Len(waiters') = Len(w) - n
      /\ \A i \in 1..(Len(w) - n) : waiters'[i] = w[i + n]
  BY <1>1, <1>2, <1>3
<1>5. \A a \in Attempts : In(waiters', a) <=> \E k \in (n + 1)..Len(w) : w[k] = a
  <2> TAKE a \in Attempts
  <2>1. ASSUME NEW k \in (n + 1)..Len(w), w[k] = a PROVE In(waiters', a)
    <3>1. k - n \in 1..(Len(w) - n) /\ (k - n) + n = k
      BY <1>1, <1>2
    <3> QED
      BY <1>4, <2>1, <3>1 DEF In
  <2>2. ASSUME NEW i \in 1..(Len(w) - n), waiters'[i] = a
        PROVE  \E k \in (n + 1)..Len(w) : w[k] = a
    <3>1. i + n \in (n + 1)..Len(w) /\ w[i + n] = a
      BY <1>1, <1>2, <1>4, <2>2
    <3> QED
      BY <3>1
  <2> QED
    BY <1>1, <1>2, <1>4, <2>1, <2>2 DEF In
<1>6. \A a \in Attempts : granted'[a] <=> g[a] \/ a \in T
  BY <1>3
<1>7. T \subseteq Attempts /\ \A a \in T : In(w, a)
  BY <1>1, <1>2 DEF In
<1>8. Agree(waiters', granted', pc')
  <2>1. granted' \in [Attempts -> BOOLEAN] /\ pc' \in [Attempts -> PCs]
    BY <1>3 DEF Agree
  <2>2. \A i, j \in 1..Len(waiters') : waiters'[i] = waiters'[j] => i = j
    <3> TAKE i, j \in 1..Len(waiters')
    <3>1. i + n \in 1..Len(w) /\ j + n \in 1..Len(w)
      BY <1>1, <1>2, <1>4
    <3> QED
      BY <1>1, <1>2, <1>4, <3>1 DEF Agree
  <2>3. ASSUME NEW a \in Attempts
        PROVE  /\ (p[a] \in {"queued", "leaving"} /\ ~granted'[a]) <=> In(waiters', a)
               /\ granted'[a] => p[a] \in {"queued", "leaving", "giving"}
               /\ p[a] = "giving" => granted'[a]
    <3>1. In(w, a) <=> a \in T \/ In(waiters', a)
      <4>1. \A k : k \in 1..Len(w) <=> k \in 1..n \/ k \in (n + 1)..Len(w)
        BY <1>1, <1>2
      <4> QED
        BY <1>5, <4>1 DEF In
    <3>2. ASSUME a \in T, In(waiters', a) PROVE FALSE
      <4>1. PICK i \in 1..n : w[i] = a
        BY <3>2
      <4>2. PICK k \in (n + 1)..Len(w) : w[k] = a
        BY <1>5, <3>2
      <4>3. i \in 1..Len(w) /\ k \in 1..Len(w) /\ i # k
        BY <1>1, <1>2
      <4> QED
        BY <4>1, <4>2, <4>3 DEF Agree
    <3> QED
      BY <1>6, <3>1, <3>2 DEF Agree
  <2> QED
    BY <1>4, <2>1, <2>2, <2>3 DEF Agree
<1>9. active' = Cardinality(OwnersOf(granted', pc'))
  <2>1. OwnersOf(granted', pc') = OwnersOf(g, p) \cup T
    BY <1>6, <1>7 DEF OwnersOf
  <2>2. OwnersOf(g, p) \cap T = {}
    BY <1>7 DEF OwnersOf, Agree
  <2>3. IsFiniteSet(OwnersOf(g, p))
    <3>1. OwnersOf(g, p) \in SUBSET Attempts
      BY DEF OwnersOf
    <3> QED
      BY <3>1, AttemptsFinite, FS_Subset
  <2>4. IsFiniteSet(T) /\ Cardinality(T) = n
    <3>1. n \in Nat /\ \A i, j \in 1..n : w[i] = w[j] => i = j
      BY <1>1, <1>2 DEF Agree
    <3>2. \A x : x \in T <=> \E i \in 1..n : w[i] = x
      OBVIOUS
    <3> HIDE DEF T
    <3> QED
      BY <3>1, <3>2, PrefixCardinality
  <2>5. Cardinality(OwnersOf(g, p) \cup T) = act + n
    <3>1. Cardinality(OwnersOf(g, p) \cup T)
            = Cardinality(OwnersOf(g, p)) + Cardinality(T) - Cardinality({})
      BY <2>2, <2>3, <2>4, FS_Union
    <3> QED
      BY <1>2, <2>4, <3>1, FS_EmptySet
  <2> QED
    BY <1>3, <2>1, <2>5
<1>10. waiters' # <<>> => ~HasRoom(active', limit')
  BY <1>1, <1>2, <1>3, <1>4
<1> QED
  BY <1>2, <1>3, <1>8, <1>9, <1>10

-----------------------------------------------------------------------------
\* The inductive invariant: everything the properties say, together.  The
\* queue and the grants are needed to know that the slot an action takes back
\* is one the counter holds.
IInv == TypeOK /\ QueueSound /\ SlotAccounting /\ NoLostWakeup

\* The invariant, in terms of what the dispatch reads.
LEMMA IInvAgree == IInv <=> /\ Agree(waiters, granted, pc)
                            /\ TypeOK
                            /\ active = Cardinality(OwnersOf(granted, pc))
                            /\ NoLostWakeup
BY DEF IInv, TypeOK, QueueSound, SlotAccounting, Parked, Agree, In, Owners, OwnersOf

\* The same after a step.
LEMMA IInvAgreeNext == IInv' <=> /\ Agree(waiters', granted', pc')
                                 /\ TypeOK'
                                 /\ active' = Cardinality(OwnersOf(granted', pc'))
                                 /\ NoLostWakeup'
BY DEF IInv, TypeOK, QueueSound, SlotAccounting, Parked, Agree, In, Owners, OwnersOf

\* Owning a slot and losing it, counted.
LEMMA OwnersFinite ==
  ASSUME NEW g, NEW p
  PROVE  IsFiniteSet(OwnersOf(g, p)) /\ Cardinality(OwnersOf(g, p)) \in Nat
<1>1. OwnersOf(g, p) \in SUBSET Attempts
  BY DEF OwnersOf
<1> QED
  BY <1>1, AttemptsFinite, FS_Subset, FS_CardinalityType

\* Taking a slot back from an owner: GiveSlotBack keeps the invariant when a's
\* new program counter says that a no longer holds, waits or returns a slot.
LEMMA GiveSlotBackSound ==
  ASSUME NEW a \in Attempts, IInv, a \in Owners, GiveSlotBack(a),
         NEW to \in {"idle", "checked", "closing"},
         pc' = [pc EXCEPT ![a] = to],
         expired' \in [Attempts -> BOOLEAN], followUp' \in [Attempts -> BOOLEAN]
  PROVE  IInv'
<1> DEFINE g == [granted EXCEPT ![a] = FALSE]
           p == [pc EXCEPT ![a] = to]
<1>1. Agree(waiters, granted, pc) /\ TypeOK /\ active = Cardinality(OwnersOf(granted, pc))
  BY IInvAgree
<1>2. a \in OwnersOf(granted, pc)
  BY DEF Owners, OwnersOf
<1>3. OwnersOf(g, p) = OwnersOf(granted, pc) \ {a}
  BY <1>1 DEF OwnersOf, TypeOK
<1>4. Cardinality(OwnersOf(g, p)) = active - 1 /\ active > 0
  <2>1. Cardinality(OwnersOf(g, p)) = active - 1
    BY <1>1, <1>2, <1>3, OwnersFinite, FS_RemoveElement
  <2> QED
    BY <1>1, <2>1, OwnersFinite DEF TypeOK
<1>5. OneLess(active) = active - 1 /\ OneLess(active) \in Nat
  BY <1>1, <1>4 DEF OneLess, TypeOK
<1>6. Agree(waiters, g, p)
  <2>1. g \in [Attempts -> BOOLEAN] /\ p \in [Attempts -> PCs]
    BY <1>1 DEF TypeOK, PCs
  <2>2. ~In(waiters, a)
    BY <1>1, <1>2 DEF OwnersOf, Agree
  <2> QED
    BY <1>1, <2>1, <2>2 DEF Agree, TypeOK
<1>7. Dispatch(OneLess(active), limit, waiters, g) /\ limit \in Nat \cup {NoEntry}
  BY <1>1 DEF GiveSlotBack, TypeOK
<1> HIDE DEF g, p
<1>8. /\ Agree(waiters', granted', pc')
      /\ active' \in Nat
      /\ active' = Cardinality(OwnersOf(granted', pc'))
      /\ limit' = limit
      /\ waiters' # <<>> => ~HasRoom(active', limit')
  <2>1. pc' = p
    BY DEF p
  <2> QED
    BY <1>4, <1>5, <1>6, <1>7, <2>1, DispatchSound
<1>9. TypeOK' /\ NoLostWakeup'
  BY <1>1, <1>8 DEF TypeOK, Agree, NoLostWakeup
<1> QED
  BY <1>8, <1>9, IInvAgreeNext

-----------------------------------------------------------------------------
\* The invariant holds initially.
LEMMA InitIInv == Init => IInv
<1> SUFFICES ASSUME Init PROVE IInv
  OBVIOUS
<1>1. TypeOK /\ QueueSound /\ NoLostWakeup
  BY DEF Init, TypeOK, QueueSound, NoLostWakeup, Parked, PCs
<1>2. Owners = {}
  BY DEF Init, Owners
<1>3. SlotAccounting
  BY <1>2, FS_EmptySet DEF Init, SlotAccounting
<1> QED
  BY <1>1, <1>3 DEF IInv

\* A step that leaves the counter, the limit, the queue, the grants and the
\* set of parked and holding attempts alone.
LEMMA QuietSound ==
  ASSUME IInv, UNCHANGED <<active, limit, waiters, granted>>,
         pc' \in [Attempts -> PCs],
         expired' \in [Attempts -> BOOLEAN], followUp' \in [Attempts -> BOOLEAN],
         \A a \in Attempts :
           \/ pc'[a] = pc[a]
           \/ pc[a] \in {"idle", "checked", "closing"} /\ pc'[a] \in {"idle", "checked", "closing"}
           \/ granted[a] /\ pc[a] = "queued" /\ pc'[a] \in {"leaving", "giving"}
           \/ ~granted[a] /\ pc[a] = "queued" /\ pc'[a] = "leaving"
  PROVE  IInv'
<1>1. OwnersOf(granted', pc') = OwnersOf(granted, pc)
  BY DEF OwnersOf, IInv, TypeOK
<1>2. Agree(waiters', granted', pc')
  BY IInvAgree DEF Agree, In
<1>3. TypeOK' /\ NoLostWakeup'
  BY DEF IInv, TypeOK, NoLostWakeup
<1> QED
  BY <1>1, <1>2, <1>3, IInvAgree, IInvAgreeNext

\* Entering a key, with a slot or into the queue, keeps the invariant.
LEMMA JoinSound == ASSUME IInv, NEW a \in Attempts, Join(a) PROVE IInv'
<1>1. Agree(waiters, granted, pc) /\ TypeOK /\ active = Cardinality(OwnersOf(granted, pc))
  BY IInvAgree
<1>2. PICK arg \in LimitArgs :
        LET lim == Normalize(arg)
        IN  \/ /\ FastPath(lim)
               /\ pc' = [pc EXCEPT ![a] = "holding"]
               /\ Dispatch(active + 1, lim, waiters, granted)
            \/ /\ ~FastPath(lim)
               /\ pc' = [pc EXCEPT ![a] = "queued"]
               /\ Dispatch(active, lim, Append(waiters, a), granted)
  BY DEF Join
<1> DEFINE lim == Normalize(arg)
<1>3. lim \in Nat /\ lim \in Nat \cup {NoEntry}
  BY LimitArgsInt DEF Normalize
<1> HIDE DEF lim
<1>4. pc[a] = "checked" /\ a \notin OwnersOf(granted, pc) /\ ~granted[a] /\ ~In(waiters, a)
  BY <1>1 DEF Join, OwnersOf, Agree
<1>5. expired' = expired /\ followUp' = followUp
  BY DEF Join
<1>6. SUFFICES /\ Agree(waiters', granted', pc')
               /\ active' \in Nat
               /\ active' = Cardinality(OwnersOf(granted', pc'))
               /\ limit' = lim
               /\ waiters' # <<>> => ~HasRoom(active', limit')
  <2>1. TypeOK' /\ NoLostWakeup'
    BY <1>1, <1>3, <1>5, <1>6 DEF TypeOK, Agree, NoLostWakeup
  <2> QED
    BY <1>6, <2>1, IInvAgreeNext
<1>7. CASE /\ pc' = [pc EXCEPT ![a] = "holding"]
           /\ Dispatch(active + 1, lim, waiters, granted)
  <2> DEFINE p == [pc EXCEPT ![a] = "holding"]
  <2>1. Agree(waiters, granted, p)
    BY <1>1, <1>4 DEF Agree, TypeOK, PCs
  <2>2. OwnersOf(granted, p) = OwnersOf(granted, pc) \cup {a}
    BY <1>1 DEF OwnersOf, TypeOK
  <2>3. active + 1 = Cardinality(OwnersOf(granted, p)) /\ active + 1 \in Nat
    <3>1. Cardinality(OwnersOf(granted, p)) = Cardinality(OwnersOf(granted, pc)) + 1
      <4> HIDE DEF p
      <4> QED
        BY <1>4, <2>2, OwnersFinite, FS_AddElement
    <3> QED
      BY <1>1, <3>1 DEF TypeOK
  <2> HIDE DEF p
  <2>4. pc' = p
    BY <1>7 DEF p
  <2> QED
    BY <1>3, <1>7, <2>1, <2>3, <2>4, DispatchSound
<1>8. CASE /\ pc' = [pc EXCEPT ![a] = "queued"]
           /\ Dispatch(active, lim, Append(waiters, a), granted)
  <2> DEFINE p == [pc EXCEPT ![a] = "queued"]
             w == Append(waiters, a)
  <2>1. w \in Seq(Attempts) /\ Len(w) = Len(waiters) + 1
    BY <1>1 DEF Agree
  <2>2. \A b \in Attempts : In(w, b) <=> b = a \/ In(waiters, b)
    BY <1>1, <2>1 DEF In, Agree
  <2>3. \A i, j \in 1..Len(w) : w[i] = w[j] => i = j
    BY <1>1, <1>4, <2>1 DEF In, Agree
  <2>4. Agree(w, granted, p)
    BY <1>1, <1>4, <2>1, <2>2, <2>3 DEF Agree, TypeOK, PCs
  <2>5. OwnersOf(granted, p) = OwnersOf(granted, pc)
    BY <1>1, <1>4 DEF OwnersOf, TypeOK
  <2>6. active \in Nat /\ active = Cardinality(OwnersOf(granted, p))
    BY <1>1, <2>5 DEF TypeOK
  <2> HIDE DEF p, w
  <2>7. pc' = p /\ Dispatch(active, lim, w, granted)
    BY <1>8 DEF p, w
  <2> QED
    BY <1>3, <2>4, <2>6, <2>7, DispatchSound
<1> QED
  BY <1>2, <1>7, <1>8 DEF lim

\* So does leaving the queue.
LEMMA LeaveSound == ASSUME IInv, NEW a \in Attempts, Leave(a) PROVE IInv'
<1>1. Agree(waiters, granted, pc) /\ TypeOK /\ active = Cardinality(OwnersOf(granted, pc))
  BY IInvAgree
<1> DEFINE to == IF followUp[a] THEN "closing" ELSE "idle"
           p == [pc EXCEPT ![a] = to]
           w == RemoveWaiter(waiters, a)
<1>2. pc' = p /\ pc[a] = "leaving" /\ expired' = expired /\ followUp' = followUp
  BY DEF Leave, Return
<1>3. to \in {"idle", "checked", "closing"}
  OBVIOUS
<1>4. CASE granted[a]
  <2>1. a \in Owners /\ GiveSlotBack(a)
    BY <1>4 DEF Leave, Owners
  <2> HIDE DEF to
  <2> QED
    BY <1>1, <1>2, <1>3, <2>1, GiveSlotBackSound DEF TypeOK
<1>5. CASE ~granted[a]
  <2>1. Dispatch(active, limit, w, granted)
    BY <1>5 DEF Leave
  <2>2. /\ w \in Seq(Attempts)
        /\ \A i, j \in 1..Len(w) : w[i] = w[j] => i = j
        /\ \A b \in Attempts : In(w, b) <=> b # a /\ In(waiters, b)
    BY <1>1, RemoveWaiterSound DEF Agree
  <2> HIDE DEF w
  <2>3. Agree(w, granted, p)
    BY <1>1, <1>2, <1>5, <2>2 DEF Agree, TypeOK, PCs
  <2>4. OwnersOf(granted, p) = OwnersOf(granted, pc)
    BY <1>1, <1>2, <1>5 DEF OwnersOf, TypeOK
  <2>5. /\ active \in Nat /\ limit \in Nat \cup {NoEntry}
        /\ active = Cardinality(OwnersOf(granted, p))
    BY <1>1, <2>4 DEF TypeOK
  <2> HIDE DEF p
  <2>6. /\ Agree(waiters', granted', pc')
        /\ active' \in Nat
        /\ active' = Cardinality(OwnersOf(granted', pc'))
        /\ limit' = limit
        /\ waiters' # <<>> => ~HasRoom(active', limit')
    BY <1>2, <2>1, <2>3, <2>5, DispatchSound
  <2>7. TypeOK' /\ NoLostWakeup'
    BY <1>1, <1>2, <2>6 DEF TypeOK, Agree, NoLostWakeup
  <2> QED
    BY <2>6, <2>7, IInvAgreeNext
<1> QED
  BY <1>4, <1>5

\* The invariant is inductive.
LEMMA NextIInv == IInv /\ [Next]_vars => IInv'
<1> SUFFICES ASSUME IInv, [Next]_vars PROVE IInv'
  OBVIOUS
<1>1. TypeOK
  BY DEF IInv
<1>2. CASE UNCHANGED vars
  BY <1>1, <1>2, QuietSound DEF vars, TypeOK
<1>3. ASSUME NEW a \in Attempts, Step(a) PROVE IInv'
  <2>1. CASE Call(a)
    BY <1>1, <2>1, QuietSound DEF Call, TypeOK, PCs
  <2>2. CASE Expire(a)
    BY <1>1, <2>2, QuietSound DEF Expire, TypeOK
  <2>3. CASE Join(a)
    BY <2>3, JoinSound
  <2>4. CASE Wake(a)
    <3>1. granted' = [granted EXCEPT ![a] = FALSE] /\ pc' = [pc EXCEPT ![a] = "holding"]
      BY <2>4 DEF Wake
    <3>2. OwnersOf(granted', pc') = OwnersOf(granted, pc)
      BY <1>1, <2>4, <3>1 DEF Wake, OwnersOf, TypeOK
    <3>3. Agree(waiters', granted', pc')
      <4>1. Agree(waiters, granted, pc) /\ waiters' = waiters
        BY <2>4, IInvAgree DEF Wake
      <4>2. ~In(waiters, a)
        BY <2>4, <4>1 DEF Wake, Agree
      <4> QED
        BY <1>1, <3>1, <4>1, <4>2 DEF Agree, TypeOK, PCs
    <3>4. active' = active /\ limit' = limit /\ waiters' = waiters
      BY <2>4 DEF Wake
    <3>5. TypeOK' /\ NoLostWakeup'
      BY <2>4, <3>3, <3>4 DEF Wake, TypeOK, Agree, IInv, NoLostWakeup
    <3> QED
      BY <3>2, <3>3, <3>4, <3>5, IInvAgree, IInvAgreeNext
  <2>5. CASE WakeTooLate(a)
    BY <1>1, <2>5, QuietSound DEF WakeTooLate, TypeOK, PCs
  <2>6. CASE TakeDone(a)
    BY <1>1, <2>6, QuietSound DEF TakeDone, TypeOK, PCs
  <2>7. CASE Leave(a)
    BY <2>7, LeaveSound
  <2>8. CASE GiveBack(a)
    <3>1. a \in Owners
      BY <2>8 DEF GiveBack, Owners, IInv, QueueSound
    <3> QED
      BY <1>1, <2>8, <3>1, GiveSlotBackSound DEF GiveBack, Return, TypeOK
  <2>9. CASE Release(a)
    BY <1>1, <2>9, GiveSlotBackSound DEF Release, Return, TypeOK, Owners
  <2>10. CASE StartFollowUp(a)
    BY <1>1, <2>10, GiveSlotBackSound DEF StartFollowUp, TypeOK, Owners
  <2>11. CASE Close(a)
    BY <1>1, <2>11, QuietSound DEF Close, TypeOK, PCs
  <2> QED
    BY <1>3, <2>1, <2>2, <2>3, <2>4, <2>5, <2>6, <2>7, <2>8, <2>9, <2>10, <2>11 DEF Step
<1> QED
  BY <1>2, <1>3 DEF Next

\* For every finite set of attempts and every set of limits: the entry stays
\* well formed, the queue holds exactly the parked attempts, the counter is
\* the number of slot owners, and nobody is parked while there is room.
THEOREM LimiterInvariant == Spec => []IInv
<1>1. Init => IInv
  BY InitIInv
<1>2. IInv /\ [Next]_vars => IInv'
  BY NextIInv
<1> QED
  BY <1>1, <1>2, PTL DEF Spec

\* The variables of the limiter keep their shape, for any attempts, keys and limits.
THEOREM TypeCorrect == Spec => []TypeOK
<1>1. IInv => TypeOK
  BY DEF IInv
<1> QED
  BY <1>1, LimiterInvariant, PTL

\* The count of active slots is that of the attempts that own one (Acquire, release).
THEOREM SlotsAccounted == Spec => []SlotAccounting
<1>1. IInv => SlotAccounting
  BY DEF IInv
<1> QED
  BY <1>1, LimiterInvariant, PTL

\* The queue holds each waiting attempt once, and nobody else (enqueue, removeWaiter).
THEOREM QueueIsSound == Spec => []QueueSound
<1>1. IInv => QueueSound
  BY DEF IInv
<1> QED
  BY <1>1, LimiterInvariant, PTL

\* Nobody waits where there is room (dispatchLocked).
THEOREM WakeupsNotLost == Spec => []NoLostWakeup
<1>1. IInv => NoLostWakeup
  BY DEF IInv
<1> QED
  BY <1>1, LimiterInvariant, PTL

-----------------------------------------------------------------------------
\* The order of the queue is the order of the grants, an unlimited entry
\* keeps nobody waiting, and a dispatch that lets somebody in fits the limit.
InOrder(act, lim, w, g) ==
  /\ \A b \in Attempts : \A i \in 1..Len(w) :
       granted'[b] /\ ~g[b] /\ In(waiters', w[i]) => \E k \in 1..(i - 1) : w[k] = b
  /\ \A b \in Attempts : g[b] => granted'[b]
  /\ lim = Unlimited => waiters' = <<>>
  /\ \/ lim = Unlimited
     \/ active' <= lim
     \/ granted' = g /\ active' = act

\* The dispatch grants from the head of the queue.
LEMMA DispatchOrder ==
  ASSUME NEW act \in Nat, NEW lim \in Nat \cup {NoEntry}, NEW w \in Seq(Attempts),
         NEW g \in [Attempts -> BOOLEAN], Dispatch(act, lim, w, g),
         \A i, j \in 1..Len(w) : w[i] = w[j] => i = j
  PROVE  InOrder(act, lim, w, g)
<1> DEFINE n == Grants(act, lim, Len(w))
<1>1. n \in 0..Len(w) /\ Len(w) \in Nat
  <2>1. Len(w) \in Nat
    OBVIOUS
  <2> QED
    BY <2>1, GrantsBounds
<1>2. /\ lim = Unlimited => n = Len(w)
      /\ lim = Unlimited \/ act + n <= lim \/ n = 0
  BY <1>1 DEF Grants, NoEntry, Unlimited
<1> HIDE DEF n
<1>3. /\ active' = act + n
      /\ waiters' = SubSeq(w, n + 1, Len(w))
      /\ granted' = [a \in Attempts |-> g[a] \/ \E i \in 1..n : w[i] = a]
  BY DEF Dispatch, n
<1>4. ASSUME NEW b \in Attempts, NEW i \in 1..Len(w),
             granted'[b], ~g[b], In(waiters', w[i])
      PROVE  \E k \in 1..(i - 1) : w[k] = b
  <2>1. PICK k \in 1..n : w[k] = b
    BY <1>3, <1>4
  <2>2. /\ Len(waiters') = Len(w) - n
        /\ \A j \in 1..(Len(w) - n) : waiters'[j] = w[j + n]
    BY <1>1, <1>3
  <2>3. PICK j \in 1..(Len(w) - n) : w[j + n] = w[i]
    BY <1>4, <2>2 DEF In
  <2>4. j + n \in 1..Len(w) /\ j + n = i
    BY <1>1, <2>3
  <2> QED
    BY <1>1, <2>1, <2>4
<1>5. n = 0 => granted' = g /\ active' = act
  BY <1>3
<1>6. lim = Unlimited => waiters' = <<>>
  BY <1>1, <1>2, <1>3
<1> QED
  BY <1>2, <1>3, <1>4, <1>5, <1>6 DEF InOrder

\* What one step may do to the order of the queue: the body of NoOvertaking.
KeepsOrder ==
  \A a \in Owners' \ Owners : \A i \in 1..Len(waiters) :
    (\E j \in 1..Len(waiters') : waiters'[j] = waiters[i]) =>
      \/ \E k \in 1..(i - 1) : waiters[k] = a
      \/ /\ pc[a] = "checked"
         /\ limit # Unlimited
         /\ limit' > limit

\* The instance counts with its own copy of Cardinality.
LEMMA PoolCardinality == ASSUME NEW S PROVE Pool!Cardinality(S) = Cardinality(S)
BY DEF Pool!Cardinality, Cardinality

\* How a step looks from the slot pool.
PoolStep == Pool!PoolNext \/ UNCHANGED <<Owners, limit>>

\* A release, seen by the queue and the pool.
LEMMA GiveSlotBackStep ==
  ASSUME IInv, IInv', NEW a \in Attempts, a \in Owners, GiveSlotBack(a),
         \A b \in Attempts : b # a => (pc'[b] = "holding" <=> pc[b] = "holding"),
         pc'[a] # "holding"
  PROVE  KeepsOrder /\ PoolStep
<1> DEFINE g == [granted EXCEPT ![a] = FALSE]
           act == OneLess(active)
<1>1. /\ TypeOK /\ TypeOK' /\ active' = Cardinality(Owners')
      /\ \A i, j \in 1..Len(waiters) : waiters[i] = waiters[j] => i = j
      /\ ~In(waiters, a)
  <2>1. ~In(waiters, a)
    BY DEF IInv, QueueSound, Owners, In, Parked
  <2> QED
    BY <2>1 DEF IInv, QueueSound, SlotAccounting
<1>2. g \in [Attempts -> BOOLEAN] /\ act \in Nat /\ limit' = limit
  BY <1>1 DEF TypeOK, OneLess, GiveSlotBack, Dispatch
<1>3. /\ \A b \in Attempts : \A i \in 1..Len(waiters) :
           granted'[b] /\ ~g[b] /\ In(waiters', waiters[i])
             => \E k \in 1..(i - 1) : waiters[k] = b
      /\ \A b \in Attempts : g[b] => granted'[b]
      /\ limit = Unlimited \/ active' <= limit \/ granted' = g
  <2>1. Dispatch(act, limit, waiters, g)
    BY DEF GiveSlotBack
  <2>2. limit \in Nat \cup {NoEntry} /\ waiters \in Seq(Attempts)
    BY <1>1 DEF TypeOK
  <2> HIDE DEF g, act
  <2>3. InOrder(act, limit, waiters, g)
    BY <1>1, <1>2, <2>1, <2>2, DispatchOrder
  <2> QED
    BY <2>3 DEF InOrder
<1>4. ~granted'[a]
  <2>1. granted' = [b \in Attempts |-> g[b] \/
                      \E i \in 1..Grants(act, limit, Len(waiters)) : waiters[i] = b]
    BY DEF GiveSlotBack, Dispatch
  <2>2. limit \in Nat \cup {NoEntry} /\ Len(waiters) \in Nat /\ ~g[a]
    BY <1>1 DEF TypeOK
  <2>3. Grants(act, limit, Len(waiters)) \in 0..Len(waiters)
    <3> HIDE DEF act
    <3> QED
      BY <1>2, <2>2, GrantsBounds
  <2>4. ~\E i \in 1..Grants(act, limit, Len(waiters)) : waiters[i] = a
    <3> HIDE DEF act
    <3> QED
      BY <1>1, <2>2, <2>3 DEF In
  <2> QED
    BY <2>1, <2>2, <2>4
<1>5. KeepsOrder
  BY <1>1, <1>3, <1>4 DEF KeepsOrder, Owners, In, TypeOK
<1>6. Pool!GiveUp(a)
  <2>1. Owners \ {a} \subseteq Owners' /\ Owners' \subseteq Attempts \ {a}
    BY <1>1, <1>3, <1>4 DEF Owners, TypeOK
  <2>2. Owners' # Owners \ {a} => granted' # g
    BY <1>1, <1>4 DEF Owners, TypeOK
  <2>3. Owners' # Owners \ {a} => Pool!Fits(Owners', limit)
    BY <1>1, <1>3, <2>2, PoolCardinality DEF Pool!Fits, Pool!Unlimited, Unlimited
  <2> QED
    BY <1>2, <2>1, <2>3 DEF Pool!GiveUp
<1> QED
  BY <1>5, <1>6 DEF PoolStep, Pool!PoolNext

\* A step that touches neither slots nor queue.
LEMMA QuietStep ==
  ASSUME IInv, UNCHANGED <<limit, waiters>>, Owners' = Owners
  PROVE  KeepsOrder /\ PoolStep
BY DEF KeepsOrder, PoolStep

\* Entering, seen by the queue and the pool.
LEMMA JoinStep ==
  ASSUME IInv, IInv', NEW a \in Attempts, Join(a)
  PROVE  KeepsOrder /\ PoolStep
<1>1. /\ TypeOK /\ TypeOK' /\ active' = Cardinality(Owners') /\ NoLostWakeup
      /\ \A i, j \in 1..Len(waiters) : waiters[i] = waiters[j] => i = j
      /\ pc[a] = "checked" /\ ~granted[a] /\ ~In(waiters, a)
  <2>1. ~granted[a] /\ ~In(waiters, a)
    BY DEF IInv, QueueSound, Join, In, Parked
  <2> QED
    BY <2>1 DEF IInv, QueueSound, SlotAccounting, Join
<1>2. PICK arg \in LimitArgs :
        LET lim == Normalize(arg)
        IN  \/ /\ FastPath(lim)
               /\ pc' = [pc EXCEPT ![a] = "holding"]
               /\ Dispatch(active + 1, lim, waiters, granted)
            \/ /\ ~FastPath(lim)
               /\ pc' = [pc EXCEPT ![a] = "queued"]
               /\ Dispatch(active, lim, Append(waiters, a), granted)
  BY DEF Join
<1> DEFINE lim == Normalize(arg)
<1>3. lim \in Nat /\ limit' = lim
  BY <1>2, LimitArgsInt DEF Normalize, Dispatch
<1>4. (/\ Owners \subseteq Owners'
       /\ Owners' \subseteq Attempts
       /\ Owners' # Owners => Pool!Fits(Owners', lim)) => Pool!Admit
  BY <1>3 DEF Pool!Admit
<1> HIDE DEF lim
<1>5. CASE /\ FastPath(lim)
           /\ pc' = [pc EXCEPT ![a] = "holding"]
           /\ Dispatch(active + 1, lim, waiters, granted)
  <2>1. /\ \A b \in Attempts : \A i \in 1..Len(waiters) :
             granted'[b] /\ ~granted[b] /\ In(waiters', waiters[i])
               => \E k \in 1..(i - 1) : waiters[k] = b
        /\ \A b \in Attempts : granted[b] => granted'[b]
        /\ lim = Unlimited => waiters' = <<>>
        /\ lim = Unlimited \/ active' <= lim \/ active' = active + 1
    <3>1. active + 1 \in Nat /\ granted \in [Attempts -> BOOLEAN] /\ waiters \in Seq(Attempts)
      BY <1>1 DEF TypeOK
    <3>2. InOrder(active + 1, lim, waiters, granted)
      BY <1>1, <1>3, <1>5, <3>1, DispatchOrder
    <3> QED
      BY <3>2 DEF InOrder
  <2>2. \A b \in Owners' \ Owners : b = a \/ (granted'[b] /\ ~granted[b])
    BY <1>1, <1>5 DEF Owners, TypeOK
  <2>3. ASSUME NEW i \in 1..Len(waiters), In(waiters', waiters[i])
        PROVE  limit # Unlimited /\ limit' > limit
    <3>1. waiters # <<>> /\ waiters' # <<>>
      BY <1>1, <2>3 DEF TypeOK, In
    <3>2. limit \in Nat \cup {NoEntry} /\ active \in Nat /\ ~HasRoom(active, limit) /\ HasRoom(active, lim)
      BY <1>1, <1>5, <3>1 DEF TypeOK, NoLostWakeup, FastPath
    <3>3. lim # Unlimited
      BY <2>1, <3>1
    <3> QED
      BY <1>3, <3>2, <3>3 DEF HasRoom, NoEntry, Unlimited
  <2>4. KeepsOrder
    BY <1>1, <2>1, <2>2, <2>3 DEF KeepsOrder, In, Owners
  <2>5. Owners \subseteq Owners' /\ Owners' \subseteq Attempts
    BY <1>1, <1>5, <2>1 DEF Owners, TypeOK
  <2>6. Pool!Fits(Owners', lim)
    <3>1. HasRoom(active, lim)
      BY <1>5 DEF FastPath
    <3> QED
      BY <1>1, <1>3, <2>1, <3>1, PoolCardinality DEF Pool!Fits, Pool!Unlimited, Unlimited, HasRoom, TypeOK
  <2> QED
    BY <1>4, <2>4, <2>5, <2>6 DEF PoolStep, Pool!PoolNext
<1>6. CASE /\ pc' = [pc EXCEPT ![a] = "queued"]
           /\ Dispatch(active, lim, Append(waiters, a), granted)
  <2> DEFINE w == Append(waiters, a)
  <2>1. /\ w \in Seq(Attempts) /\ Len(w) = Len(waiters) + 1 /\ w[Len(w)] = a
        /\ \A i \in 1..Len(waiters) : w[i] = waiters[i]
    BY <1>1 DEF TypeOK
  <2>2. Dispatch(active, lim, w, granted)
    BY <1>6
  <2> HIDE DEF w
  <2>3. \A i, j \in 1..Len(w) : w[i] = w[j] => i = j
    <3>1. Len(waiters) \in Nat /\ \A i \in 1..Len(waiters) : waiters[i] # a
      BY <1>1 DEF In, TypeOK
    <3> QED
      BY <1>1, <2>1, <3>1
  <2>4. /\ \A b \in Attempts : \A i \in 1..Len(w) :
             granted'[b] /\ ~granted[b] /\ In(waiters', w[i]) => \E k \in 1..(i - 1) : w[k] = b
        /\ \A b \in Attempts : granted[b] => granted'[b]
        /\ lim = Unlimited \/ active' <= lim \/ granted' = granted
    <3>1. active \in Nat /\ granted \in [Attempts -> BOOLEAN] /\ lim \in Nat \cup {NoEntry}
      BY <1>1, <1>3 DEF TypeOK
    <3>2. InOrder(active, lim, w, granted)
      BY <2>1, <2>2, <2>3, <3>1, DispatchOrder
    <3> QED
      BY <3>2 DEF InOrder
  <2>5. \A b \in Owners' \ Owners : granted'[b] /\ ~granted[b]
    BY <1>1, <1>6 DEF Owners, TypeOK
  <2>6. KeepsOrder
    <3>1. ASSUME NEW b \in Owners' \ Owners, NEW i \in 1..Len(waiters), In(waiters', waiters[i])
          PROVE  \E k \in 1..(i - 1) : waiters[k] = b
      <4>1. b \in Attempts /\ i \in 1..Len(w) /\ In(waiters', w[i])
        BY <1>1, <2>1, <3>1 DEF Owners, TypeOK
      <4>2. PICK k \in 1..(i - 1) : w[k] = b
        BY <2>4, <2>5, <4>1
      <4>3. k \in 1..Len(waiters)
        BY <1>1 DEF TypeOK
      <4> QED
        BY <2>1, <4>2, <4>3
    <3> QED
      BY <3>1 DEF KeepsOrder, In
  <2>7. Owners \subseteq Owners' /\ Owners' \subseteq Attempts
    BY <1>1, <1>6, <2>4 DEF Owners, TypeOK
  <2>8. Owners' # Owners => Pool!Fits(Owners', lim)
    <3>1. Owners' # Owners => granted' # granted
      BY <1>1, <1>6 DEF Owners, TypeOK
    <3> QED
      BY <1>1, <2>4, <3>1, PoolCardinality DEF Pool!Fits, Pool!Unlimited, Unlimited
  <2> QED
    BY <1>4, <2>6, <2>7, <2>8 DEF PoolStep, Pool!PoolNext
<1> QED
  BY <1>2, <1>5, <1>6 DEF lim

\* A parked attempt that leaves finds the upstream full: nobody is let in.
LEMMA WithdrawStep ==
  ASSUME IInv, NEW a \in Attempts, Leave(a), ~granted[a]
  PROVE  KeepsOrder /\ PoolStep
<1> DEFINE w == RemoveWaiter(waiters, a)
<1>1. /\ TypeOK /\ NoLostWakeup /\ pc[a] = "leaving" /\ In(waiters, a)
      /\ \A i, j \in 1..Len(waiters) : waiters[i] = waiters[j] => i = j
  BY DEF IInv, QueueSound, Leave, Parked, In
<1>2. w \in Seq(Attempts) /\ Len(w) \in Nat
  BY <1>1, RemoveWaiterSound DEF TypeOK
<1> HIDE DEF w
<1>3. Dispatch(active, limit, w, granted)
  BY DEF Leave, w
<1>4. ~HasRoom(active, limit)
  BY <1>1 DEF NoLostWakeup, In, TypeOK
<1>5. Grants(active, limit, Len(w)) = 0
  BY <1>1, <1>4 DEF Grants, HasRoom, TypeOK, NoEntry, Unlimited
<1>6. granted' = granted /\ limit' = limit
  BY <1>1, <1>3, <1>5 DEF Dispatch, TypeOK
<1>7. Owners' = Owners
  BY <1>1, <1>6 DEF Leave, Return, Owners, TypeOK
<1> QED
  BY <1>6, <1>7 DEF KeepsOrder, PoolStep

\* Every step keeps the order of the queue and is a step of the slot pool.
LEMMA StepSound ==
  ASSUME IInv, IInv', [Next]_vars
  PROVE  KeepsOrder /\ PoolStep
<1>1. TypeOK
  BY DEF IInv
<1>2. CASE UNCHANGED vars
  <2>1. Owners' = Owners
    BY <1>2 DEF vars, Owners
  <2> QED
    BY <1>2, <2>1, QuietStep DEF vars
<1>3. ASSUME NEW a \in Attempts, Step(a) PROVE KeepsOrder /\ PoolStep
  <2>1. CASE Call(a)
    BY <1>1, <2>1, QuietStep DEF Call, Owners, TypeOK
  <2>2. CASE Expire(a)
    BY <1>1, <2>2, QuietStep DEF Expire, Owners, TypeOK
  <2>3. CASE Join(a)
    BY <2>3, JoinStep
  <2>4. CASE Wake(a)
    BY <1>1, <2>4, QuietStep DEF Wake, Owners, TypeOK
  <2>5. CASE WakeTooLate(a)
    BY <1>1, <2>5, QuietStep DEF WakeTooLate, Owners, TypeOK
  <2>6. CASE TakeDone(a)
    BY <1>1, <2>6, QuietStep DEF TakeDone, Owners, TypeOK
  <2>7. CASE Leave(a)
    <3>1. CASE granted[a]
      BY <1>1, <2>7, <3>1, GiveSlotBackStep DEF Leave, Return, Owners, TypeOK
    <3>2. CASE ~granted[a]
      BY <2>7, <3>2, WithdrawStep
    <3> QED
      BY <3>1, <3>2
  <2>8. CASE GiveBack(a)
    <3>1. a \in Owners
      BY <2>8 DEF GiveBack, Owners, IInv, QueueSound
    <3> QED
      BY <1>1, <2>8, <3>1, GiveSlotBackStep DEF GiveBack, Return, TypeOK
  <2>9. CASE Release(a)
    BY <1>1, <2>9, GiveSlotBackStep DEF Release, Return, Owners, TypeOK
  <2>10. CASE StartFollowUp(a)
    BY <1>1, <2>10, GiveSlotBackStep DEF StartFollowUp, Owners, TypeOK
  <2>11. CASE Close(a)
    BY <1>1, <2>11, QuietStep DEF Close, Owners, TypeOK
  <2> QED
    BY <1>3, <2>1, <2>2, <2>3, <2>4, <2>5, <2>6, <2>7, <2>8, <2>9, <2>10, <2>11 DEF Step
<1> QED
  BY <1>2, <1>3 DEF Next

\* FIFO for every number of attempts: only a newcomer that raised the limit
\* passes over a parked attempt.
THEOREM QueueIsFair == Spec => NoOvertaking
<1>1. IInv /\ IInv' /\ [Next]_vars => [KeepsOrder]_vars
  BY StepSound
<1>2. Spec => [][KeepsOrder]_vars
  BY <1>1, LimiterInvariant, PTL DEF Spec
<1> QED
  BY <1>2 DEF NoOvertaking, KeepsOrder

\* The limiter implements the slot pool: nobody is let in beyond the limit in
\* force, lowering it evicts nobody, and only its owner gives a slot up.
THEOREM ImplementsSlotPool == Spec => RefinesSlotPool
<1>1. Init => Pool!PoolInit
  <2> SUFFICES ASSUME Init PROVE Pool!PoolInit
    OBVIOUS
  <2>1. Owners = {} /\ limit \in Int
    BY DEF Init, Owners, NoEntry
  <2> QED
    BY <2>1 DEF Pool!PoolInit
<1>2. IInv /\ IInv' /\ [Next]_vars => [Pool!PoolNext]_(Pool!poolVars)
  BY StepSound DEF PoolStep, Pool!poolVars
<1> QED
  BY <1>1, <1>2, LimiterInvariant, PTL DEF Spec, RefinesSlotPool, Pool!PoolSpec
-----------------------------------------------------------------------------
(* The hedged race.  What the client has received is a prefix of what the  *)
(* winner's gate has taken, so the invariant says who may write: nobody is *)
(* won before the coordinator opens a gate, the only gate it opens is the  *)
(* winner's, and from then on the winner's writes and the client's are     *)
(* counted alike until the client has gone.                                *)

\* The loop of runHedge, before it returns a winner.
Racing == hedgePc \in {"top", "select"}

\* The gate of attempt a writes to the client.
Won(a) == att[a].decided = "won"

\* A race that goes on has no winner.
NoWinnerYet == Racing => winner = 0

\* The attempt whose gate is about to be opened.
WinnerNamed == hedgePc = "win" => winner \in AttemptIds

\* A gate that writes to the client is the winner's, and was opened after the race.
OnlyTheWinnerOpens ==
  \A a \in AttemptIds : Won(a) => a = winner /\ ~Racing /\ hedgePc # "win"

\* The client has received nothing before a gate was opened.
NothingBeforeOpening == (\A a \in AttemptIds : ~Won(a)) => client = <<>>

\* What has gone through the gate has reached the client.
InStep == \A a \in AttemptIds : Won(a) /\ ~ctxDone => Len(client) = att[a].chunks

\* The inductive invariant.
RaceInv ==
  /\ RaceTypeOK /\ NoWinnerYet /\ WinnerNamed
  /\ OnlyTheWinnerOpens /\ NothingBeforeOpening /\ InStep /\ ClientSeesOneStream

\* A step that opens no gate and puts nothing through one.
LeavesStream ==
  /\ client' = client
  /\ ctxDone => ctxDone'
  /\ winner' = winner \/ hedgePc = "select"
  /\ Racing' => winner' = 0
  /\ hedgePc' = "win" => winner' \in AttemptIds
  /\ ~Racing /\ hedgePc # "win" => ~Racing' /\ hedgePc' # "win"
  /\ \A a \in AttemptIds : /\ Won(a)' <=> Won(a)
                           /\ Won(a) => att'[a].chunks = att[a].chunks

\* Such a step keeps the invariant.
LEMMA StreamLeft ==
  ASSUME RaceInv, LeavesStream, RaceTypeOK'
  PROVE  RaceInv'
<1> USE DEF RaceInv, LeavesStream
<1>1. NoWinnerYet' /\ WinnerNamed'
  BY DEF NoWinnerYet, WinnerNamed
<1>2. OnlyTheWinnerOpens'
  <2> SUFFICES ASSUME NEW a \in AttemptIds, Won(a)'
               PROVE  a = winner' /\ ~Racing' /\ hedgePc' # "win"
    BY DEF OnlyTheWinnerOpens
  <2>1. Won(a)
    OBVIOUS
  <2>2. a = winner /\ ~Racing /\ hedgePc # "win"
    BY <2>1 DEF OnlyTheWinnerOpens
  <2> QED
    BY <2>2 DEF Racing
<1>3. NothingBeforeOpening'
  BY DEF NothingBeforeOpening
<1>4. InStep'
  <2> SUFFICES ASSUME NEW a \in AttemptIds, Won(a)', ~ctxDone'
               PROVE  Len(client') = att'[a].chunks
    BY DEF InStep
  <2>1. Won(a) /\ ~ctxDone
    OBVIOUS
  <2> QED
    BY <2>1 DEF InStep
<1>5. ClientSeesOneStream'
  <2>1. CASE \E a \in AttemptIds : Won(a)
    <3>1. winner' = winner
      BY <2>1 DEF OnlyTheWinnerOpens, Racing
    <3> QED
      BY <3>1 DEF ClientSeesOneStream
  <2>2. CASE ~\E a \in AttemptIds : Won(a)
    <3>1. client = <<>>
      BY <2>2 DEF NothingBeforeOpening
    <3>2. DOMAIN client = {}
      BY <3>1
    <3> QED
      BY <3>2 DEF ClientSeesOneStream
  <2> QED
    BY <2>1, <2>2
<1> QED
  BY <1>1, <1>2, <1>3, <1>4, <1>5

\* The first state.
LEMMA RaceStarts == RaceInit => RaceInv
<1> SUFFICES ASSUME RaceInit PROVE RaceInv
  OBVIOUS
<1> USE DEF RaceInit
<1>1. \A a \in AttemptIds : att[a] = NewAttempt
  OBVIOUS
<1>2. RaceTypeOK
  <2>1. NewAttempt \in AttemptRecord
    BY PolicySound DEF NewAttempt, AttemptRecord, RunnerStates, ForwarderStates
  <2>2. 0 \in 0..MaxAttempts /\ upsets \in 0..MaxUpsets
    BY PolicySound
  <2>3. {} \subseteq 1..started /\ running \subseteq 1..started /\ sweep \subseteq 1..started
    OBVIOUS
  <2>4. completions \in Seq([a : AttemptIds, err : Errors]) /\ client \in Seq(AttemptIds \X (1..Chunks))
    OBVIOUS
  <2> QED
    BY <2>1, <2>2, <2>3, <2>4 DEF RaceTypeOK
<1>3. \A a \in AttemptIds : ~Won(a)
  BY <1>1 DEF Won, NewAttempt
<1>4. DOMAIN client = {}
  OBVIOUS
<1> QED
  BY <1>2, <1>3, <1>4 DEF RaceInv, NoWinnerYet, WinnerNamed, OnlyTheWinnerOpens,
    NothingBeforeOpening, InStep, ClientSeesOneStream, Racing

\* The operators on an attempt give an attempt; none decides for it, and only
\* an undecided gate loses its buffer.
LEMMA AttemptOperators ==
  ASSUME NEW r \in AttemptRecord
  PROVE  /\ Taken(r) \in AttemptRecord /\ Taken(r).decided = r.decided /\ Taken(r).chunks = r.chunks
         /\ Lost(r) \in AttemptRecord /\ (Lost(r).decided = "won" <=> r.decided = "won")
         /\ r.decided = "won" => Lost(r).chunks = r.chunks
         /\ Cancel(r) \in AttemptRecord /\ (Cancel(r).decided = "won" <=> r.decided = "won")
         /\ r.decided = "won" => Cancel(r).chunks = r.chunks
<1>1. Lost(r) \in AttemptRecord
  <2>1. 0 \in 0..Chunks
    BY PolicySound
  <2>2. [r EXCEPT !.decided = "lost", !.chunks = 0] \in AttemptRecord
    BY <2>1 DEF AttemptRecord
  <2> QED
    BY <2>2 DEF Lost
<1>2. Taken(r) \in AttemptRecord
  BY DEF Taken, AttemptRecord, ForwarderStates
<1>3. Taken(r).decided = r.decided /\ Taken(r).chunks = r.chunks
  BY DEF Taken, AttemptRecord
<1>4. (Lost(r).decided = "won" <=> r.decided = "won") /\ (r.decided = "won" => Lost(r).chunks = r.chunks)
  BY DEF Lost, AttemptRecord
<1> QED
  BY <1>1, <1>2, <1>3, <1>4 DEF Cancel

\* The end of a stream.
LEMMA StreamEndsSound ==
  ASSUME NEW r \in AttemptRecord, NEW how \in {"ok", "error", "rejected", "terminal"}
  PROVE  /\ StreamEnds(r, how) \in AttemptRecord
         /\ StreamEnds(r, how).decided = r.decided /\ StreamEnds(r, how).chunks = r.chunks
BY DEF StreamEnds, AttemptRecord, ForwarderStates

\* One attempt changes; if its decision and what it has put through its gate
\* stand, they do for all.
LEMMA OneAttemptMoves ==
  ASSUME RaceTypeOK, NEW a \in AttemptIds, NEW r \in AttemptRecord,
         att' = [att EXCEPT ![a] = r],
         r.decided = "won" <=> att[a].decided = "won",
         att[a].decided = "won" => r.chunks = att[a].chunks
  PROVE  /\ att' \in [AttemptIds -> AttemptRecord]
         /\ \A b \in AttemptIds : /\ Won(b)' <=> Won(b)
                                  /\ Won(b) => att'[b].chunks = att[b].chunks
<1>1. att \in [AttemptIds -> AttemptRecord]
  BY DEF RaceTypeOK
<1>2. att' \in [AttemptIds -> AttemptRecord]
  BY <1>1
<1>3. \A b \in AttemptIds : att'[b] = IF b = a THEN r ELSE att[b]
  BY <1>1
<1> QED
  BY <1>2, <1>3 DEF Won

\* No attempt changes.
LEMMA NoAttemptMoves ==
  ASSUME att' = att
  PROVE  \A b \in AttemptIds : /\ Won(b)' <=> Won(b)
                               /\ Won(b) => att'[b].chunks = att[b].chunks
BY DEF Won

\* What a completion is.
Completion == [a : AttemptIds, err : Errors]

\* The completions are taken one by one.
LEMMA CompletionTaken ==
  ASSUME RaceTypeOK, completions # <<>>
  PROVE  /\ Head(completions).a \in AttemptIds /\ Head(completions).err \in Errors
         /\ Tail(completions) \in Seq(Completion)
<1>1. completions \in Seq(Completion)
  BY DEF RaceTypeOK, Completion
<1>2. Head(completions) \in Completion /\ Tail(completions) \in Seq(Completion)
  BY <1>1
<1> QED
  BY <1>2 DEF Completion

\* The steps of the coordinator, and of its environment, that touch no attempt.
LEMMA ControlSteps ==
  ASSUME RaceInv,
         DelayPasses \/ LoopHead \/ WakeUp \/ GraceEnds \/ RaceOver \/ WinnerEnds
           \/ Finish \/ ClientLeaves \/ Receive
  PROVE  RaceInv'
<1> SUFFICES RaceTypeOK' /\ LeavesStream
  BY StreamLeft
<1> USE DEF RaceInv
<1>1. CASE DelayPasses
  BY <1>1, NoAttemptMoves DEF DelayPasses, RaceTypeOK, LeavesStream, Racing, NoWinnerYet, WinnerNamed
<1>2. CASE LoopHead
  <2>1. sweep' \subseteq 1..started'
    BY <1>2 DEF LoopHead, RaceTypeOK
  <2> QED
    BY <1>2, <2>1, NoAttemptMoves DEF LoopHead, RaceTypeOK, LeavesStream, Racing, NoWinnerYet, WinnerNamed
<1>3. CASE WakeUp
  BY <1>3, NoAttemptMoves DEF WakeUp, RaceTypeOK, LeavesStream, Racing, NoWinnerYet, WinnerNamed
<1>4. CASE GraceEnds
  <2>1. completions' \in Seq([a : AttemptIds, err : Errors])
    BY <1>4 DEF GraceEnds
  <2> QED
    BY <1>4, <2>1, NoAttemptMoves DEF GraceEnds, RaceTypeOK, LeavesStream, Racing, NoWinnerYet, WinnerNamed
<1>5. CASE RaceOver
  BY <1>5, NoAttemptMoves DEF RaceOver, AfterRace, RaceTypeOK, LeavesStream, Racing, NoWinnerYet, WinnerNamed
<1>6. CASE WinnerEnds
  BY <1>6, NoAttemptMoves DEF WinnerEnds, RaceTypeOK, LeavesStream, Racing, NoWinnerYet, WinnerNamed
<1>7. CASE Finish
  BY <1>7, NoAttemptMoves DEF Finish, RaceTypeOK, LeavesStream, Racing, NoWinnerYet, WinnerNamed
<1>8. CASE ClientLeaves
  BY <1>8, NoAttemptMoves, PolicySound
  DEF ClientLeaves, Upset, handler, RaceTypeOK, LeavesStream, Racing, NoWinnerYet, WinnerNamed
<1>9. CASE Receive
  <2> DEFINE c == Head(completions)
  <2>1. completions # <<>> /\ hedgePc = "select"
    BY <1>9 DEF Receive
  <2>2. c.a \in AttemptIds /\ c.err \in Errors /\ Tail(completions) \in Seq(Completion)
    BY <2>1, CompletionTaken
  <2>3. /\ running' = running \ {c.a}
        /\ outcome' = [outcome EXCEPT ![c.a] = Judged(c)]
        /\ completions' = Tail(completions)
        /\ UNCHANGED <<ctxDone, started, sweep, visiting, att, upsets, client>>
    BY <1>9 DEF Receive
  <2>4. \/ hedgePc' = "collect" /\ winner' = winner /\ ending' = "aborted" /\ due' = FALSE
        \/ hedgePc' = "win" /\ winner' = c.a /\ ending' = "won" /\ due' = FALSE
        \/ hedgePc' = "top" /\ winner' = winner /\ ending' = ending /\ due' \in BOOLEAN
    <3>1. due \in BOOLEAN
      BY DEF RaceTypeOK
    <3>2. \A room \in BOOLEAN : due' = (due \/ room) => due' \in BOOLEAN
      BY <3>1
    <3> QED
      BY <1>9, <3>2 DEF Receive
  <2>5. Judged(c) \in Outcomes
    BY DEF Judged, Outcomes
  <2> HIDE DEF c
  <2>6. RaceTypeOK'
    <3>1. outcome' \in [AttemptIds -> Outcomes \cup {"none"}]
      BY <2>3, <2>5 DEF RaceTypeOK
    <3>2. completions' \in Seq([a : AttemptIds, err : Errors])
      BY <2>2, <2>3 DEF Completion
    <3>3. winner' \in 0..MaxAttempts
      BY <2>2, <2>4, PolicySound DEF RaceTypeOK, AttemptIds
    <3>4. hedgePc' \in {"top", "win", "collect"} /\ ending' \in {"none", "won", "exhausted", "aborted"}
          /\ due' \in BOOLEAN
      BY <2>4 DEF RaceTypeOK
    <3> QED
      BY <2>3, <3>1, <3>2, <3>3, <3>4 DEF RaceTypeOK
  <2>7. LeavesStream
    BY <2>1, <2>2, <2>3, <2>4, NoAttemptMoves DEF LeavesStream, Racing, NoWinnerYet
  <2> QED
    BY <2>6, <2>7
<1> QED
  BY <1>1, <1>2, <1>3, <1>4, <1>5, <1>6, <1>7, <1>8, <1>9

\* The coordinator starts an attempt.
LEMMA LaunchStep == ASSUME RaceInv, Launch PROVE RaceInv'
<1> USE DEF RaceInv
<1> DEFINE n == started + 1
           r == [att[n] EXCEPT !.runner = "prepare"]
<1>1. started \in 0..MaxAttempts /\ running \subseteq 1..started /\ sweep \subseteq 1..started
      /\ att \in [AttemptIds -> AttemptRecord]
  BY DEF RaceTypeOK
<1>2. n \in AttemptIds /\ n \in 0..MaxAttempts /\ 1..started \subseteq 1..n /\ n \in 1..n
  BY <1>1, PolicySound DEF Launch, RoomLeft, AttemptIds
<1>3. r \in AttemptRecord /\ r.decided = att[n].decided /\ r.chunks = att[n].chunks
  BY <1>1, <1>2 DEF AttemptRecord, RunnerStates
<1>4. att' = [att EXCEPT ![n] = r]
  BY DEF Launch
<1> HIDE DEF r
<1>5. /\ att' \in [AttemptIds -> AttemptRecord]
      /\ \A b \in AttemptIds : (Won(b)' <=> Won(b)) /\ (Won(b) => att'[b].chunks = att[b].chunks)
  BY <1>2, <1>3, <1>4, OneAttemptMoves
<1>6. started' = n /\ running' = running \cup {n} /\ due' = FALSE
      /\ UNCHANGED <<hedgePc, ctxDone, completions, outcome, winner, ending, sweep, visiting, upsets, client>>
  BY DEF Launch
<1> HIDE DEF n
<1>7. RaceTypeOK'
  BY <1>1, <1>2, <1>5, <1>6 DEF RaceTypeOK
<1>8. LeavesStream
  BY <1>5, <1>6 DEF LeavesStream, Racing, NoWinnerYet, WinnerNamed
<1> QED
  BY <1>7, <1>8, StreamLeft

\* The coordinator puts an attempt aside.
LEMMA AsideSteps ==
  ASSUME RaceInv, Collect \/ (\E a \in AttemptIds : GiveUpOn(a)) \/ (\E a \in AttemptIds : VisitLoser(a))
  PROVE  RaceInv'
<1> SUFFICES RaceTypeOK' /\ LeavesStream
  BY StreamLeft
<1> USE DEF RaceInv
<1>1. att \in [AttemptIds -> AttemptRecord]
  BY DEF RaceTypeOK
<1>2. ASSUME NEW a \in AttemptIds, att' = [att EXCEPT ![a] = Cancel(@)]
      PROVE  /\ att' \in [AttemptIds -> AttemptRecord]
             /\ \A b \in AttemptIds : (Won(b)' <=> Won(b)) /\ (Won(b) => att'[b].chunks = att[b].chunks)
  <2>1. att[a] \in AttemptRecord
    BY <1>1
  <2>2. att' = [att EXCEPT ![a] = Cancel(att[a])]
    BY <1>2
  <2> QED
    BY <2>1, <2>2, AttemptOperators, OneAttemptMoves
<1>3. CASE Collect
  <2> DEFINE c == Head(completions)
  <2>1. c.a \in AttemptIds /\ c.err \in Errors /\ Tail(completions) \in Seq(Completion)
    BY <1>3, CompletionTaken DEF Collect
  <2>2. /\ running' = running \ {c.a}
        /\ outcome' = [outcome EXCEPT ![c.a] = Collected(c)]
        /\ att' = [att EXCEPT ![c.a] = Cancel(@)]
        /\ completions' = Tail(completions)
        /\ UNCHANGED <<hedgePc, ctxDone, started, due, winner, ending, sweep, visiting, upsets, client>>
    BY <1>3 DEF Collect
  <2>3. Collected(c) \in Outcomes
    BY <2>1 DEF Collected, Outcomes, Errors
  <2> HIDE DEF c
  <2>4. /\ att' \in [AttemptIds -> AttemptRecord]
        /\ \A b \in AttemptIds : (Won(b)' <=> Won(b)) /\ (Won(b) => att'[b].chunks = att[b].chunks)
    BY <1>2, <2>1, <2>2
  <2>5. outcome' \in [AttemptIds -> Outcomes \cup {"none"}]
    BY <2>2, <2>3 DEF RaceTypeOK
  <2>6. completions' \in Seq([a : AttemptIds, err : Errors])
    BY <2>1, <2>2 DEF Completion
  <2>7. RaceTypeOK'
    BY <2>2, <2>4, <2>5, <2>6 DEF RaceTypeOK
  <2> QED
    BY <2>7, <2>2, <2>4 DEF LeavesStream, Racing, NoWinnerYet, WinnerNamed
<1>4. ASSUME NEW a \in AttemptIds, GiveUpOn(a) PROVE RaceTypeOK' /\ LeavesStream
  <2>1. /\ running' = running \ {a}
        /\ outcome' = [outcome EXCEPT ![a] = IF winner # 0 THEN "lost" ELSE "canceled"]
        /\ att' = [att EXCEPT ![a] = Cancel(@)]
        /\ UNCHANGED <<hedgePc, ctxDone, started, due, completions, winner, ending, sweep, visiting, upsets, client>>
    BY <1>4 DEF GiveUpOn
  <2>2. /\ att' \in [AttemptIds -> AttemptRecord]
        /\ \A b \in AttemptIds : (Won(b)' <=> Won(b)) /\ (Won(b) => att'[b].chunks = att[b].chunks)
    BY <1>2, <2>1
  <2>3. outcome' \in [AttemptIds -> Outcomes \cup {"none"}]
    BY <2>1 DEF RaceTypeOK, Outcomes
  <2>4. RaceTypeOK'
    BY <2>1, <2>2, <2>3 DEF RaceTypeOK
  <2> QED
    BY <2>4, <2>1, <2>2 DEF LeavesStream, Racing, NoWinnerYet, WinnerNamed
<1>5. ASSUME NEW a \in AttemptIds, VisitLoser(a) PROVE RaceTypeOK' /\ LeavesStream
  <2>1. /\ hedgePc = "cleanup" /\ hedgePc' \in {"take", "cleanup"}
        /\ visiting' \in {a, visiting}
        /\ sweep' = sweep \ {a}
        /\ att' = [att EXCEPT ![a] = Cancel(@)]
        /\ UNCHANGED <<ctxDone, started, running, due, completions, outcome, winner, ending, upsets, client>>
    BY <1>5 DEF VisitLoser
  <2>2. /\ att' \in [AttemptIds -> AttemptRecord]
        /\ \A b \in AttemptIds : (Won(b)' <=> Won(b)) /\ (Won(b) => att'[b].chunks = att[b].chunks)
    BY <1>2, <2>1
  <2>3. visiting' \in 0..MaxAttempts
    BY <2>1, PolicySound DEF RaceTypeOK, AttemptIds
  <2>4. RaceTypeOK'
    BY <2>1, <2>2, <2>3 DEF RaceTypeOK
  <2> QED
    BY <2>4, <2>1, <2>2 DEF LeavesStream, Racing, NoWinnerYet, WinnerNamed
<1> QED
  BY <1>3, <1>4, <1>5

\* The coordinator takes the result of the loser it visits.
LEMMA TakeStep == ASSUME RaceInv, TakeResult PROVE RaceInv'
<1> USE DEF RaceInv
<1>1. att \in [AttemptIds -> AttemptRecord]
  BY DEF RaceTypeOK
<1>2. /\ hedgePc = "take" /\ hedgePc' = "cleanup" /\ visiting' = 0
      /\ att' = [att EXCEPT ![visiting] = Taken(@)]
      /\ UNCHANGED <<ctxDone, started, running, due, completions, outcome, winner, ending, sweep, upsets, client>>
  BY DEF TakeResult
<1>3. /\ att' \in [AttemptIds -> AttemptRecord]
      /\ \A b \in AttemptIds : (Won(b)' <=> Won(b)) /\ (Won(b) => att'[b].chunks = att[b].chunks)
  <2>1. CASE visiting \in AttemptIds
    <3>1. att[visiting] \in AttemptRecord /\ att' = [att EXCEPT ![visiting] = Taken(att[visiting])]
      BY <2>1, <1>1, <1>2
    <3> QED
      BY <2>1, <3>1, AttemptOperators, OneAttemptMoves
  <2>2. CASE visiting \notin AttemptIds
    <3>1. att' = att
      BY <2>2, <1>1, <1>2
    <3> QED
      BY <3>1, <1>1, NoAttemptMoves
  <2> QED
    BY <2>1, <2>2
<1>4. RaceTypeOK'
  BY <1>2, <1>3, PolicySound DEF RaceTypeOK
<1>5. LeavesStream
  BY <1>2, <1>3 DEF LeavesStream, Racing, NoWinnerYet, WinnerNamed
<1> QED
  BY <1>4, <1>5, StreamLeft

\* The coordinator opens the winner's gate: what it holds is what the client
\* receives, and it has received nothing before.
LEMMA OpenGateStep == ASSUME RaceInv, OpenGate PROVE RaceInv'
<1> USE DEF RaceInv
<1> DEFINE r == att[winner]
           buffered == [i \in 1..r.chunks |-> <<winner, i>>]
<1>1. att \in [AttemptIds -> AttemptRecord]
  BY DEF RaceTypeOK
<1>2. hedgePc = "win" /\ hedgePc' = "collect"
      /\ UNCHANGED <<ctxDone, started, running, due, completions, outcome, winner, ending, sweep, visiting, upsets>>
  BY DEF OpenGate
<1>3. winner \in AttemptIds /\ r \in AttemptRecord /\ winner' = winner
  BY <1>1, <1>2 DEF WinnerNamed
<1>4. \A a \in AttemptIds : ~Won(a)
  BY <1>2 DEF OnlyTheWinnerOpens
<1>5. client = <<>>
  BY <1>4 DEF NothingBeforeOpening
<1>6. CASE UNCHANGED <<att, client>>
  <2>1. RaceTypeOK'
    BY <1>2, <1>6 DEF RaceTypeOK
  <2>2. LeavesStream
    BY <1>2, <1>6, NoAttemptMoves DEF LeavesStream, Racing
  <2> QED
    BY <2>1, <2>2, StreamLeft
<1>7. CASE att' = [att EXCEPT ![winner].decided = "failed"] /\ client' = client
  <2> DEFINE f == [r EXCEPT !.decided = "failed"]
  <2>1. f \in AttemptRecord /\ f.decided = "failed"
    BY <1>3 DEF AttemptRecord
  <2>2. att' = [att EXCEPT ![winner] = f] /\ ~(att[winner].decided = "won")
    BY <1>3, <1>4, <1>7 DEF Won
  <2> HIDE DEF f
  <2>3. /\ att' \in [AttemptIds -> AttemptRecord]
        /\ \A b \in AttemptIds : (Won(b)' <=> Won(b)) /\ (Won(b) => att'[b].chunks = att[b].chunks)
    BY <1>3, <2>1, <2>2, OneAttemptMoves
  <2>4. RaceTypeOK'
    BY <1>2, <1>7, <2>3 DEF RaceTypeOK
  <2>5. LeavesStream
    BY <1>2, <1>7, <2>3 DEF LeavesStream, Racing
  <2> QED
    BY <2>4, <2>5, StreamLeft
<1>8. CASE /\ ~ctxDone
           /\ att' = [att EXCEPT ![winner].decided = "won"]
           /\ client' = client \o buffered
  <2> DEFINE n == r.chunks
  <2>1. n \in 0..Chunks /\ n \in Nat /\ 1..n \subseteq 1..Chunks
    BY <1>3, PolicySound DEF AttemptRecord
  <2>2. buffered \in Seq(AttemptIds \X (1..Chunks)) /\ Len(buffered) = n
        /\ \A i \in DOMAIN buffered : buffered[i] = <<winner, i>>
    <3>1. \A i \in 1..n : <<winner, i>> \in AttemptIds \X (1..Chunks)
      BY <1>3, <2>1
    <3> HIDE DEF n
    <3>2. DEFINE g == [i \in 1..n |-> <<winner, i>>]
    <3>3. g \in Seq(AttemptIds \X (1..Chunks)) /\ Len(g) = n /\ DOMAIN g = 1..n
      BY <3>1, <2>1
    <3> QED
      BY <3>3 DEF n
  <2>3. client' = buffered
    <3> HIDE DEF buffered
    <3> QED
      BY <1>5, <1>8, <2>2
  <2>4. \A a \in AttemptIds : att'[a] = IF a = winner THEN [r EXCEPT !.decided = "won"] ELSE att[a]
    BY <1>1, <1>3, <1>8
  <2>5. [r EXCEPT !.decided = "won"] \in AttemptRecord /\ [r EXCEPT !.decided = "won"].chunks = n
    BY <1>3 DEF AttemptRecord
  <2>6. att' \in [AttemptIds -> AttemptRecord]
    BY <1>1, <1>3, <1>8, <2>5
  <2> HIDE DEF buffered, n
  <2>7. RaceTypeOK'
    BY <1>2, <2>2, <2>3, <2>6 DEF RaceTypeOK
  <2>8. \A a \in AttemptIds : Won(a)' => a = winner
    BY <2>4, <1>4 DEF Won
  <2>9. Won(winner)' /\ att'[winner].chunks = n
    BY <2>4, <2>5, <1>3 DEF Won, AttemptRecord
  <2>10. NoWinnerYet' /\ WinnerNamed' /\ OnlyTheWinnerOpens'
    BY <1>2, <2>8 DEF NoWinnerYet, WinnerNamed, OnlyTheWinnerOpens, Racing
  <2>11. NothingBeforeOpening' /\ InStep'
    BY <2>2, <2>3, <2>8, <2>9, <1>3 DEF NothingBeforeOpening, InStep
  <2>12. ClientSeesOneStream'
    BY <2>2, <2>3, <1>3 DEF ClientSeesOneStream
  <2> QED
    BY <2>7, <2>10, <2>11, <2>12
<1> QED
  BY <1>6, <1>7, <1>8 DEF OpenGate

\* What an attempt's goroutines leave alone.
Others ==
  UNCHANGED <<hedgePc, ctxDone, started, running, due, outcome, winner, ending, sweep, visiting>>

\* A step of an attempt's goroutine that leaves its gate as it is.
LEMMA GoroutineStep ==
  ASSUME RaceInv, Others, NEW a \in AttemptIds, NEW r \in AttemptRecord,
         att' = [att EXCEPT ![a] = r],
         r.decided = "won" <=> att[a].decided = "won",
         att[a].decided = "won" => r.chunks = att[a].chunks,
         completions' \in Seq(Completion), upsets' \in 0..MaxUpsets, client' = client
  PROVE  RaceInv'
<1> USE DEF RaceInv
<1>1. /\ att' \in [AttemptIds -> AttemptRecord]
      /\ \A b \in AttemptIds : (Won(b)' <=> Won(b)) /\ (Won(b) => att'[b].chunks = att[b].chunks)
  BY OneAttemptMoves
<1>2. completions' \in Seq([a : AttemptIds, err : Errors])
  BY DEF Completion
<1>3. RaceTypeOK'
  BY <1>1, <1>2 DEF RaceTypeOK, Others
<1>4. LeavesStream
  BY <1>1 DEF LeavesStream, Racing, NoWinnerYet, WinnerNamed, Others
<1> QED
  BY <1>3, <1>4, StreamLeft

\* The bound on what is unusual.
LEMMA UpsetsBounded ==
  ASSUME RaceTypeOK, Usual \/ Upset
  PROVE  upsets' \in 0..MaxUpsets
BY PolicySound DEF RaceTypeOK, Usual, Upset

\* A runner reports and is done.
LEMMA ReportsSound ==
  ASSUME RaceTypeOK, NEW a \in AttemptIds, NEW r \in AttemptRecord, NEW err \in Errors, Reports(a, r, err)
  PROVE  /\ att' = [att EXCEPT ![a] = [r EXCEPT !.runner = "done"]]
         /\ [r EXCEPT !.runner = "done"] \in AttemptRecord
         /\ [r EXCEPT !.runner = "done"].decided = r.decided
         /\ [r EXCEPT !.runner = "done"].chunks = r.chunks
         /\ completions' \in Seq(Completion)
<1>1. completions \in Seq(Completion)
  BY DEF RaceTypeOK, Completion
<1>2. [a |-> a, err |-> err] \in Completion
  BY DEF Completion
<1>3. completions' \in Seq(Completion)
  BY <1>1, <1>2 DEF Reports
<1>4. /\ [r EXCEPT !.runner = "done"] \in AttemptRecord
      /\ [r EXCEPT !.runner = "done"].decided = r.decided
      /\ [r EXCEPT !.runner = "done"].chunks = r.chunks
  BY DEF AttemptRecord, RunnerStates
<1> QED
  BY <1>3, <1>4 DEF Reports

\* The runner of an attempt.
LEMMA RunnerStep == ASSUME RaceInv, NEW a \in AttemptIds, Runner(a) PROVE RaceInv'
<1> USE DEF RaceInv
<1> DEFINE s == att[a]
<1>1. s \in AttemptRecord /\ completions \in Seq(Completion)
  BY DEF RaceTypeOK, Completion
<1>2. Others /\ client' = client
  BY DEF Runner, handler, Others
<1>3. upsets' \in 0..MaxUpsets
  BY UpsetsBounded DEF Runner, Prepare, Usual
<1>4. ASSUME NEW r \in AttemptRecord, NEW err \in Errors, Reports(a, r, err),
             r.decided = "won" <=> s.decided = "won", s.decided = "won" => r.chunks = s.chunks
      PROVE  RaceInv'
  <2> DEFINE d == [r EXCEPT !.runner = "done"]
  <2>1. /\ att' = [att EXCEPT ![a] = d] /\ d \in AttemptRecord
        /\ d.decided = r.decided /\ d.chunks = r.chunks /\ completions' \in Seq(Completion)
    BY <1>4, ReportsSound
  <2> HIDE DEF d
  <2> QED
    BY <2>1, <1>2, <1>3, <1>4, GoroutineStep
<1>5. ASSUME NEW r \in AttemptRecord, att' = [att EXCEPT ![a] = r], r.decided = s.decided, r.chunks = s.chunks,
             completions' = completions
      PROVE  RaceInv'
  BY <1>1, <1>2, <1>3, <1>5, GoroutineStep
<1>6. "error" \in Errors /\ "stopped" \in Errors /\ "nil" \in Errors /\ "canceled" \in Errors
      /\ Returned(s) \in Errors
  BY DEF Errors, Returned
<1>7. CASE Prepare(a)
  <2> DEFINE r == [s EXCEPT !.runner = "select", !.fwd = "streaming"]
  <2>1. CASE Reports(a, s, "error") \/ Reports(a, s, "stopped")
    <3> HIDE DEF s
    <3> QED
      BY <2>1, <1>1, <1>4, <1>6
  <2>2. CASE /\ att' = [att EXCEPT ![a].runner = "select", ![a].fwd = "streaming"]
             /\ completions' = completions
    <3>1. r \in AttemptRecord /\ r.decided = s.decided /\ r.chunks = s.chunks
      BY <1>1 DEF AttemptRecord, RunnerStates, ForwarderStates
    <3>2. att' = [att EXCEPT ![a] = r]
      BY <2>2 DEF RaceTypeOK
    <3> HIDE DEF r, s
    <3> QED
      BY <3>1, <3>2, <2>2, <1>5
  <2> QED
    BY <1>7, <2>1, <2>2 DEF Prepare
<1>8. ASSUME NEW w \in RunnerStates, att' = [att EXCEPT ![a].runner = w], completions' = completions
      PROVE  RaceInv'
  <2> DEFINE r == [s EXCEPT !.runner = w]
  <2>1. r \in AttemptRecord /\ r.decided = s.decided /\ r.chunks = s.chunks
    BY <1>1 DEF AttemptRecord
  <2>2. att' = [att EXCEPT ![a] = r]
    BY <1>8
  <2> HIDE DEF r, s
  <2> QED
    BY <2>1, <2>2, <1>8, <1>5
<1>9. "await" \in RunnerStates /\ "receive" \in RunnerStates
  BY DEF RunnerStates
<1>10. Reports(a, s, Returned(s)) \/ Reports(a, s, "nil") => RaceInv'
  <2> HIDE DEF s
  <2> QED
    BY <1>1, <1>4, <1>6
<1>11. CASE GateSignals(a)
  BY <1>11, <1>8, <1>9, <1>10 DEF GateSignals
<1>12. CASE Await(a)
  BY <1>12, <1>8, <1>9, <1>10 DEF Await
<1>13. Taken(s) \in AttemptRecord /\ Taken(s).decided = s.decided /\ Taken(s).chunks = s.chunks
  BY <1>1, AttemptOperators
<1>14. CASE ReceiveResult(a)
  <2>1. Reports(a, Taken(s), "nil")
    BY <1>14 DEF ReceiveResult
  <2> HIDE DEF s
  <2> QED
    BY <2>1, <1>4, <1>6, <1>13
<1>15. CASE StreamDone(a)
  <2>1. Reports(a, Taken(s), Returned(s))
    BY <1>15 DEF StreamDone
  <2> HIDE DEF s
  <2> QED
    BY <2>1, <1>4, <1>6, <1>13
<1>16. CASE RunnerCanceled(a)
  <2>1. Reports(a, Lost(s), "canceled")
    BY <1>16 DEF RunnerCanceled
  <2> HIDE DEF s
  <2>2. Lost(s) \in AttemptRecord /\ (Lost(s).decided = "won" <=> s.decided = "won")
        /\ (s.decided = "won" => Lost(s).chunks = s.chunks)
    BY <1>1, AttemptOperators
  <2> QED
    BY <2>1, <2>2, <1>4, <1>6
<1> QED
  BY <1>7, <1>11, <1>12, <1>14, <1>15, <1>16 DEF Runner

\* A write that is buffered: the gate is undecided before and after it.
LEMMA BufferedStep ==
  ASSUME RaceInv, Others, completions' = completions, NEW a \in AttemptIds, Write(a), WriteBuffered(a)
  PROVE  RaceInv'
<1> USE DEF RaceInv
<1> DEFINE s == att[a]
           r == [s EXCEPT !.chunks = @ + 1]
           d == [s EXCEPT !.verdict = "rejected"]
<1>1. s \in AttemptRecord /\ completions' \in Seq(Completion)
  BY DEF RaceTypeOK, Completion
<1>2. s.decided = "no" /\ s.chunks < Chunks /\ client' = client
  BY DEF Write, WriteBuffered
<1>3. upsets' \in 0..MaxUpsets
  BY UpsetsBounded DEF WriteBuffered
<1>4. s.chunks + 1 \in 0..Chunks
  BY <1>1, <1>2, PolicySound DEF AttemptRecord
<1>5. r \in AttemptRecord /\ r.decided = "no"
  BY <1>1, <1>2, <1>4 DEF AttemptRecord
<1>6. [r EXCEPT !.verdict = "accepted", !.fwd = "parked"] \in AttemptRecord
      /\ [r EXCEPT !.verdict = "accepted", !.fwd = "parked"].decided = "no"
  <2> HIDE DEF r
  <2> QED
    BY <1>5 DEF AttemptRecord, ForwarderStates
<1>7. d \in AttemptRecord /\ d.decided = "no"
  BY <1>1, <1>2 DEF AttemptRecord
<1>8. \E e \in AttemptRecord : e.decided = "no" /\ att' = [att EXCEPT ![a] = e]
  <2>1. StreamEnds(d, "rejected") \in AttemptRecord /\ StreamEnds(d, "rejected").decided = "no"
    <3> HIDE DEF d
    <3> QED
      BY <1>7, StreamEndsSound
  <2>2. StreamEnds(s, "rejected") \in AttemptRecord /\ StreamEnds(s, "rejected").decided = "no"
    <3> HIDE DEF s
    <3> QED
      BY <1>1, <1>2, StreamEndsSound
  <2>3. \/ att' = [att EXCEPT ![a] = r]
        \/ att' = [att EXCEPT ![a] = [r EXCEPT !.verdict = "accepted", !.fwd = "parked"]]
        \/ att' = [att EXCEPT ![a] = StreamEnds(d, "rejected")]
        \/ att' = [att EXCEPT ![a] = StreamEnds(s, "rejected")]
    BY DEF WriteBuffered
  <2> HIDE DEF s, r, d
  <2> QED
    BY <2>1, <2>2, <2>3, <1>5, <1>6
<1>9. PICK e \in AttemptRecord : e.decided = "no" /\ att' = [att EXCEPT ![a] = e]
  BY <1>8
<1> QED
  BY <1>1, <1>2, <1>3, <1>9, GoroutineStep

\* A write that goes straight to the client is the winner's next one.
LEMMA ThroughStep ==
  ASSUME RaceInv, Others, completions' = completions, NEW a \in AttemptIds, Write(a), WriteThrough(a)
  PROVE  RaceInv'
<1> USE DEF RaceInv
<1> DEFINE n == att[a].chunks
<1>1. att \in [AttemptIds -> AttemptRecord] /\ client \in Seq(AttemptIds \X (1..Chunks))
  BY DEF RaceTypeOK
<1>2. Won(a) /\ n < Chunks /\ upsets' = upsets
  BY DEF Won, Write, WriteThrough, Usual
<1>3. n \in 0..Chunks /\ n + 1 \in 0..Chunks /\ n + 1 \in 1..Chunks
  BY <1>1, <1>2, PolicySound DEF AttemptRecord
<1>4. a = winner /\ ~Racing /\ hedgePc # "win"
  BY <1>2 DEF OnlyTheWinnerOpens
<1>5. \A b \in AttemptIds : att'[b] = IF b = a THEN [att[a] EXCEPT !.chunks = n + 1] ELSE att[b]
  BY <1>1 DEF WriteThrough
<1>6. [att[a] EXCEPT !.chunks = n + 1] \in AttemptRecord
  BY <1>1, <1>3 DEF AttemptRecord
<1>7. att' \in [AttemptIds -> AttemptRecord]
  BY <1>1, <1>6 DEF WriteThrough
<1>8. att'[a].chunks = n + 1 /\ \A b \in AttemptIds : Won(b)' <=> Won(b)
  BY <1>1, <1>5 DEF Won, AttemptRecord
<1>9. client' = IF ctxDone THEN client ELSE Append(client, <<a, n + 1>>)
  BY DEF WriteThrough
<1> HIDE DEF n
<1>10. <<a, n + 1>> \in AttemptIds \X (1..Chunks)
  BY <1>3
<1>11. client' \in Seq(AttemptIds \X (1..Chunks))
  BY <1>1, <1>9, <1>10
<1>12. RaceTypeOK'
  BY <1>2, <1>7, <1>11 DEF RaceTypeOK, Others
<1>13. NoWinnerYet' /\ WinnerNamed' /\ OnlyTheWinnerOpens' /\ NothingBeforeOpening'
  BY <1>2, <1>4, <1>8 DEF NoWinnerYet, WinnerNamed, OnlyTheWinnerOpens, NothingBeforeOpening, Others, Racing
<1>14. ~ctxDone => Len(client) = n
  BY <1>2 DEF InStep, n
<1>15. InStep'
  <2> SUFFICES ASSUME NEW b \in AttemptIds, Won(b)', ~ctxDone' PROVE Len(client') = att'[b].chunks
    BY DEF InStep
  <2>1. b = a
    BY <1>4, <1>8 DEF OnlyTheWinnerOpens
  <2>2. Len(client') = n + 1
    BY <1>1, <1>9, <1>10, <1>14 DEF Others
  <2> QED
    BY <2>1, <2>2, <1>8
<1>16. ClientSeesOneStream'
  <2>1. CASE ctxDone
    BY <2>1, <1>9 DEF ClientSeesOneStream, Others
  <2>2. CASE ~ctxDone
    <3>1. /\ client' = Append(client, <<a, n + 1>>) /\ Len(client) = n
          /\ DOMAIN client = 1..n /\ DOMAIN client' = 1..n + 1
      BY <2>2, <1>1, <1>9, <1>10, <1>14
    <3>2. \A i \in 1..n : client'[i] = client[i]
      BY <3>1, <1>1, <1>10
    <3>3. client'[n + 1] = <<a, n + 1>>
      BY <3>1, <1>1, <1>3, <1>10
    <3>4. \A i \in 1..n + 1 : i = n + 1 \/ i \in 1..n
      BY <1>3
    <3>5. winner' = a /\ winner = a
      BY <1>4 DEF Others
    <3> QED
      BY <3>1, <3>2, <3>3, <3>4, <3>5 DEF ClientSeesOneStream
  <2> QED
    BY <2>1, <2>2
<1> QED
  BY <1>12, <1>13, <1>15, <1>16

\* The forwarder of an attempt, and the prefix timer.
LEMMA ForwarderStep ==
  ASSUME RaceInv, NEW a \in AttemptIds, Forwarder(a) \/ PrefixTimer(a)
  PROVE  RaceInv'
<1> USE DEF RaceInv
<1> DEFINE s == att[a]
           d == [s EXCEPT !.verdict = "rejected"]
<1>1. s \in AttemptRecord /\ att \in [AttemptIds -> AttemptRecord]
  BY DEF RaceTypeOK
<1>2. Others /\ completions' = completions
  BY DEF Forwarder, PrefixTimer, handler, Others
<1>3. completions' \in Seq(Completion)
  BY <1>2 DEF RaceTypeOK, Completion
<1>4. ASSUME NEW r \in AttemptRecord, att' = [att EXCEPT ![a] = r], r.decided = s.decided, r.chunks = s.chunks,
             client' = client, upsets' \in 0..MaxUpsets
      PROVE  RaceInv'
  BY <1>1, <1>2, <1>3, <1>4, GoroutineStep
<1>5. upsets \in 0..MaxUpsets /\ (Usual \/ Upset => upsets' \in 0..MaxUpsets)
  BY UpsetsBounded DEF RaceTypeOK
<1>6. ASSUME NEW how \in {"ok", "error", "rejected", "terminal"}
      PROVE  StreamEnds(s, how) \in AttemptRecord /\ StreamEnds(s, how).decided = s.decided
             /\ StreamEnds(s, how).chunks = s.chunks
  <2> HIDE DEF s
  <2> QED
    BY <1>1, StreamEndsSound
<1>7. CASE Write(a)
  BY <1>7, <1>2, BufferedStep, ThroughStep DEF Write
<1>8. CASE EndStream(a)
  <2>1. upsets' \in 0..MaxUpsets /\ client' = client
    BY <1>8, <1>5 DEF EndStream
  <2>2. \E how \in {"ok", "error", "rejected", "terminal"} : att' = [att EXCEPT ![a] = StreamEnds(s, how)]
    BY <1>8 DEF EndStream
  <2> HIDE DEF s
  <2> QED
    BY <2>1, <2>2, <1>4, <1>6
<1>9. CASE MetadataRejects(a)
  <2>1. d \in AttemptRecord /\ d.decided = s.decided /\ d.chunks = s.chunks
    BY <1>1 DEF AttemptRecord
  <2>2. att' = [att EXCEPT ![a] = StreamEnds(d, "rejected")] /\ client' = client /\ upsets' \in 0..MaxUpsets
    BY <1>9, <1>5 DEF MetadataRejects
  <2> HIDE DEF d, s
  <2>3. /\ StreamEnds(d, "rejected") \in AttemptRecord
        /\ StreamEnds(d, "rejected").decided = s.decided /\ StreamEnds(d, "rejected").chunks = s.chunks
    BY <2>1, StreamEndsSound
  <2> QED
    BY <2>2, <2>3, <1>4
<1>10. CASE Unpark(a)
  <2> DEFINE r == [s EXCEPT !.fwd = "streaming"]
  <2>1. r \in AttemptRecord /\ r.decided = s.decided /\ r.chunks = s.chunks
    BY <1>1 DEF AttemptRecord, ForwarderStates
  <2>2. (att' = [att EXCEPT ![a] = r] \/ att' = [att EXCEPT ![a] = StreamEnds(s, "error")])
        /\ client' = client /\ upsets' \in 0..MaxUpsets
    BY <1>10, <1>5 DEF Unpark
  <2> HIDE DEF r, s
  <2> QED
    BY <2>1, <2>2, <1>4, <1>6
<1>11. CASE FinishGate(a)
  <2> DEFINE r == [s EXCEPT !.fwd = "report"]
  <2>1. r \in AttemptRecord /\ r.decided = s.decided /\ r.chunks = s.chunks
    BY <1>1 DEF AttemptRecord, ForwarderStates
  <2>2. client' = client /\ upsets' \in 0..MaxUpsets
    BY <1>11, <1>5 DEF FinishGate
  <2>3. \/ att' = [att EXCEPT ![a] = r]
        \/ \E v \in {"accepted", "rejected"} : att' = [att EXCEPT ![a] = [r EXCEPT !.verdict = v]]
    BY <1>11 DEF FinishGate
  <2> HIDE DEF r
  <2>4. \A v \in {"accepted", "rejected"} :
          [r EXCEPT !.verdict = v] \in AttemptRecord /\ [r EXCEPT !.verdict = v].decided = s.decided
          /\ [r EXCEPT !.verdict = v].chunks = s.chunks
    BY <2>1 DEF AttemptRecord
  <2> HIDE DEF s
  <2> QED
    BY <2>1, <2>2, <2>3, <2>4, <1>4
<1>12. CASE Report(a)
  <2> DEFINE r == [s EXCEPT !.fwd = "sent"]
  <2>1. r \in AttemptRecord /\ r.decided = s.decided /\ r.chunks = s.chunks
    BY <1>1 DEF AttemptRecord, ForwarderStates
  <2>2. att' = [att EXCEPT ![a] = r] /\ client' = client /\ upsets' \in 0..MaxUpsets
    BY <1>12, <1>5 DEF Report
  <2> HIDE DEF r, s
  <2> QED
    BY <2>1, <2>2, <1>4
<1>13. CASE PrefixTimer(a)
  <2>1. client' = client /\ upsets' \in 0..MaxUpsets
    BY <1>13, <1>5 DEF PrefixTimer
  <2>2. PICK v \in {"accepted", "rejected"} : att' = [att EXCEPT ![a].verdict = v]
    BY <1>13 DEF PrefixTimer
  <2> DEFINE r == [s EXCEPT !.verdict = v]
  <2>3. r \in AttemptRecord /\ r.decided = s.decided /\ r.chunks = s.chunks
    BY <1>1 DEF AttemptRecord
  <2>4. att' = [att EXCEPT ![a] = r]
    BY <2>2
  <2> HIDE DEF r, s
  <2> QED
    BY <2>1, <2>3, <2>4, <1>4
<1> QED
  BY <1>7, <1>8, <1>9, <1>10, <1>11, <1>12, <1>13 DEF Forwarder

\* The inductive invariant holds in every state of the race, for every policy,
\* every length of stream and every number of upsets.
THEOREM RaceInvariant == RaceSpec => []RaceInv
<1>1. RaceInv /\ [RaceNext]_hedgeVars => RaceInv'
  <2> SUFFICES ASSUME RaceInv, [RaceNext]_hedgeVars PROVE RaceInv'
    OBVIOUS
  <2>1. CASE Coordinator
    BY <2>1, LaunchStep, ControlSteps, OpenGateStep, AsideSteps, TakeStep DEF Coordinator
  <2>2. CASE DelayPasses \/ GraceEnds \/ ClientLeaves
    BY <2>2, ControlSteps
  <2>3. CASE \E a \in AttemptIds : Runner(a) \/ Forwarder(a) \/ PrefixTimer(a)
    BY <2>3, RunnerStep, ForwarderStep
  <2>4. CASE UNCHANGED hedgeVars
    BY <2>4 DEF hedgeVars, RaceInv, RaceTypeOK, NoWinnerYet, WinnerNamed, OnlyTheWinnerOpens,
      NothingBeforeOpening, InStep, ClientSeesOneStream, Racing, Won
  <2> QED
    BY <2>1, <2>2, <2>3, <2>4 DEF RaceNext
<1> QED
  BY <1>1, RaceStarts, PTL DEF RaceSpec

\* The client of a hedged request sees the winner's stream and nothing else,
\* from its first write and in order, however the goroutines interleave.
THEOREM ClientSeesTheWinner == RaceSpec => []ClientSeesOneStream
<1>1. RaceInv => ClientSeesOneStream
  BY DEF RaceInv
<1> QED
  BY <1>1, RaceInvariant, PTL

\* The state of the race stays well typed, for every policy and every stream.
THEOREM RaceTypesCorrect == RaceSpec => []RaceTypeOK
<1>1. RaceInv => RaceTypeOK
  BY DEF RaceInv
<1> QED
  BY <1>1, RaceInvariant, PTL

\* The policy's bound on the attempts that run at once (HasRoom of runHedge).
WithinParallel == IsFiniteSet(running) /\ Cardinality(running) <= MaxParallel

\* The race never has more attempts in flight than its policy allows, whatever
\* the order in which they start, complete and are given up.
THEOREM ParallelismBounded == RaceSpec => []WithinParallel
<1> MaxParallel \in Nat /\ MaxParallel > 0
  BY PolicySound
<1>1. RaceInit => WithinParallel
  BY FS_EmptySet DEF RaceInit, WithinParallel
<1>2. WithinParallel /\ [RaceNext]_hedgeVars => WithinParallel'
  <2> SUFFICES ASSUME WithinParallel, [RaceNext]_hedgeVars PROVE WithinParallel'
    OBVIOUS
  <2> USE DEF WithinParallel
  <2>1. ASSUME NEW x, running' = running \ {x} PROVE WithinParallel'
    <3>1. IsFiniteSet(running \ {x}) /\ Cardinality(running \ {x}) <= Cardinality(running)
      BY FS_Subset, running \ {x} \subseteq running
    <3>2. Cardinality(running) \in Nat /\ Cardinality(running \ {x}) \in Nat
      BY <3>1, FS_CardinalityType
    <3> QED
      BY <2>1, <3>1, <3>2
  <2>2. CASE running' = running
    BY <2>2
  <2>3. CASE Launch
    <3>1. running' = running \cup {started + 1} /\ Cardinality(running) < MaxParallel
      BY <2>3 DEF Launch, RoomLeft
    <3>2. /\ IsFiniteSet(running \cup {started + 1})
          /\ Cardinality(running \cup {started + 1}) \in {Cardinality(running), Cardinality(running) + 1}
      BY FS_AddElement
    <3>3. Cardinality(running) \in Nat
      BY FS_CardinalityType
    <3> QED
      BY <3>1, <3>2, <3>3
  <2>4. CASE Receive
    BY <2>1, <2>4 DEF Receive
  <2>5. CASE Collect
    BY <2>1, <2>5 DEF Collect
  <2>6. ASSUME NEW a \in AttemptIds, GiveUpOn(a) PROVE WithinParallel'
    BY <2>1, <2>6 DEF GiveUpOn
  <2>7. CASE \/ DelayPasses \/ GraceEnds \/ ClientLeaves \/ UNCHANGED hedgeVars
             \/ \E a \in AttemptIds : Runner(a) \/ Forwarder(a) \/ PrefixTimer(a)
    BY <2>2, <2>7 DEF DelayPasses, GraceEnds, ClientLeaves, hedgeVars, handler, Runner, Forwarder, PrefixTimer
  <2>8. CASE LoopHead \/ WakeUp \/ OpenGate \/ RaceOver \/ WinnerEnds \/ TakeResult \/ Finish
             \/ \E a \in AttemptIds : VisitLoser(a)
    BY <2>2, <2>8 DEF LoopHead, WakeUp, OpenGate, RaceOver, WinnerEnds, TakeResult, Finish, VisitLoser
  <2> QED
    BY <2>3, <2>4, <2>5, <2>6, <2>7, <2>8 DEF RaceNext, Coordinator
<1> QED
  BY <1>1, <1>2, PTL DEF RaceSpec
=============================================================================
