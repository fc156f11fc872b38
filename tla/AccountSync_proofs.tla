-------------------------- MODULE AccountSync_proofs --------------------------
(***************************************************************************)
(* Any number of accounts, channels, remote accounts and overlapping       *)
(* applies: two accounts of different source channels never share a remote *)
(* account of the target.                                                  *)
(*                                                                         *)
(* An account comes to a remote account by its mapping, by a name that     *)
(* holds its channel, or by creating it.  What every account refers to, in *)
(* its mapping or in a running apply, is therefore on its own channel for  *)
(* as long as it is there (Fit); an apply that writes back what it read    *)
(* before writes the same channel (BeforeFits); and an identity that is    *)
(* new is referred to by nobody, not even by an apply that runs on with    *)
(* what it read long ago.                                                  *)
(***************************************************************************)
EXTENDS AccountSync, WellFoundedInduction, TLAPS

\* The fields that the argument is about are there.
Fields == DOMAIN NoRemote
HasRemotes(f) == DOMAIN f = Remotes /\ \A r \in Remotes : DOMAIN f[r] = Fields
RemoteShape == HasRemotes(remote)
MapShape == DOMAIN maps = Accounts /\ \A a \in Accounts : DOMAIN maps[a] = DOMAIN NoMap
IsJob(j) ==
    /\ DOMAIN j = DOMAIN Idle
    /\ DOMAIN j.work = Accounts /\ (\A a \in Accounts : DOMAIN j.work[a] = DOMAIN Waiting)
    /\ HasRemotes(j.before)
JobShape == DOMAIN job = Appliers /\ \A p \in Appliers : IsJob(job[p])

\* What an account refers to, in its mapping or in a running apply.
Refers(a, r) == maps[a].id = r \/ \E p \in Appliers : job[p].work[a].id = r

\* A remote account an account refers to is on its channel.
Fit == \A a \in Accounts, r \in Remotes : Refers(a, r) /\ remote[r].live => remote[r].ch = ChannelOf[a]

\* Accounts of different channels refer to different remote accounts.
Apart ==
    \A a, b \in Accounts : \A r :
      r # 0 /\ Refers(a, r) /\ Refers(b, r) => ChannelOf[a] = ChannelOf[b]

\* What an apply read before is on the channel it is on now.
BeforeFits ==
    \A p \in Appliers, r \in Remotes :
      job[p].before[r].live /\ remote[r].live => job[p].before[r].ch = remote[r].ch

IInv == RemoteShape /\ MapShape /\ JobShape /\ Fit /\ Apart /\ BeforeFits

-----------------------------------------------------------------------------
\* Of the new identities there is a first.
LEMMA LeastIsThere ==
  ASSUME NEW S, S \subseteq Nat, S # {}
  PROVE  \E x \in S : \A y \in S : x <= y
<1>1. PICK x \in S : \A y \in S : ~(<<y, x>> \in OpToRel(<, Nat))
  BY NatLessThanWellFounded, WFMin
<1>2. \A y \in S : x <= y
  <2>1. SUFFICES ASSUME NEW y \in S, y < x PROVE FALSE
    BY SMT
  <2>2. <<y, x>> \in OpToRel(<, Nat)
    BY <2>1 DEF OpToRel
  <2>3. QED
    BY <1>1, <2>2
<1>3. QED
  BY <1>2

\* A new identity is nobody's.
LEMMA UnbornIsNew ==
  ASSUME NEW r \in Unborn
  PROVE  /\ r \in Remotes /\ ~remote[r].live
         /\ \A a \in Accounts : r # 0 => ~Refers(a, r)
         /\ \A p \in Appliers : ~job[p].before[r].live
<1>1. r \in Remotes /\ r \notin Remembered
  BY DEF Unborn
<1>2. ~remote[r].live
  BY <1>1 DEF Remembered
<1>3. ASSUME r # 0, NEW a \in Accounts, maps[a].id = r PROVE FALSE
  <2>1. r \in Mapped
    BY <1>3 DEF Mapped
  <2>2. QED
    BY <1>1, <2>1 DEF Remembered
<1>4. \A p \in Appliers : r \notin KnownTo(job[p])
  <2>1. r \notin UNION {KnownTo(job[p]) : p \in Appliers}
    BY <1>1 DEF Remembered
  <2>2. QED
    BY <2>1
<1>5. ASSUME NEW p \in Appliers
      PROVE  ~job[p].before[r].live /\ \A a \in Accounts : job[p].work[a].id # r
  BY <1>1, <1>4 DEF KnownTo
<1>6. QED
  BY <1>1, <1>2, <1>3, <1>5 DEF Refers

(***************************************************************************)
(* What a step makes of the references, when account a comes to n.         *)
(***************************************************************************)
\* n is a's already, bears a's name, or is new.
Claimable(a, n) ==
    \/ n = 0
    \/ a \in Accounts /\ Refers(a, n)
    \/ a \in Accounts /\ n \in Remotes /\ remote[n].live /\ remote[n].ch = ChannelOf[a]
    \/ a \in Accounts /\ n \in Unborn

JobMoves(a, n) ==
    /\ JobShape'
    /\ \A q \in Appliers : job'[q].before \in {job[q].before, NoRemotes}
    /\ \A q \in Appliers, b \in Accounts :
         \/ job'[q].work[b].id \in {job[q].work[b].id, 0}
         \/ b = a /\ job'[q].work[b].id = n

MapsMove(a, n) ==
    /\ MapShape'
    /\ \A b \in Accounts : maps'[b].id \in {maps[b].id, 0} \/ (b = a /\ maps'[b].id = n)

RemoteMoves(a, n) ==
    /\ RemoteShape'
    /\ \A r \in Remotes : remote'[r].live =>
         \/ remote[r].live /\ remote'[r].ch = remote[r].ch
         \/ r = n /\ remote'[r].ch = ChannelOf[a] /\ (remote[n].live \/ n \in Unborn)

RefersNext(a, r) == maps'[a].id = r \/ \E p \in Appliers : job'[p].work[a].id = r

\* Such a step keeps the invariant.
LEMMA MovesKeep ==
  ASSUME IInv, NEW a, NEW n, Claimable(a, n), JobMoves(a, n), MapsMove(a, n), RemoteMoves(a, n)
  PROVE  IInv'
<1>1. \A r \in Remotes : r \in Nat \ {0}
  BY SyncAssumption
<1>2. ASSUME NEW b \in Accounts, NEW r, r # 0, RefersNext(b, r)
      PROVE  Refers(b, r) \/ (b = a /\ r = n)
  BY <1>1, <1>2 DEF RefersNext, Refers, JobMoves, MapsMove
<1>3. n \in Remotes /\ remote[n].live => remote[n].ch = ChannelOf[a]
  BY <1>1, UnbornIsNew DEF Claimable, IInv, Fit
<1>4. \A b \in Accounts : n # 0 /\ Refers(b, n) => a \in Accounts /\ ChannelOf[b] = ChannelOf[a]
  BY <1>1, UnbornIsNew DEF Claimable, IInv, Fit, Apart
<1>5. Fit'
  <2>1. SUFFICES ASSUME NEW b \in Accounts, NEW r \in Remotes, RefersNext(b, r), remote'[r].live
                 PROVE  remote'[r].ch = ChannelOf[b]
    BY DEF Fit, Refers, RefersNext
  <2>2. Refers(b, r) \/ (b = a /\ r = n)
    BY <1>1, <1>2, <2>1
  <2>3. CASE remote[r].live /\ remote'[r].ch = remote[r].ch
    BY <1>3, <2>2, <2>3 DEF IInv, Fit
  <2>4. CASE r = n /\ remote'[r].ch = ChannelOf[a]
    BY <1>1, <1>4, <2>2, <2>4
  <2>5. QED
    BY <2>1, <2>3, <2>4 DEF RemoteMoves
<1>6. Apart'
  <2>1. SUFFICES ASSUME NEW b \in Accounts, NEW c \in Accounts, NEW r, r # 0,
                        RefersNext(b, r), RefersNext(c, r)
                 PROVE  ChannelOf[b] = ChannelOf[c]
    BY DEF Apart, Refers, RefersNext
  <2>2. Refers(b, r) \/ (b = a /\ r = n)
    BY <1>2, <2>1
  <2>3. Refers(c, r) \/ (c = a /\ r = n)
    BY <1>2, <2>1
  <2>4. QED
    BY <1>4, <2>1, <2>2, <2>3 DEF IInv, Apart
<1>7. BeforeFits'
  <2>1. SUFFICES ASSUME NEW p \in Appliers, NEW r \in Remotes, job'[p].before[r].live, remote'[r].live
                 PROVE  job'[p].before[r].ch = remote'[r].ch
    BY DEF BeforeFits
  <2>2. job'[p].before = job[p].before
    BY <2>1 DEF JobMoves, NoRemotes, NoRemote
  <2>3. CASE remote[r].live /\ remote'[r].ch = remote[r].ch
    BY <2>1, <2>2, <2>3 DEF IInv, BeforeFits
  <2>4. CASE r = n /\ remote'[r].ch = ChannelOf[a] /\ remote[n].live
    BY <1>3, <2>1, <2>2, <2>4 DEF IInv, BeforeFits
  <2>5. CASE r = n /\ n \in Unborn
    BY <2>1, <2>2, <2>5, UnbornIsNew
  <2>6. QED
    BY <2>1, <2>3, <2>4, <2>5 DEF RemoteMoves
<1>8. QED
  BY <1>5, <1>6, <1>7 DEF IInv, JobMoves, MapsMove, RemoteMoves

-----------------------------------------------------------------------------
(***************************************************************************)
(* What the steps of an account make of its job.                           *)
(***************************************************************************)
\* The part of an account in a job becomes w.
Works(p, a, n, w, j) ==
    /\ DOMAIN j = DOMAIN Idle /\ j.before = job[p].before /\ j.work = [job[p].work EXCEPT ![a] = w]
    /\ DOMAIN w = DOMAIN Waiting /\ w.id \in {job[p].work[a].id, 0, n}
    /\ job' = [job EXCEPT ![p] = j]

\* Such a step leaves all other references as they are.
LEMMA WorkMoves ==
  ASSUME IInv, NEW p \in Appliers, NEW a \in Accounts, NEW n, NEW j, NEW w, Works(p, a, n, w, j)
  PROVE  JobMoves(a, n)
<1> USE DEF Works
<1>1. DOMAIN job = Appliers /\ \A q \in Appliers : IsJob(job[q])
  BY DEF IInv, JobShape
<1>2. job'[p] = j /\ DOMAIN job' = Appliers /\ \A q \in Appliers \ {p} : job'[q] = job[q]
  BY <1>1
<1>3. /\ DOMAIN j.work = Accounts /\ j.work[a] = w
      /\ \A b \in Accounts \ {a} : j.work[b] = job[p].work[b]
  BY <1>1 DEF IsJob
<1>4. IsJob(j)
  BY <1>1, <1>3 DEF IsJob
<1>5. JobShape'
  BY <1>1, <1>2, <1>4 DEF JobShape
<1>6. QED
  BY <1>2, <1>3, <1>5 DEF JobMoves

\* It goes on, perhaps with a remote account, perhaps to a disabled one.
LEMMA GoMoves ==
  ASSUME IInv, NEW p \in Appliers, NEW a \in Accounts, NEW at, NEW n,
         Go(p, a, at) \/ GoOff(p, a, at) \/ GoWith(p, a, at, n)
  PROVE  JobMoves(a, n)
<1>1. DOMAIN job = Appliers /\ IsJob(job[p])
  BY DEF IInv, JobShape
<1> DEFINE w0 == [job[p].work[a] EXCEPT !.at = at]
           w1 == [job[p].work[a] EXCEPT !.at = at, !.off = TRUE]
           w2 == [job[p].work[a] EXCEPT !.at = at, !.id = n]
           J(w) == [job[p] EXCEPT !.work = [job[p].work EXCEPT ![a] = w]]
<1>2. \E w \in {w0, w1, w2} : job' = [job EXCEPT ![p] = J(w)]
  <2>1. CASE Go(p, a, at)
    <3>1. job' = [job EXCEPT ![p] = J(w0)]
      BY <1>1, <2>1 DEF Go, IsJob, Idle
    <3>2. QED
      BY <3>1
  <2>2. CASE GoOff(p, a, at)
    <3>1. job' = [job EXCEPT ![p] = J(w1)]
      BY <1>1, <2>2 DEF GoOff, IsJob, Idle, Waiting
    <3>2. QED
      BY <3>1
  <2>3. CASE GoWith(p, a, at, n)
    <3>1. job' = [job EXCEPT ![p].work[a].at = at, ![p].work[a].id = n]
      BY <2>3 DEF GoWith
    <3>2. "work" \in DOMAIN job[p] /\ a \in DOMAIN job[p].work
      BY <1>1 DEF IsJob, Idle
    <3>3. job' = [job EXCEPT ![p] = J(w2)]
      BY <1>1, <3>1, <3>2
    <3>4. QED
      BY <3>3
  <2>4. QED
    BY <2>1, <2>2, <2>3
<1>3. \A w \in {w0, w1, w2} : DOMAIN w = DOMAIN Waiting /\ w.id \in {job[p].work[a].id, 0, n}
  BY <1>1 DEF IsJob, Waiting
<1> HIDE DEF w0, w1, w2
<1>4. PICK w \in {w0, w1, w2} : job' = [job EXCEPT ![p] = J(w)]
  BY <1>2
<1>5. DOMAIN w = DOMAIN Waiting /\ w.id \in {job[p].work[a].id, 0, n}
  BY <1>3
<1>6. DOMAIN J(w) = DOMAIN Idle /\ J(w).before = job[p].before /\ J(w).work = [job[p].work EXCEPT ![a] = w]
  BY <1>1 DEF IsJob, Idle
<1> HIDE DEF J
<1>7. Works(p, a, n, w, J(w))
  BY <1>4, <1>5, <1>6 DEF Works
<1>8. QED
  BY <1>7, WorkMoves

\* It ends.
LEMMA EndsMoves ==
  ASSUME IInv, NEW p \in Appliers, NEW a \in Accounts, NEW n, NEW applied \in BOOLEAN, Ends(p, a, applied)
  PROVE  JobMoves(a, n)
<1>1. DOMAIN job = Appliers /\ IsJob(job[p])
  BY DEF IInv, JobShape
<1> DEFINE w == [Waiting EXCEPT !.at = "done"]
           ok == IF applied THEN job[p].ok \cup {a} ELSE job[p].ok
           bad == IF applied THEN job[p].bad ELSE job[p].bad \cup {a}
           j == [job[p] EXCEPT !.work = [job[p].work EXCEPT ![a] = w], !.ok = ok, !.bad = bad]
<1>2. job' = [job EXCEPT ![p] = j]
  BY <1>1 DEF Ends, IsJob, Idle
<1> HIDE DEF ok, bad
<1>3. DOMAIN w = DOMAIN Waiting /\ w.id = 0
  BY DEF Waiting
<1> HIDE DEF w
<1>4. DOMAIN j = DOMAIN Idle /\ j.before = job[p].before /\ j.work = [job[p].work EXCEPT ![a] = w]
  BY <1>1 DEF IsJob, Idle
<1> HIDE DEF j
<1>5. Works(p, a, n, w, j)
  BY <1>2, <1>3, <1>4 DEF Works
<1>6. QED
  BY <1>5, WorkMoves

\* A job that goes on without its accounts, or is given up.
Stays(p, j) ==
    /\ DOMAIN j = DOMAIN Idle /\ job' = [job EXCEPT ![p] = j]
    /\ \/ j.before = job[p].before /\ j.work = job[p].work
       \/ j.before = NoRemotes /\ j.work = Idle.work

\* That comes to nothing new.
LEMMA JobStays ==
  ASSUME IInv, NEW p \in Appliers, NEW j, Stays(p, j), NEW a, NEW n
  PROVE  JobMoves(a, n)
<1>1. DOMAIN job = Appliers /\ \A q \in Appliers : IsJob(job[q])
  BY DEF IInv, JobShape
<1>2. HasRemotes(NoRemotes)
  BY DEF HasRemotes, NoRemotes, Fields
<1>3. /\ DOMAIN Idle.work = Accounts
      /\ \A b \in Accounts : DOMAIN Idle.work[b] = DOMAIN Waiting /\ Idle.work[b].id = 0
  BY DEF Idle, Waiting
<1>4. IsJob(j)
  BY <1>1, <1>2, <1>3 DEF IsJob, Stays
<1>5. job'[p] = j /\ DOMAIN job' = Appliers /\ \A q \in Appliers \ {p} : job'[q] = job[q]
  BY <1>1 DEF Stays
<1>6. JobShape'
  BY <1>1, <1>4, <1>5 DEF JobShape
<1>7. QED
  BY <1>3, <1>5, <1>6 DEF JobMoves, Stays

\* No job moves.
LEMMA JobSame ==
  ASSUME IInv, job' = job, NEW a, NEW n
  PROVE  JobMoves(a, n)
BY DEF IInv, JobShape, IsJob, JobMoves

\* The same with an aborted apply.
LEMMA AbortMoves ==
  ASSUME IInv, NEW p \in Appliers, NEW st, Abort(p, st), NEW a, NEW n
  PROVE  JobMoves(a, n)
<1>1. Stays(p, Idle)
  BY DEF Stays, Abort, Idle
<1>2. QED
  BY <1>1, JobStays

\* Mappings that stay, that go, and one that is written.
LEMMA MapsStay ==
  ASSUME IInv, NEW a, NEW n, maps' = maps \/ \E b : maps' = [maps EXCEPT ![b] = NoMap] \/ maps' = NoMaps
  PROVE  MapsMove(a, n)
BY DEF IInv, MapShape, MapsMove, NoMap, NoMaps

\* The mapping of an account is written.
LEMMA MapWritten ==
  ASSUME IInv, NEW a \in Accounts, NEW n, NEW pos, maps' = [maps EXCEPT ![a] = [id |-> n, pos |-> pos]]
  PROVE  MapsMove(a, n)
BY DEF IInv, MapShape, MapsMove, NoMap

\* Remote accounts that keep their channel or go.
LEMMA RemotesStay ==
  ASSUME IInv, NEW a, NEW n, DOMAIN remote' = Remotes,
         \A r \in Remotes : \/ remote'[r] = remote[r]
                            \/ remote'[r] = NoRemote
                            \/ /\ DOMAIN remote'[r] = DOMAIN remote[r] /\ remote'[r].live = remote[r].live
                               /\ remote'[r].ch = remote[r].ch
  PROVE  RemoteMoves(a, n)
BY DEF IInv, RemoteShape, HasRemotes, RemoteMoves, Fields, NoRemote

\* One that is written for an account.
LEMMA RemoteWritten ==
  ASSUME IInv, NEW a, NEW n, NEW v, DOMAIN v = Fields, v.ch = ChannelOf[a], remote[n].live \/ n \in Unborn,
         remote' = [remote EXCEPT ![n] = v]
  PROVE  RemoteMoves(a, n)
BY DEF IInv, RemoteShape, HasRemotes, RemoteMoves

-----------------------------------------------------------------------------
(***************************************************************************)
(* The steps of an account.                                                *)
(***************************************************************************)
\* Its part of the apply fails.
LEMMA FailsMoves ==
  ASSUME IInv, NEW p \in Appliers, NEW a \in Accounts, NEW n, Fails(p, a)
  PROVE  JobMoves(a, n)
BY EndsMoves DEF Fails

\* A request is for the account's channel.
LEMMA RequestFits ==
  ASSUME NEW p, NEW a, NEW old
  PROVE  DOMAIN Request(p, a, old) = Fields /\ Request(p, a, old).ch = ChannelOf[a]
BY DEF Request, Fields, NoRemote

\* Nothing is written at the target.
LEMMA RemoteSame ==
  ASSUME IInv, remote' = remote, NEW a, NEW n
  PROVE  RemoteMoves(a, n)
BY RemotesStay DEF IInv, RemoteShape, HasRemotes

\* An update writes only what is there.
LEMMA UpdateMoves ==
  ASSUME IInv, NEW p \in Appliers, NEW a \in Accounts, NEW n, Update(p, a, n)
  PROVE  JobMoves(a, n) /\ RemoteMoves(a, n)
<1>1. JobMoves(a, n)
  BY GoMoves, FailsMoves DEF Update
<1>2. remote' = remote \/ (remote[n].live /\ \E old : remote' = [remote EXCEPT ![n] = Request(p, a, old)])
  BY DEF Update
<1>3. CASE remote' = remote
  BY <1>1, <1>3, RemoteSame
<1>4. CASE remote[n].live /\ \E old : remote' = [remote EXCEPT ![n] = Request(p, a, old)]
  <2>1. PICK old : remote' = [remote EXCEPT ![n] = Request(p, a, old)]
    BY <1>4
  <2>2. DOMAIN Request(p, a, old) = Fields /\ Request(p, a, old).ch = ChannelOf[a]
    BY RequestFits
  <2>3. QED
    BY <1>1, <1>4, <2>1, <2>2, RemoteWritten
<1>5. QED
  BY <1>1, <1>2, <1>3, <1>4

\* The key is bound; the account's part of the apply begins.
LEMMA PrepareKeeps ==
  ASSUME IInv, NEW p \in Appliers, NEW a \in Accounts, Prepare(p, a)
  PROVE  IInv'
<1>1. remote' = remote /\ maps' = maps
  BY DEF Prepare, tables
<1>2. JobMoves(a, 0)
  <2>1. CASE \E at : Go(p, a, at) \/ GoOff(p, a, at)
    BY <2>1, GoMoves
  <2>2. CASE Fails(p, a)
    BY <2>2, FailsMoves
  <2>3. CASE job' = [job EXCEPT ![p].work[a].at = "put", ![p].work[a].rate = source[a]]
    <3>1. IsJob(job[p])
      BY DEF IInv, JobShape
    <3> DEFINE w == [job[p].work[a] EXCEPT !.at = "put", !.rate = source[a]]
               j == [job[p] EXCEPT !.work = [job[p].work EXCEPT ![a] = w]]
    <3>2. "work" \in DOMAIN job[p] /\ a \in DOMAIN job[p].work /\ p \in DOMAIN job
      BY <3>1 DEF IsJob, Idle, IInv, JobShape
    <3>3. job' = [job EXCEPT ![p] = j]
      BY <2>3, <3>2
    <3>4. DOMAIN w = DOMAIN Waiting /\ w.id = job[p].work[a].id
      BY <3>1 DEF IsJob, Waiting
    <3> HIDE DEF w
    <3>5. DOMAIN j = DOMAIN Idle /\ j.before = job[p].before /\ j.work = [job[p].work EXCEPT ![a] = w]
      BY <3>1 DEF IsJob, Idle
    <3> HIDE DEF j
    <3>6. Works(p, a, 0, w, j)
      BY <3>3, <3>4, <3>5 DEF Works
    <3>7. QED
      BY <3>6, WorkMoves
  <2>4. QED
    BY <2>1, <2>2, <2>3 DEF Prepare
<1>3. RemoteMoves(a, 0) /\ MapsMove(a, 0) /\ Claimable(a, 0)
  BY <1>1, RemoteSame, MapsStay DEF Claimable
<1>4. QED
  BY <1>2, <1>3, MovesKeep

\* The mapped account, and the one that was found, are updated.
LEMMA PutKeeps ==
  ASSUME IInv, NEW p \in Appliers, NEW a \in Accounts, Put(p, a) \/ Reuse(p, a)
  PROVE  IInv'
<1> DEFINE n == IF Put(p, a) THEN maps[a].id ELSE job[p].work[a].id
<1>1. maps' = maps
  BY DEF Put, Reuse, tables
<1>2. Claimable(a, n)
  BY DEF Claimable, Refers
<1>3. \/ Update(p, a, n)
      \/ remote' = remote /\ (Ends(p, a, FALSE) \/ Go(p, a, "find"))
  BY DEF Put, Reuse
<1> HIDE DEF n
<1>4. JobMoves(a, n) /\ RemoteMoves(a, n)
  BY <1>3, UpdateMoves, RemoteSame, GoMoves, EndsMoves
<1>5. MapsMove(a, n)
  BY <1>1, MapsStay
<1>6. QED
  BY <1>2, <1>4, <1>5, MovesKeep

\* A name that is found holds the channel.
LEMMA FindKeeps ==
  ASSUME IInv, NEW p \in Appliers, NEW a \in Accounts, Find(p, a)
  PROVE  IInv'
<1>1. maps' = maps /\ remote' = remote
  BY DEF Find, tables
<1>2. \E n : Claimable(a, n) /\ JobMoves(a, n)
  <2>1. CASE \E r \in Named(Place(p, a), ChannelOf[a]) : GoWith(p, a, "reuse", r)
    <3>1. PICK r \in Named(Place(p, a), ChannelOf[a]) : GoWith(p, a, "reuse", r)
      BY <2>1
    <3>2. Claimable(a, r)
      BY DEF Named, Claimable
    <3>3. JobMoves(a, r)
      BY <3>1, GoMoves
    <3>4. QED
      BY <3>2, <3>3
  <2>2. CASE Go(p, a, "create") \/ Fails(p, a)
    <3>1. Claimable(a, 0) /\ JobMoves(a, 0)
      BY <2>2, GoMoves, FailsMoves DEF Claimable
    <3>2. QED
      BY <3>1
  <2>3. QED
    BY <2>1, <2>2 DEF Find
<1>3. PICK n : Claimable(a, n) /\ JobMoves(a, n)
  BY <1>2
<1>4. RemoteMoves(a, n) /\ MapsMove(a, n)
  BY <1>1, RemoteSame, MapsStay
<1>5. QED
  BY <1>3, <1>4, MovesKeep

\* What is created has a new identity.
LEMMA CreateKeeps ==
  ASSUME IInv, NEW p \in Appliers, NEW a \in Accounts, Create(p, a)
  PROVE  IInv'
<1> DEFINE n == CHOOSE m \in Unborn : \A k \in Unborn : m <= k
           made == [remote EXCEPT ![n] = Request(p, a, TRUE)]
<1>1. maps' = maps
  BY DEF Create, tables
<1>2. \/ remote' = made /\ GoWith(p, a, AfterPut(p, a), n)
      \/ remote' \in {remote, made} /\ Fails(p, a)
  BY DEF Create
<1>3. n \in Unborn
  <2>1. Unborn # {} /\ Unborn \subseteq Nat
    BY SyncAssumption DEF Create, Unborn
  <2>2. \E m \in Unborn : \A k \in Unborn : m <= k
    BY <2>1, LeastIsThere
  <2>3. QED
    BY <2>2
<1> HIDE DEF n
<1>4. JobMoves(a, n) /\ Claimable(a, n)
  BY <1>2, <1>3, GoMoves, FailsMoves DEF Claimable
<1>5. RemoteMoves(a, n)
  <2>1. CASE remote' = made
    <3>1. DOMAIN Request(p, a, TRUE) = Fields /\ Request(p, a, TRUE).ch = ChannelOf[a]
      BY RequestFits
    <3>2. QED
      BY <1>3, <2>1, <3>1, RemoteWritten
  <2>2. CASE remote' = remote
    BY <2>2, RemoteSame
  <2>3. QED
    BY <1>2, <2>1, <2>2
<1>6. MapsMove(a, n)
  BY <1>1, MapsStay
<1>7. QED
  BY <1>4, <1>5, <1>6, MovesKeep

\* An account that is touched keeps its channel.
LEMMA TouchMoves ==
  ASSUME IInv, NEW a, NEW n, NEW r, NEW x, remote' = [remote EXCEPT ![r].sched = x]
  PROVE  RemoteMoves(a, n)
<1>1. DOMAIN remote = Remotes /\ \A m \in Remotes : DOMAIN remote[m] = Fields
  BY DEF IInv, RemoteShape, HasRemotes
<1>2. DOMAIN remote' = Remotes
  BY <1>1
<1>3. ASSUME NEW m \in Remotes
      PROVE  \/ remote'[m] = remote[m]
             \/ /\ DOMAIN remote'[m] = DOMAIN remote[m] /\ remote'[m].live = remote[m].live
                /\ remote'[m].ch = remote[m].ch
  <2>1. CASE m = r
    <3> DEFINE v == [remote[m] EXCEPT !.sched = x]
    <3>1. remote'[m] = v
      BY <1>1, <2>1
    <3>2. DOMAIN v = DOMAIN remote[m] /\ v.live = remote[m].live /\ v.ch = remote[m].ch
      BY <1>1 DEF Fields, NoRemote
    <3>3. QED
      BY <3>1, <3>2
  <2>2. CASE m # r
    BY <1>1, <2>2
  <2>3. QED
    BY <2>1, <2>2
<1>4. QED
  BY <1>2, <1>3, RemotesStay

\* Models are synced; a failure disables the account, whose channel it keeps.
LEMMA ModelsKeep ==
  ASSUME IInv, NEW p \in Appliers, NEW a \in Accounts, SyncModels(p, a) \/ Undo(p, a)
  PROVE  IInv'
<1> DEFINE n == job[p].work[a].id
<1>1. Claimable(a, n)
  BY DEF Claimable, Refers
<1>2. JobMoves(a, n)
  BY GoMoves, EndsMoves, FailsMoves DEF SyncModels, Undo
<1>3. MapsMove(a, n)
  <2>1. maps' = maps \/ maps' = [maps EXCEPT ![a] = [id |-> n, pos |-> Place(p, a)]]
    BY DEF SyncModels, Undo, tables
  <2>2. QED
    BY <2>1, MapsStay, MapWritten
<1>4. RemoteMoves(a, n)
  <2>1. remote' = remote \/ (remote[n].live /\
          \E old : remote' = [remote EXCEPT ![n] = [Request(p, a, old) EXCEPT !.on = FALSE]])
    BY DEF SyncModels, Undo
  <2>2. CASE remote' = remote
    BY <2>2, RemoteSame
  <2>3. ASSUME remote[n].live, NEW old, remote' = [remote EXCEPT ![n] = [Request(p, a, old) EXCEPT !.on = FALSE]]
        PROVE  RemoteMoves(a, n)
    <3> DEFINE v == [Request(p, a, old) EXCEPT !.on = FALSE]
    <3>1. DOMAIN v = Fields /\ v.ch = ChannelOf[a]
      BY RequestFits DEF Fields, NoRemote
    <3> HIDE DEF v
    <3>2. remote' = [remote EXCEPT ![n] = v]
      BY <2>3 DEF v
    <3> HIDE DEF n
    <3>3. QED
      BY <2>3, <3>1, <3>2, RemoteWritten
  <2>4. QED
    BY <2>1, <2>2, <2>3
<1> HIDE DEF n
<1>5. QED
  BY <1>1, <1>2, <1>3, <1>4, MovesKeep

\* The account is opened or closed to the scheduling, mapped and tested.
LEMMA ScheduleKeeps ==
  ASSUME IInv, NEW p \in Appliers, NEW a \in Accounts, Schedule(p, a)
  PROVE  IInv'
<1> DEFINE n == job[p].work[a].id
           scheduled == [remote EXCEPT ![n].sched = ~job[p].work[a].off]
<1>1. Claimable(a, n)
  BY DEF Claimable, Refers
<1>2. JobMoves(a, n)
  BY GoMoves, EndsMoves, FailsMoves DEF Schedule
<1>3. MapsMove(a, n)
  <2>1. maps' = maps \/ maps' = [maps EXCEPT ![a] = [id |-> n, pos |-> Place(p, a)]]
    BY DEF Schedule
  <2>2. QED
    BY <2>1, MapsStay, MapWritten
<1>4. RemoteMoves(a, n)
  <2>1. remote' = remote \/ remote' = scheduled
    BY DEF Schedule
  <2>2. QED
    BY <2>1, RemoteSame, TouchMoves
<1> HIDE DEF n
<1>5. QED
  BY <1>1, <1>2, <1>3, <1>4, MovesKeep

\* A test changes the scheduling only.
LEMMA TestKeeps ==
  ASSUME IInv, NEW p \in Appliers, NEW a \in Accounts, Test(p, a) \/ Unschedule(p, a)
  PROVE  IInv'
<1>1. maps' = maps
  BY DEF Test, Unschedule, tables
<1>2. remote' = remote \/ \E r, x : remote' = [remote EXCEPT ![r].sched = x]
  BY DEF Test, Unschedule
<1>3. RemoteMoves(a, 0)
  BY <1>2, RemoteSame, TouchMoves
<1>4. JobMoves(a, 0)
  <2>1. CASE Ends(p, a, TRUE) \/ Ends(p, a, FALSE) \/ Fails(p, a) \/ Go(p, a, "done")
    BY <2>1, EndsMoves, FailsMoves, GoMoves
  <2>2. CASE job' = [job EXCEPT ![p].work[a] = [Waiting EXCEPT !.at = "done"],
                                ![p].ok = @ \cup {a}, ![p].sick = @ \cup {a}]
    <3>1. DOMAIN job = Appliers /\ IsJob(job[p])
      BY DEF IInv, JobShape
    <3> DEFINE w == [Waiting EXCEPT !.at = "done"]
               ok == job[p].ok \cup {a}
               sick == job[p].sick \cup {a}
               j == [job[p] EXCEPT !.work = [job[p].work EXCEPT ![a] = w], !.ok = ok, !.sick = sick]
    <3>2. job' = [job EXCEPT ![p] = j]
      BY <2>2, <3>1 DEF IsJob, Idle
    <3> HIDE DEF ok, sick
    <3>3. DOMAIN w = DOMAIN Waiting /\ w.id = 0
      BY DEF Waiting
    <3> HIDE DEF w
    <3>4. DOMAIN j = DOMAIN Idle /\ j.before = job[p].before /\ j.work = [job[p].work EXCEPT ![a] = w]
      BY <3>1 DEF IsJob, Idle
    <3> HIDE DEF j
    <3>5. Works(p, a, 0, w, j)
      BY <3>2, <3>3, <3>4 DEF Works
    <3>6. QED
      BY <3>5, WorkMoves
  <2>3. QED
    BY <2>1, <2>2 DEF Test, Unschedule, SkipEnds
<1>5. MapsMove(a, 0) /\ Claimable(a, 0)
  BY <1>1, MapsStay DEF Claimable
<1>6. QED
  BY <1>3, <1>4, <1>5, MovesKeep

\* What was read before is written back to the mapped account: on the channel
\* it is on.
LEMMA OffKeeps ==
  ASSUME IInv, NEW p \in Appliers, NEW a \in Accounts, Off(p, a)
  PROVE  IInv'
<1> DEFINE n == maps[a].id
           old == job[p].before[n]
           v == [old EXCEPT !.on = FALSE, !.sched = remote[n].sched]
<1>1. maps' = maps /\ Claimable(a, n)
  BY DEF Off, tables, Claimable, Refers
<1>2. JobMoves(a, n)
  BY GoMoves, EndsMoves, FailsMoves DEF Off, SkipEnds
<1>3. remote' = remote \/ (old.live /\ remote[n].live /\ remote' = [remote EXCEPT ![n] = v])
  BY DEF Off
<1>4. RemoteMoves(a, n)
  <2>1. CASE remote' = remote
    BY <2>1, RemoteSame
  <2>2. CASE n \in Remotes /\ old.live /\ remote[n].live /\ remote' = [remote EXCEPT ![n] = v]
    <3>1. DOMAIN old = Fields /\ old.ch = remote[n].ch
      BY <2>2 DEF IInv, JobShape, IsJob, HasRemotes, BeforeFits
    <3>2. remote[n].ch = ChannelOf[a]
      BY <2>2 DEF IInv, Fit, Refers
    <3> HIDE DEF old
    <3>3. DOMAIN v = Fields /\ v.ch = ChannelOf[a]
      BY <3>1, <3>2 DEF Fields, NoRemote
    <3> HIDE DEF v, n
    <3>4. QED
      BY <2>2, <3>3, RemoteWritten
  <2>3. CASE n \notin Remotes /\ remote' = [remote EXCEPT ![n] = v]
    <3> HIDE DEF v, n
    <3>1. DOMAIN remote' = Remotes /\ \A r \in Remotes : remote'[r] = remote[r]
      BY <2>3 DEF IInv, RemoteShape, HasRemotes
    <3>2. QED
      BY <3>1, RemotesStay
  <2>4. QED
    BY <1>3, <2>1, <2>2, <2>3
<1>5. MapsMove(a, n)
  BY <1>1, MapsStay
<1> HIDE DEF n
<1>6. QED
  BY <1>1, <1>2, <1>4, <1>5, MovesKeep

-----------------------------------------------------------------------------
(***************************************************************************)
(* An apply outside its accounts, and everything else.                     *)
(***************************************************************************)
\* A step that comes to no new remote account.
Harmless ==
    /\ \E a : JobMoves(a, 0) /\ MapsMove(a, 0) /\ RemoteMoves(a, 0)

\* It keeps the invariant.
LEMMA HarmlessKeeps == IInv /\ Harmless => IInv'
<1>1. SUFFICES ASSUME IInv, NEW a, JobMoves(a, 0), MapsMove(a, 0), RemoteMoves(a, 0) PROVE IInv'
  BY DEF Harmless
<1>2. Claimable(a, 0)
  BY DEF Claimable
<1>3. QED
  BY <1>1, <1>2, MovesKeep

\* A disturbed job is as it was.
LEMMA DisturbMoves ==
  ASSUME IInv, NEW p \in Appliers
  PROVE  /\ DOMAIN Disturbed(job) = Appliers /\ IsJob(Disturbed(job)[p])
         /\ Disturbed(job)[p].before = job[p].before /\ Disturbed(job)[p].work = job[p].work
<1> DEFINE j == [job[p] EXCEPT !.solo = FALSE]
<1>1. IsJob(job[p])
  BY DEF IInv, JobShape
<1>2. DOMAIN j = DOMAIN Idle /\ j.before = job[p].before /\ j.work = job[p].work
  BY <1>1 DEF IsJob, Idle
<1>3. Disturbed(job)[p] = j /\ DOMAIN Disturbed(job) = Appliers
  BY DEF Disturbed
<1> HIDE DEF j
<1>4. QED
  BY <1>1, <1>2, <1>3 DEF IsJob

\* A step that only disturbs comes to nothing new.
LEMMA DisturbStays ==
  ASSUME IInv, Disturb, NEW a, NEW n
  PROVE  JobMoves(a, n)
<1>1. ASSUME NEW p \in Appliers
      PROVE  /\ DOMAIN job' = Appliers /\ IsJob(job'[p])
             /\ job'[p].before = job[p].before /\ job'[p].work = job[p].work
  <2>1. job' = Disturbed(job)
    BY DEF Disturb
  <2>2. QED
    BY <2>1, DisturbMoves
<1>2. DOMAIN job' = Appliers
  BY DEF Disturb, Disturbed
<1>3. JobShape'
  BY <1>1, <1>2 DEF JobShape, IsJob, HasRemotes
<1>4. QED
  BY <1>1, <1>3 DEF JobMoves

\* An apply begins with nothing of what the last one knew.
LEMMA StartKeeps ==
  ASSUME IInv, NEW p \in Appliers, Start(p)
  PROVE  IInv'
<1>1. maps' = maps /\ remote' = remote
  BY DEF Start, tables
<1>2. JobMoves(0, 0)
  <2>1. CASE Disturb
    BY <2>1, DisturbStays
  <2>2. CASE ~Disturb
    <3> DEFINE solo == wiping = NoMaps /\ \A q \in Appliers : job[q].pc = "idle"
               on == {b \in Kept : rows[b].on}
               j == [Idle EXCEPT !.pc = "listed", !.list = ByPosition(Kept), !.on = on,
                                 !.events = left.events, !.solo = solo]
    <3>1. job' = [Disturbed(job) EXCEPT ![p] = j]
      BY <2>2, Zenon DEF Start
    <3> HIDE DEF solo, on
    <3>2. DOMAIN j = DOMAIN Idle /\ j.before = NoRemotes /\ j.work = Idle.work
      BY DEF Idle
    <3> HIDE DEF j
    <3>3. /\ DOMAIN Idle.work = Accounts
          /\ \A b \in Accounts : DOMAIN Idle.work[b] = DOMAIN Waiting /\ Idle.work[b].id = 0
      BY DEF Idle, Waiting
    <3>4. HasRemotes(NoRemotes)
      BY DEF HasRemotes, NoRemotes, Fields
    <3>5. IsJob(j)
      BY <3>2, <3>3, <3>4 DEF IsJob
    <3>6. DOMAIN job' = Appliers /\ job'[p] = j /\ \A q \in Appliers \ {p} : job'[q] = Disturbed(job)[q]
      BY <3>1, DisturbMoves
    <3>7. ASSUME NEW q \in Appliers
          PROVE  IsJob(job'[q])
      <4>1. CASE q = p
        BY <3>5, <3>6, <4>1
      <4>2. CASE q # p
        BY <3>6, <4>2, DisturbMoves
      <4>3. QED
        BY <4>1, <4>2
    <3>8. JobShape'
      BY <3>6, <3>7 DEF JobShape, IsJob, HasRemotes
    <3>9. QED
      BY <3>2, <3>3, <3>6, <3>8, DisturbMoves DEF JobMoves
  <2>3. QED
    BY <2>1, <2>2
<1>3. MapsMove(0, 0) /\ RemoteMoves(0, 0)
  BY <1>1, MapsStay, RemoteSame
<1>4. QED
  BY <1>2, <1>3, HarmlessKeeps DEF Harmless

\* A remote account that is deleted.
LEMMA DeleteMoves ==
  ASSUME IInv, NEW r, remote' = [remote EXCEPT ![r] = NoRemote], NEW a, NEW n
  PROVE  RemoteMoves(a, n)
BY RemotesStay DEF IInv, RemoteShape, HasRemotes

\* What a job that is not given up does outside its accounts.
Advances(p, pc, list, seen, todo) ==
    job' = [job EXCEPT ![p] = [job[p] EXCEPT !.pc = pc, !.list = list, !.seen = seen, !.todo = todo]]

\* It comes to nothing new.
LEMMA AdvanceMoves ==
  ASSUME IInv, NEW p \in Appliers, NEW pc, NEW list, NEW seen, NEW todo, Advances(p, pc, list, seen, todo)
  PROVE  JobMoves(0, 0)
<1> DEFINE j == [job[p] EXCEPT !.pc = pc, !.list = list, !.seen = seen, !.todo = todo]
<1>1. IsJob(job[p])
  BY DEF IInv, JobShape
<1>2. DOMAIN j = DOMAIN Idle /\ j.before = job[p].before /\ j.work = job[p].work
  BY <1>1 DEF IsJob, Idle
<1>3. job' = [job EXCEPT ![p] = j]
  BY DEF Advances
<1> HIDE DEF j
<1>4. Stays(p, j)
  BY <1>2, <1>3 DEF Stays
<1>5. QED
  BY <1>4, JobStays

\* Every such step is one of these, or gives the apply up.
LEMMA ReapAdvances ==
  ASSUME IInv, NEW p \in Appliers,
         Sort(p) \/ Ping(p) \/ ReapRemote(p) \/ ReapRow(p) \/ ListRemote(p) \/ Sweep(p)
  PROVE  \/ \E st : Abort(p, st)
         \/ \E pc, list, seen, todo : Advances(p, pc, list, seen, todo)
<1>1. IsJob(job[p]) /\ p \in DOMAIN job
  BY DEF IInv, JobShape
<1>2. {"pc", "list", "seen", "todo"} \subseteq DOMAIN job[p]
  BY <1>1 DEF IsJob, Idle
<1>3. CASE Sort(p)
  <2>1. PICK list : job' = [job EXCEPT ![p].pc = "saved", ![p].list = list]
    BY <1>3 DEF Sort
  <2>2. Advances(p, "saved", list, job[p].seen, job[p].todo)
    BY <1>1, <1>2, <2>1 DEF Advances, IsJob, Idle
  <2>3. QED
    BY <2>2
<1>4. CASE Ping(p)
  <2>1. CASE \E st : Abort(p, st)
    BY <2>1
  <2>2. CASE \E seen : job' = [job EXCEPT ![p].pc = "reaping", ![p].seen = seen]
    <3>1. PICK seen : job' = [job EXCEPT ![p].pc = "reaping", ![p].seen = seen]
      BY <2>2
    <3>2. Advances(p, "reaping", job[p].list, seen, job[p].todo)
      BY <1>1, <1>2, <3>1 DEF Advances, IsJob, Idle
    <3>3. QED
      BY <3>2
  <2>3. QED
    BY <1>4, <2>1, <2>2 DEF Ping
<1>5. CASE ReapRemote(p) \/ Sweep(p)
  <2>1. CASE \E st : Abort(p, st)
    BY <2>1
  <2>2. CASE \E todo : job' = [job EXCEPT ![p].todo = todo]
    <3>1. PICK todo : job' = [job EXCEPT ![p].todo = todo]
      BY <2>2
    <3>2. Advances(p, job[p].pc, job[p].list, job[p].seen, todo)
      BY <1>1, <1>2, <3>1 DEF Advances, IsJob, Idle
    <3>3. QED
      BY <3>2
  <2>3. QED
    BY <1>5, <2>1, <2>2 DEF ReapRemote, Sweep
<1>6. CASE ReapRow(p)
  <2> DEFINE a == CHOOSE b \in Accounts : b \in job[p].todo
             seen == [job[p].seen EXCEPT ![a] = NoMap]
  <2>1. job' = [job EXCEPT ![p].todo = {}, ![p].seen[a] = NoMap]
    BY <1>6 DEF ReapRow
  <2> HIDE DEF a
  <2>2. Advances(p, job[p].pc, job[p].list, seen, {})
    BY <1>1, <1>2, <2>1 DEF Advances, IsJob, Idle
  <2>3. QED
    BY <2>2
<1>7. CASE ListRemote(p)
  <2>1. CASE \E st : Abort(p, st)
    BY <2>1
  <2>2. CASE \E todo : job' = [job EXCEPT ![p].pc = "sweeping", ![p].todo = todo]
    <3>1. PICK todo : job' = [job EXCEPT ![p].pc = "sweeping", ![p].todo = todo]
      BY <2>2
    <3>2. Advances(p, "sweeping", job[p].list, job[p].seen, todo)
      BY <1>1, <1>2, <3>1 DEF Advances, IsJob, Idle
    <3>3. QED
      BY <3>2
  <2>3. QED
    BY <1>7, <2>1, <2>2 DEF ListRemote
<1>8. QED
  BY <1>3, <1>4, <1>5, <1>6, <1>7

\* The accounts are sorted; the target is pinged; what is not wanted goes.
LEMMA ReapKeeps ==
  ASSUME IInv, NEW p \in Appliers,
         Sort(p) \/ Ping(p) \/ ReapRemote(p) \/ ReapRow(p) \/ ListRemote(p) \/ Sweep(p) \/ Finish(p)
  PROVE  IInv'
<1>1. MapsMove(0, 0)
  <2>1. maps' = maps \/ \E b : maps' = [maps EXCEPT ![b] = NoMap]
    BY DEF Sort, Ping, ReapRemote, ReapRow, ListRemote, Sweep, Finish, tables
  <2>2. QED
    BY <2>1, MapsStay
<1>2. RemoteMoves(0, 0)
  <2>1. remote' = remote \/ \E r : remote' = [remote EXCEPT ![r] = NoRemote]
    BY DEF Sort, Ping, ReapRemote, ReapRow, ListRemote, Sweep, Finish, Delete
  <2>2. QED
    BY <2>1, RemoteSame, DeleteMoves
<1>3. JobMoves(0, 0)
  BY ReapAdvances, AdvanceMoves, AbortMoves DEF Finish
<1>4. QED
  BY <1>1, <1>2, <1>3, HarmlessKeeps DEF Harmless

\* What is read of the target before the accounts are applied is on the
\* channels of now.
LEMMA SnapshotKeeps ==
  ASSUME IInv, NEW p \in Appliers, Snapshot(p)
  PROVE  IInv'
<1> DEFINE j == [job[p] EXCEPT !.pc = "working", !.before = remote]
<1>1. maps' = maps /\ remote' = remote
  BY DEF Snapshot, tables
<1>2. DOMAIN job = Appliers /\ \A q \in Appliers : IsJob(job[q])
  BY DEF IInv, JobShape
<1>3. job' = [job EXCEPT ![p] = j]
  BY <1>2 DEF Snapshot, IsJob, Idle
<1>4. DOMAIN j = DOMAIN Idle /\ j.before = remote /\ j.work = job[p].work
  BY <1>2 DEF IsJob, Idle
<1> HIDE DEF j
<1>5. DOMAIN job' = Appliers /\ job'[p] = j /\ \A q \in Appliers \ {p} : job'[q] = job[q]
  BY <1>2, <1>3
<1>6. IsJob(j)
  BY <1>2, <1>4 DEF IsJob, IInv, RemoteShape
<1>7. JobShape'
  BY <1>2, <1>5, <1>6 DEF JobShape, IsJob, HasRemotes
<1>8. RemoteShape' /\ MapShape'
  BY <1>1 DEF IInv, RemoteShape, MapShape, HasRemotes
<1>9. \A q \in Appliers : job'[q].work = job[q].work
  BY <1>4, <1>5
<1>10. Fit' /\ Apart'
  BY <1>1, <1>9 DEF IInv, Fit, Apart, Refers
<1>11. BeforeFits'
  BY <1>1, <1>4, <1>5 DEF IInv, BeforeFits
<1>12. QED
  BY <1>7, <1>8, <1>10, <1>11 DEF IInv

\* The steps of an account are as good as the ones above.
LEMMA AccountKeeps ==
  ASSUME IInv, NEW p \in Appliers, NEW a \in Accounts, AccountStep(p, a)
  PROVE  IInv'
BY PrepareKeeps, PutKeeps, FindKeeps, CreateKeeps, ModelsKeep, ScheduleKeeps, TestKeeps, OffKeeps
   DEF AccountStep

\* The operator, the sources, the target and the process only take away.
LEMMA EnvironmentKeeps == IInv /\ (Environment \/ WipeRows) => IInv'
<1>1. SUFFICES ASSUME IInv, Environment \/ WipeRows PROVE IInv'
  OBVIOUS
<1>2. MapsMove(0, 0)
  <2>1. maps' = maps \/ maps' = NoMaps
    BY <1>1 DEF Environment, Edit, WipeRemote, SourceChanges, ChannelDeleted, RemoteLost, Crash, WipeRows, tables
  <2>2. QED
    BY <1>1, <2>1, MapsStay
<1>3. RemoteMoves(0, 0)
  <2>1. CASE remote' = remote
    BY <1>1, <2>1, RemoteSame
  <2>2. CASE WipeRemote
    <3>1. DOMAIN remote' = Remotes /\ \A r \in Remotes : remote'[r] \in {NoRemote, remote[r]}
      BY <2>2 DEF WipeRemote
    <3>2. QED
      BY <1>1, <3>1, RemotesStay
  <2>3. CASE RemoteLost
    BY <1>1, <2>3, DeleteMoves DEF RemoteLost, Delete
  <2>4. QED
    BY <1>1, <2>1, <2>2, <2>3 DEF Environment, Edit, SourceChanges, ChannelDeleted, Crash, WipeRows
<1>4. JobMoves(0, 0)
  <2>1. CASE job' = job
    BY <1>1, <2>1, JobSame
  <2>2. CASE Disturb
    BY <1>1, <2>2, DisturbStays
  <2>3. CASE job' = [p \in Appliers |-> Idle]
    <3>1. /\ DOMAIN Idle.work = Accounts
          /\ \A b \in Accounts : DOMAIN Idle.work[b] = DOMAIN Waiting /\ Idle.work[b].id = 0
          /\ Idle.before = NoRemotes
      BY DEF Idle, Waiting
    <3>2. HasRemotes(NoRemotes)
      BY DEF HasRemotes, NoRemotes, Fields
    <3>3. IsJob(Idle)
      BY <3>1, <3>2 DEF IsJob
    <3>4. \A p \in Appliers : job'[p] = Idle
      BY <2>3
    <3>5. JobShape'
      BY <2>3, <3>3, <3>4 DEF JobShape, IsJob, HasRemotes
    <3>6. QED
      BY <3>1, <3>4, <3>5 DEF JobMoves
  <2>4. QED
    BY <1>1, <2>1, <2>2, <2>3
       DEF Environment, Edit, WipeRemote, SourceChanges, ChannelDeleted, RemoteLost, Crash, WipeRows
<1>5. QED
  BY <1>1, <1>2, <1>3, <1>4, HarmlessKeeps DEF Harmless

\* At first nobody refers to anything.
LEMMA InitSound == Init => IInv
<1>1. SUFFICES ASSUME NEW s \in Scenarios, InitOf(s) PROVE IInv
  BY DEF Init
<1>2. \A r \in Remotes : remote[r] = NoRemote
  BY <1>1 DEF InitOf, NoRemotes
<1>3. \A a \in Accounts : maps[a] = NoMap
  BY <1>1 DEF InitOf, NoMaps
<1>4. \A p \in Appliers : job[p] = Idle
  BY <1>1 DEF InitOf
<1>5. /\ DOMAIN Idle.work = Accounts
      /\ \A b \in Accounts : DOMAIN Idle.work[b] = DOMAIN Waiting /\ Idle.work[b].id = 0
      /\ Idle.before = NoRemotes
  BY DEF Idle, Waiting
<1>6. HasRemotes(NoRemotes)
  BY DEF HasRemotes, NoRemotes, Fields
<1>7. RemoteShape /\ MapShape
  BY <1>1, <1>3, <1>6 DEF InitOf, RemoteShape, MapShape, NoMaps
<1>8. JobShape
  BY <1>1, <1>4, <1>5, <1>6 DEF InitOf, JobShape, IsJob
<1>9. \A a \in Accounts : \A r : r # 0 => ~Refers(a, r)
  BY <1>3, <1>4, <1>5 DEF Refers, NoMap
<1>10. Apart
  BY <1>9 DEF Apart
<1>11. Fit /\ BeforeFits
  <2>1. ~NoRemote.live
    BY DEF NoRemote
  <2>2. \A r \in Remotes : ~remote[r].live
    BY <1>2, <2>1
  <2>3. QED
    BY <2>2 DEF Fit, BeforeFits
<1>12. QED
  BY <1>7, <1>8, <1>10, <1>11 DEF IInv

\* Every step keeps the invariant.
LEMMA NextKeeps == IInv /\ [Next]_vars => IInv'
<1>1. SUFFICES ASSUME IInv, [Next]_vars PROVE IInv'
  OBVIOUS
<1>2. ASSUME NEW p \in Appliers, Start(p) \/ Running(p) PROVE IInv'
  BY <1>1, <1>2, StartKeeps, ReapKeeps, SnapshotKeeps, AccountKeeps DEF Running
<1>3. CASE WipeRows \/ Environment
  BY <1>1, <1>3, EnvironmentKeeps
<1>4. CASE UNCHANGED vars
  <2>1. maps' = maps /\ remote' = remote /\ job' = job
    BY <1>4 DEF vars, tables
  <2>2. JobMoves(0, 0) /\ MapsMove(0, 0) /\ RemoteMoves(0, 0)
    BY <1>1, <2>1, JobSame, MapsStay, RemoteSame
  <2>3. QED
    BY <1>1, <2>2, HarmlessKeeps DEF Harmless
<1>5. QED
  BY <1>1, <1>2, <1>3, <1>4 DEF Next

-----------------------------------------------------------------------------
\* The invariant holds throughout.
THEOREM SyncInvariant == Spec => []IInv
<1>1. Init => IInv
  BY InitSound
<1>2. IInv /\ [Next]_vars => IInv'
  BY NextKeeps
<1>3. QED
  BY <1>1, <1>2, PTL DEF Spec

\* Two accounts of different source channels are never mapped to the same
\* remote account, whatever applies overlap and whatever fails between them.
THEOREM ChannelsApart ==
  Spec => [](\A a, b \in Accounts : ChannelOf[a] # ChannelOf[b] /\ maps[a].id # 0 => maps[a].id # maps[b].id)
<1>1. IInv => \A a, b \in Accounts : ChannelOf[a] # ChannelOf[b] /\ maps[a].id # 0 => maps[a].id # maps[b].id
  BY DEF IInv, Apart, Refers
<1>2. QED
  BY <1>1, SyncInvariant, PTL

\* In a group with a source channel for each account, no two accounts ever
\* share a remote account.  (The names of accounts of one channel differ in
\* their position only, which changes with the rates.)
THEOREM OwnRemotes ==
  ASSUME \A a, b \in Accounts : a # b => ChannelOf[a] # ChannelOf[b]
  PROVE  Spec => []OwnRemote
<1>1. IInv => OwnRemote
  BY DEF IInv, Apart, Refers, OwnRemote
<1>2. QED
  BY <1>1, SyncInvariant, PTL

=============================================================================
