------------------------ MODULE ForwardRequest_proofs ------------------------
(***************************************************************************)
(* Any number of requests, routes, conversations and policies on the       *)
(* sequential path of HandleForward: a route is paused by a request        *)
(* exactly when it is left after a failure that tells of its health, a     *)
(* conversation does not lose the route of its prompt cache to a pause,    *)
(* and its requests do not test that route side by side.                   *)
(*                                                                         *)
(* None follows from one step.  A pause is earned because no row names     *)
(* a request that is still on that route (Unpaused): a route is tried once *)
(* and the last attempt on it ends the walk there.  Affinity is kept       *)
(* because a request that has passed its conversation's paused route, or   *)
(* paused it itself, remembers to preserve it until it returns             *)
(* (Preserving), and time only makes a pause shorter.  A probe is alone    *)
(* because the entry of its conversation runs down no faster than its own  *)
(* hold, and only who has been on the route gives it back (HoldKept).      *)
(*                                                                         *)
(* Then the launch plan of a coordinated request, whatever its gateway     *)
(* group: a call beyond the transport retries is owed to a rejection.      *)
(*                                                                         *)
(* And one attempt's answer under the response rules: what the gate lets   *)
(* out has been judged.  Until it accepts, the validator knows all that    *)
(* came (Knows) and the gate holds it (ReleaseInv); what was accepted      *)
(* stays settled until one parked Write (Settled); and nobody is told of a *)
(* stream before that (ReadyInv).                                          *)
(***************************************************************************)
EXTENDS ForwardRequest, AttemptPlan, ResponseValidation,
        FiniteSetTheorems, SequenceTheorems, WellFoundedInduction, TLAPS

Row == [until : {None} \cup Nat, gen : Requests \cup {Nobody, Earlier}, armed : BOOLEAN]
Entry == [route : Routes \cup {NoRoute}, probe : Nat, blocked : Nat]
Lasts == Failures \cup {"", "config"}
Outs == {"", "unroutable", "served", "broken", "rejected", "canceled", "failed"}
Request ==
    [pc : {"new", "recovering", "planning", "ready", "flying", "ended"},
     view : [Routes -> Row], quiet : SUBSET Routes, todo : SUBSET Routes,
     pref : Routes \cup {NoRoute}, preserve : BOOLEAN, recovery : Routes \cup {NoRoute},
     until : {None} \cup Nat, tried : SUBSET Routes, route : Routes \cup {NoRoute},
     probe : BOOLEAN, hold : Nat, more : BOOLEAN, tries : Nat, max : Nat,
     attempts : Nat, ceiling : {None} \cup Nat, last : [Routes -> Lasts], out : Outs]

Shape ==
    /\ row \in [Routes -> Row]
    /\ quiet \in SUBSET Routes
    /\ entry \in [Sessions -> Entry]
    /\ failed \in [Keys -> SUBSET Routes]
    /\ group \in Policies /\ events \in Nat
    /\ req \in [Requests -> Request]

\* Where a request is on its walk.
Walking(x) ==
    /\ x.pc # "ended" => x.out = ""
    /\ x.pc \in {"new", "recovering"} => x.tried = {} /\ \A r \in Routes : x.last[r] = ""
    /\ x.pc \in {"ready", "flying"} => x.route \in x.tried

Spent(x) == group.attempts > 0 /\ x.attempts >= group.attempts

\* The rows a request wrote are of routes it has left, or leaves because its
\* attempts are spent.
Unpaused(q, x, rows) ==
    x.pc # "ended" =>
      \A r \in Routes : rows[r].gen = q =>
        /\ r \in x.tried
        /\ x.pc \in {"ready", "flying"} /\ r = x.route => x.pc = "ready" /\ Spent(x)

\* The conversation's route as the request knows it: paused, and nothing else
\* keeps it out.
HalfOpen(x) ==
    LET p == x.pref IN
    Live(x.view[p].until) /\ ~Due(x.view[p]) /\ p \notin x.quiet /\ p \notin Reserve

Preserving(x) ==
    x.pref # NoRoute /\ x.pc \in {"planning", "ready", "flying"} =>
      /\ x.tried # {} /\ HalfOpen(x) => x.preserve
      /\ Pausing(x.last[x.pref]) /\ (x.pc = "planning" \/ x.pref # x.route) => x.preserve

IInv ==
    /\ Shape
    /\ \A q \in Requests : Walking(req[q]) /\ Unpaused(q, req[q], row) /\ Preserving(req[q])

-----------------------------------------------------------------------------
\* The least of a set of numbers.
LEMMA MinIsThere ==
  ASSUME NEW S, S \subseteq Nat, S # {}
  PROVE  Min(S) \in S
<1>1. PICK x \in S : \A y \in S : ~(<<y, x>> \in OpToRel(<, Nat))
  BY NatLessThanWellFounded, WFMin
<1>2. \A y \in S : x <= y
  <2>1. SUFFICES ASSUME NEW y \in S, y < x PROVE FALSE
    BY SMT
  <2>2. <<y, x>> \in OpToRel(<, Nat)
    BY <2>1 DEF OpToRel
  <2>3. QED
    BY <1>1, <2>2
<1>3. QED
  BY <1>2 DEF Min

\* The later of two times is one of them, and none is before it.
LEMMA MaxOfTwo ==
  ASSUME NEW a \in Int, NEW b \in Int
  PROVE  Max({a, b}) \in {a, b} /\ Max({a, b}) >= a /\ Max({a, b}) >= b
<1>1. \E x \in {a, b} : \A y \in {a, b} : x >= y
  BY SMT
<1>2. QED
  BY <1>1 DEF Max

\* The longest of the pauses is one of them.
LEMMA LongestPause == Max(Pauses) \in Pauses
BY ForwardAssumption DEF Max

\* What the code is configured with.
LEMMA PolicyTyped ==
  ASSUME group \in Policies
  PROVE  group \in [retry : BOOLEAN, count : Nat, failover : BOOLEAN, fmax : Nat,
                     attempts : Nat, pause : Nat, late : BOOLEAN,
                     adaptive : BOOLEAN, armed : BOOLEAN]
BY ForwardAssumption

\* A blank request is one.
LEMMA FreshTyped == Fresh \in Request
BY DEF Fresh, Request, NoRow, Row, Lasts, Outs

\* A request whose handler has returned.
LEMMA EndedTyped ==
  ASSUME NEW x \in Request, NEW out \in Outs
  PROVE  /\ Ended(x, out) \in Request
         /\ Ended(x, out).pc = "ended"
         /\ Ended(x, out).out = out
         /\ out = "failed" /\ x.route \in Routes => Ended(x, out).last[x.route] = x.last[x.route]
<1>1. x.route \in Routes => x.last[x.route] \in Lasts
  BY DEF Request
<1> DEFINE e == [Fresh EXCEPT !.pc = "ended", !.out = out]
<1>2. e \in Request /\ e.pc = "ended" /\ e.out = out /\ e.last = Fresh.last
  BY FreshTyped DEF Request
<1>3. e.last \in [Routes -> Lasts]
  BY <1>2 DEF Request
<1>4. CASE out # "failed"
  <2>1. Ended(x, out) = e
    BY <1>4 DEF Ended
  <2>2. QED
    BY <1>2, <1>4, <2>1
<1>5. CASE out = "failed"
  <2> DEFINE l == [e.last EXCEPT ![x.route] = x.last[x.route]]
  <2>1. Ended(x, out) = [e EXCEPT !.last = l]
    BY <1>5, <1>2, FreshTyped DEF Ended, Request
  <2>2. l \in [Routes -> Lasts] /\ (x.route \in Routes => l[x.route] = x.last[x.route])
    BY <1>1, <1>3
  <2> HIDE DEF e, l
  <2>3. QED
    BY <1>2, <1>5, <2>1, <2>2 DEF Request
<1>6. QED
  BY <1>4, <1>5

-----------------------------------------------------------------------------
\* A step of one request: what the others have seen and done stands, as long
\* as no row comes to name them.
LEMMA RequestMoves ==
  ASSUME IInv, NEW q \in Requests, NEW x \in Request, req' = [req EXCEPT ![q] = x],
         row' \in [Routes -> Row], quiet' = quiet, entry' \in [Sessions -> Entry],
         failed' \in [Keys -> SUBSET Routes], UNCHANGED settings,
         \A r \in Routes, o \in Requests : o # q /\ row'[r].gen = o => row[r].gen = o,
         Walking(x), Unpaused(q, x, row'), Preserving(x)
  PROVE  IInv'
<1>1. group' = group /\ events' = events
  BY DEF settings
<1>2. Shape'
  BY <1>1 DEF IInv, Shape
<1>3. ASSUME NEW o \in Requests
      PROVE  Walking(req'[o]) /\ Unpaused(o, req'[o], row') /\ Preserving(req'[o])
  <2>1. CASE o = q
    BY <2>1 DEF IInv, Shape
  <2>2. CASE o # q
    <3>1. req'[o] = req[o]
      BY <2>2 DEF IInv, Shape
    <3>2. Walking(req[o]) /\ Unpaused(o, req[o], row) /\ Preserving(req[o])
      BY DEF IInv
    <3>3. Unpaused(o, req[o], row')
      BY <2>2, <3>2 DEF Unpaused
    <3>4. QED
      BY <3>1, <3>2, <3>3
  <2>3. QED
    BY <2>1, <2>2
<1>4. ASSUME NEW o \in Requests
      PROVE  (Walking(req[o]) /\ Unpaused(o, req[o], row) /\ Preserving(req[o]))'
  <2>1. Walking(req[o])'
    BY <1>3 DEF Walking
  <2>2. Unpaused(o, req[o], row)'
    BY <1>1, <1>3 DEF Unpaused, Spent
  <2>3. Preserving(req[o])'
    BY <1>1, <1>3 DEF Preserving, Pausing, HalfOpen
  <2>4. QED
    BY <2>1, <2>2, <2>3
<1>5. QED
  BY <1>2, <1>4 DEF IInv

\* A step of the rest of the system leaves the requests as they are.
LEMMA RestMoves ==
  ASSUME IInv, req' = req, group' = group, events' \in Nat,
         row' \in [Routes -> Row], quiet' \in SUBSET Routes, entry' \in [Sessions -> Entry],
         failed' \in [Keys -> SUBSET Routes],
         \A r \in Routes, o \in Requests : row'[r].gen = o => row[r].gen = o
  PROVE  IInv'
<1>1. Shape'
  BY DEF IInv, Shape
<1>2. ASSUME NEW o \in Requests
      PROVE  (Walking(req[o]) /\ Unpaused(o, req[o], row) /\ Preserving(req[o]))'
  <2>1. Walking(req[o]) /\ Unpaused(o, req[o], row) /\ Preserving(req[o])
    BY DEF IInv
  <2>2. Unpaused(o, req[o], row')
    BY <2>1 DEF Unpaused
  <2>3. QED
    BY <2>1, <2>2 DEF Walking, Unpaused, Spent, Preserving, Pausing, HalfOpen
<1>3. QED
  BY <1>1, <1>2 DEF IInv

\* A request that is over says nothing any more.
LEMMA EndedSound ==
  ASSUME NEW q \in Requests, NEW x, NEW rows, x.pc = "ended"
  PROVE  Walking(x) /\ Unpaused(q, x, rows) /\ Preserving(x)
BY DEF Walking, Unpaused, Preserving

-----------------------------------------------------------------------------
\* The initial states.
LEMMA InitSound == Init => IInv
<1> SUFFICES ASSUME Init PROVE IInv
  OBVIOUS
<1>1. PICK s \in Scenarios :
         /\ group \in s.groups /\ events = s.events
         /\ row = [r \in Routes |-> IF r \in s.paused
                     THEN [until |-> Max(Pauses), gen |-> Earlier, armed |-> group.armed] ELSE NoRow]
         /\ entry \in [Sessions -> {[NoEntry EXCEPT !.route = r] :
                                      r \in IF s.bound = {} THEN {NoRoute} ELSE s.bound}]
         /\ req = [q \in Requests |->
                     IF q \in s.requests THEN Fresh ELSE [Fresh EXCEPT !.pc = "ended"]]
  BY DEF Init
<1>2. s \in [requests : SUBSET Requests, paused : SUBSET Routes,
             bound : SUBSET Routes, groups : SUBSET Policies, events : Nat]
  BY ForwardAssumption
<1>3. group \in Policies /\ events \in Nat /\ s.bound \subseteq Routes
  BY <1>1, <1>2
<1>4. group.armed \in BOOLEAN
  BY <1>3, PolicyTyped
<1>5. Max(Pauses) \in Nat
  BY LongestPause, ForwardAssumption
<1>6. row \in [Routes -> Row]
  BY <1>1, <1>4, <1>5 DEF Row, NoRow
<1>7. \A r \in Routes \cup {NoRoute} : [NoEntry EXCEPT !.route = r] \in Entry
  BY DEF NoEntry, Entry
<1>8. entry \in [Sessions -> Entry]
  BY <1>1, <1>3, <1>7
<1>9. [Fresh EXCEPT !.pc = "ended"] \in Request /\ [Fresh EXCEPT !.pc = "ended"].pc = "ended"
  BY FreshTyped DEF Request
<1>10. req \in [Requests -> Request]
  BY <1>1, <1>9, FreshTyped
<1>11. Shape
  BY <1>3, <1>6, <1>8, <1>10 DEF Shape, Init
<1>12. ASSUME NEW q \in Requests
       PROVE  Walking(req[q]) /\ Unpaused(q, req[q], row) /\ Preserving(req[q])
  <2>1. CASE q \notin s.requests
    BY <2>1, <1>1, <1>9, EndedSound
  <2>2. CASE q \in s.requests
    <3>1. req[q] = Fresh
      BY <2>2, <1>1
    <3>2. /\ Fresh.pc = "new" /\ Fresh.out = "" /\ Fresh.tried = {}
          /\ \A r \in Routes : Fresh.last[r] = ""
      BY DEF Fresh
    <3>3. \A r \in Routes : row[r].gen # q
      BY <1>1, ForwardAssumption DEF NoRow
    <3>4. QED
      BY <3>1, <3>2, <3>3 DEF Walking, Unpaused, Preserving
  <2>3. QED
    BY <2>1, <2>2
<1>13. QED
  BY <1>11, <1>12 DEF IInv

-----------------------------------------------------------------------------
\* The routes are read.
LEMMA ListRoutesKeeps ==
  ASSUME IInv, NEW q \in Requests, ListRoutes(q)
  PROVE  IInv'
<1>1. PICK S \in Recoverable :
         req' = [req EXCEPT ![q].pc = "recovering", ![q].view = row, ![q].quiet = quiet, ![q].todo = S]
  BY DEF ListRoutes
<1>2. S \in SUBSET Routes
  BY <1>1 DEF Recoverable, kSubset
<1> DEFINE x == [req[q] EXCEPT !.pc = "recovering", !.view = row, !.quiet = quiet, !.todo = S]
<1>3. req[q] \in Request /\ row \in [Routes -> Row] /\ quiet \in SUBSET Routes
  BY DEF IInv, Shape
<1>4. /\ x \in Request /\ x.pc = "recovering" /\ x.out = req[q].out
      /\ x.tried = req[q].tried /\ x.last = req[q].last
  BY <1>2, <1>3 DEF Request
<1>5. req' = [req EXCEPT ![q] = x]
  BY <1>1 DEF IInv, Shape
<1>6. UNCHANGED <<row, quiet, entry, failed, settings>> /\ req[q].pc = "new"
  BY DEF ListRoutes
<1> HIDE DEF x
<1>7. Walking(req[q]) /\ Unpaused(q, req[q], row)
  BY DEF IInv
<1>8. Walking(x) /\ Unpaused(q, x, row') /\ Preserving(x)
  BY <1>4, <1>6, <1>7 DEF Walking, Unpaused, Preserving
<1>9. QED
  BY <1>4, <1>5, <1>6, <1>8, RequestMoves DEF IInv, Shape

\* A route is recovered, or stays restricted for this request.
LEMMA RecoverKeeps ==
  ASSUME IInv, NEW q \in Requests, Recover(q)
  PROVE  IInv'
<1>1. req[q].pc = "recovering" /\ UNCHANGED <<quiet, entry, failed, settings>>
  BY DEF Recover
<1>2. PICK r \in req[q].todo :
        LET seen == req[q].view[r]
            lifted == [seen EXCEPT !.until = None, !.armed = FALSE]
            same == row[r].until = seen.until /\ row[r].gen = seen.gen
        IN  /\ row' = IF Live(seen.until) /\ same THEN [row EXCEPT ![r] = lifted] ELSE row
            /\ IF Live(seen.until) => same
               THEN req' = [req EXCEPT ![q].todo = @ \ {r}, ![q].view[r] = lifted, ![q].quiet = @ \ {r}]
               ELSE req' = [req EXCEPT ![q].todo = @ \ {r}]
  BY DEF Recover
<1> DEFINE seen == req[q].view[r]
           lifted == [seen EXCEPT !.until = None, !.armed = FALSE]
           same == row[r].until = seen.until /\ row[r].gen = seen.gen
           view == [req[q].view EXCEPT ![r] = lifted]
           x == IF Live(seen.until) => same
                THEN [req[q] EXCEPT !.todo = @ \ {r}, !.view = view, !.quiet = @ \ {r}]
                ELSE [req[q] EXCEPT !.todo = @ \ {r}]
<1>3. req[q] \in Request /\ row \in [Routes -> Row] /\ r \in Routes
  BY DEF IInv, Shape, Request
<1>4. seen \in Row /\ req[q].view \in [Routes -> Row]
  BY <1>3 DEF Request
<1>5. lifted \in Row /\ lifted.gen = seen.gen
  BY <1>4 DEF Row
<1>6. view \in [Routes -> Row]
  BY <1>4, <1>5
<1>7. row' = IF Live(seen.until) /\ same THEN [row EXCEPT ![r] = lifted] ELSE row
  BY <1>2
<1>8. req' = [req EXCEPT ![q] = x]
  BY <1>2, <1>3 DEF IInv, Shape, Request
<1> HIDE DEF view
<1> HIDE DEF view
<1>9. /\ x \in Request /\ x.pc = req[q].pc /\ x.out = req[q].out
      /\ x.tried = req[q].tried /\ x.last = req[q].last
  BY <1>3, <1>6 DEF Request
<1> HIDE DEF x, lifted, seen
<1>10. row' \in [Routes -> Row]
  BY <1>3, <1>5, <1>7
<1>11. \A b \in Routes : row'[b].gen = row[b].gen
  BY <1>3, <1>5, <1>7
<1>12. Walking(req[q]) /\ Unpaused(q, req[q], row)
  BY DEF IInv
<1>13. Walking(x) /\ Unpaused(q, x, row') /\ Preserving(x)
  BY <1>1, <1>9, <1>11, <1>12 DEF Walking, Unpaused, Preserving
<1>14. QED
  BY <1>1, <1>8, <1>9, <1>10, <1>11, <1>13, RequestMoves DEF IInv, Shape

\* The conversation's route is looked up.
LEMMA LookUpKeeps ==
  ASSUME IInv, NEW q \in Requests, LookUp(q)
  PROVE  IInv'
<1>1. /\ req[q].pc = "recovering" /\ UNCHANGED <<row, quiet, entry, failed, settings>>
      /\ req' = [req EXCEPT ![q].pc = "planning", ![q].pref = entry[SessionOf[q]].route]
  BY DEF LookUp
<1> DEFINE p == entry[SessionOf[q]].route
           x == [req[q] EXCEPT !.pc = "planning", !.pref = p]
<1>2. req[q] \in Request /\ p \in Routes \cup {NoRoute}
  BY DEF IInv, Shape, Sessions, Entry
<1>3. req' = [req EXCEPT ![q] = x]
  BY <1>1 DEF IInv, Shape
<1> HIDE DEF p
<1>4. /\ x \in Request /\ x.pc = "planning" /\ x.out = req[q].out
      /\ x.tried = req[q].tried /\ x.last = req[q].last /\ x.pref \in Routes \cup {NoRoute}
  BY <1>2 DEF Request
<1> HIDE DEF x
<1>5. Walking(req[q]) /\ Unpaused(q, req[q], row)
  BY DEF IInv
<1>6. x.tried = {} /\ \A r \in Routes : x.last[r] = ""
  BY <1>1, <1>4, <1>5 DEF Walking
<1>7. ~Pausing("")
  BY DEF Pausing, shouldCooldownUpstreamFailure
<1>8. Walking(x) /\ Unpaused(q, x, row') /\ Preserving(x)
  BY <1>1, <1>4, <1>5, <1>6, <1>7 DEF Walking, Unpaused, Preserving
<1>9. QED
  BY <1>1, <1>3, <1>4, <1>8, RequestMoves DEF IInv, Shape

-----------------------------------------------------------------------------
\* A probed route is one the request has not tried and found paused only.
LEMMA MayProbeRoute ==
  ASSUME NEW q \in Requests, req[q] \in Request, MayProbe(q)
  PROVE  /\ req[q].pref \in Routes \ req[q].tried
         /\ req[q].view[req[q].pref].until \in Nat
         /\ Live(req[q].view[req[q].pref].until)
<1>1. req[q].pref \in Routes \ req[q].tried /\ Live(req[q].view[req[q].pref].until)
  BY DEF MayProbe, Request
<1>2. req[q].view[req[q].pref] \in Row
  BY <1>1 DEF Request
<1>3. QED
  BY <1>1, <1>2 DEF Row, Live, None

\* Prices make a ceiling.
LEMMA CeilingTyped ==
  ASSUME NEW q \in Requests, req[q] \in Request, NEW C \in SUBSET Routes, NEW recovery
  PROVE  Ceiling(q, C, recovery) \in {None} \cup Nat
<1> DEFINE tier == C \ Reserve
           pool == IF Cardinality(tier) > 1 THEN tier \ {recovery} ELSE tier
           prices == {Price[r] : r \in pool}
<1>1. pool \subseteq Routes
  OBVIOUS
<1> HIDE DEF pool
<1>2. prices \subseteq Nat /\ (pool # {} => prices # {})
  <2>1. \A r \in pool : Price[r] \in Nat
    BY <1>1, ForwardAssumption
  <2>2. QED
    BY <2>1
<1>3. ASSUME pool # {} PROVE Premium + Min(prices) \in Nat
  <2> HIDE DEF prices
  <2>1. Min(prices) \in prices
    BY <1>2, <1>3, MinIsThere
  <2>2. Min(prices) \in Nat
    BY <1>2, <1>3, <2>1
  <2>3. Premium \in Nat
    BY ForwardAssumption
  <2>4. \A m, n \in Nat : m + n \in Nat
    OBVIOUS
  <2>5. QED
    BY <2>2, <2>3, <2>4
<1>4. req[q].ceiling \in {None} \cup Nat
  BY DEF Request
<1>5. Ceiling(q, C, recovery) = IF ~group.adaptive \/ req[q].ceiling # None \/ pool = {} THEN req[q].ceiling
                                ELSE Premium + Min(prices)
  BY DEF Ceiling, pool
<1> HIDE DEF prices
<1>6. QED
  BY <1>3, <1>4, <1>5

\* What is affordable, and what comes first of it, is among the candidates.
LEMMA HeadsAreCandidates ==
  ASSUME NEW q, NEW C, NEW ceiling, NEW pinned
  PROVE  /\ Affordable(C, ceiling) \subseteq C
         /\ Heads(q, C, pinned) \subseteq C
<1>1. Affordable(C, ceiling) \subseteq C
  BY DEF Affordable
<1>2. Heads(q, C, pinned) \subseteq C
  BY DEF Heads
<1>3. QED
  BY <1>1, <1>2

\* A chosen route.
Chosen(q, r, x) ==
    /\ x \in Request /\ x.pc = "ready" /\ x.route = r /\ x.tried = req[q].tried \cup {r}
    /\ x.view = req[q].view /\ x.quiet = req[q].quiet /\ x.pref = req[q].pref
    /\ x.preserve = req[q].preserve /\ x.last = req[q].last /\ x.out = req[q].out

\* Choosing a route changes the walk and nothing of what the request knows.
LEMMA ChooseTyped ==
  ASSUME NEW q \in Requests, req[q] \in Request, group \in Policies, NEW r \in Routes,
         NEW recovery \in Routes \cup {NoRoute}, NEW until, recovery # NoRoute => until \in Nat,
         NEW ceiling \in {None} \cup Nat
  PROVE  Chosen(q, r, Choose(q, r, recovery, until, ceiling))
<1> DEFINE probe == req[q].tried = {} /\ recovery = r
           max == IF probe THEN 1 ELSE 1 + (IF group.retry THEN group.count ELSE 0)
           more == Affordable(Untried(q) \ {r}, ceiling) # {}
           rec == IF recovery = NoRoute THEN req[q].recovery ELSE recovery
           til == IF recovery = NoRoute THEN req[q].until ELSE until
           hold == IF recovery = NoRoute THEN req[q].hold ELSE Hold
<1>1. max \in Nat
  BY PolicyTyped
<1>2. rec \in Routes \cup {NoRoute} /\ til \in {None} \cup Nat /\ hold \in Nat
  BY ForwardAssumption DEF Request
<1>3. probe \in BOOLEAN /\ more \in BOOLEAN
  OBVIOUS
<1>4. Choose(q, r, recovery, until, ceiling) =
        [req[q] EXCEPT !.pc = "ready", !.route = r, !.tried = @ \cup {r}, !.tries = 0, !.probe = probe,
                       !.max = max, !.more = more, !.ceiling = ceiling, !.recovery = rec,
                       !.until = til, !.hold = hold]
  BY Zenon DEF Choose
<1> HIDE DEF probe, max, more, rec, til, hold
<1> DEFINE tried == req[q].tried \cup {r}
           x == [req[q] EXCEPT !.pc = "ready", !.route = r, !.tried = tried, !.tries = 0, !.probe = probe,
                       !.max = max, !.more = more, !.ceiling = ceiling, !.recovery = rec,
                       !.until = til, !.hold = hold]
<1>5. tried \in SUBSET Routes
  BY DEF Request
<1>6. Choose(q, r, recovery, until, ceiling) = x
  BY <1>4
<1> HIDE DEF tried
<1>7. x \in Request
  BY <1>1, <1>2, <1>3, <1>5 DEF Request
<1>8. /\ x.pc = "ready" /\ x.route = r /\ x.tried = tried
      /\ x.view = req[q].view /\ x.quiet = req[q].quiet /\ x.pref = req[q].pref
      /\ x.preserve = req[q].preserve /\ x.last = req[q].last /\ x.out = req[q].out
  BY DEF Request
<1> HIDE DEF x
<1>9. QED
  BY <1>6, <1>7, <1>8 DEF Chosen, tried

\* The next route is chosen, or none is left.
LEMMA PlanKeeps ==
  ASSUME IInv, NEW q \in Requests, Plan(q)
  PROVE  IInv'
<1> DEFINE s == SessionOf[q]
           claims == MayProbe(q) /\ claimRouteAffinityProbe(q)
           p == req[q].pref
           C == Untried(q) \cup (IF claims THEN {p} ELSE {})
           ceiling == Ceiling(q, C, IF claims THEN p ELSE NoRoute)
           A == Affordable(C, ceiling)
           passedOver == claims /\ p \notin A /\ req[q].tried = {}
           recovery == IF claims /\ ~passedOver THEN p ELSE NoRoute
           pinned == IF claims THEN recovery ELSE IF group.adaptive THEN NoRoute ELSE p
           y(r) == Choose(q, r, recovery, req[q].view[p].until, ceiling)
           x(r) == [y(r) EXCEPT !.pref = IF passedOver THEN NoRoute ELSE @,
                                !.preserve = ~passedOver /\ (@ \/ MayProbe(q))]
<1>1. req[q].pc = "planning" /\ UNCHANGED <<row, quiet, failed, settings>>
  BY DEF Plan
<1>2. IF A = {} THEN req' = [req EXCEPT ![q] = Ended(req[q], IF req[q].tried = {} THEN "unroutable" ELSE "failed")]
      ELSE \E r \in Heads(q, A, pinned) : req' = [req EXCEPT ![q] = x(r)]
  BY Zenon DEF Plan
<1>3. entry' = IF passedOver THEN [entry EXCEPT ![s].blocked = req[q].view[p].until]
               ELSE IF claims THEN [entry EXCEPT ![s].probe = Hold] ELSE entry
  BY DEF Plan
<1>4. /\ req[q] \in Request /\ req \in [Requests -> Request] /\ group \in Policies
      /\ entry \in [Sessions -> Entry] /\ s \in Sessions
  BY DEF IInv, Shape, Sessions
<1>5. claims => p \in Routes \ req[q].tried /\ req[q].view[p].until \in Nat
  BY <1>4, MayProbeRoute
<1>6. C \subseteq Routes \ req[q].tried
  BY <1>5 DEF Untried
<1>7. ceiling \in {None} \cup Nat
  BY <1>4, <1>6, CeilingTyped
<1>8. A \subseteq C /\ Heads(q, A, pinned) \subseteq A
  BY HeadsAreCandidates
<1>9. recovery \in Routes \cup {NoRoute} /\ (recovery # NoRoute => req[q].view[p].until \in Nat)
  BY <1>5
<1> HIDE DEF C, ceiling, A, recovery, pinned
<1>10. entry' \in [Sessions -> Entry]
  <2>1. CASE passedOver
    BY <2>1, <1>3, <1>4, <1>5 DEF Entry
  <2>2. CASE ~passedOver
    BY <2>2, <1>3, <1>4, ForwardAssumption DEF Entry
  <2>3. QED
    BY <2>1, <2>2
<1>11. Walking(req[q]) /\ Unpaused(q, req[q], row) /\ Preserving(req[q])
  BY DEF IInv
<1>12. row' \in [Routes -> Row] /\ failed' \in [Keys -> SUBSET Routes]
  BY <1>1 DEF IInv, Shape
<1>13. CASE A = {}
  <2> DEFINE out == IF req[q].tried = {} THEN "unroutable" ELSE "failed"
  <2>1. out \in Outs
    BY DEF Outs
  <2>2. Ended(req[q], out) \in Request /\ Ended(req[q], out).pc = "ended"
    BY <1>4, <2>1, EndedTyped
  <2>3. req' = [req EXCEPT ![q] = Ended(req[q], out)]
    BY <1>2, <1>13
  <2> HIDE DEF out
  <2>4. QED
    BY <1>1, <1>10, <1>12, <2>2, <2>3, EndedSound, RequestMoves
<1>14. CASE A # {}
  <2>1. PICK r \in Heads(q, A, pinned) : req' = [req EXCEPT ![q] = x(r)]
    BY <1>2, <1>14
  <2>2. r \in Routes /\ r \notin req[q].tried
    BY <1>6, <1>8
  <2>3. /\ y(r) \in Request /\ y(r).pc = "ready" /\ y(r).route = r /\ y(r).tried = req[q].tried \cup {r}
        /\ y(r).view = req[q].view /\ y(r).quiet = req[q].quiet /\ y(r).pref = req[q].pref
        /\ y(r).preserve = req[q].preserve /\ y(r).last = req[q].last /\ y(r).out = req[q].out
    <3> DEFINE until == req[q].view[p].until
    <3>1. recovery # NoRoute => until \in Nat
      BY <1>9
    <3> HIDE DEF until
    <3>2. Chosen(q, r, Choose(q, r, recovery, until, ceiling))
      BY <1>4, <1>7, <1>9, <2>2, <3>1, ChooseTyped
    <3>3. Chosen(q, r, y(r))
      BY <3>2 DEF until
    <3> HIDE DEF y
    <3>4. QED
      BY <3>3 DEF Chosen
  <2> DEFINE pref == IF passedOver THEN NoRoute ELSE p
             preserve == ~passedOver /\ (req[q].preserve \/ MayProbe(q))
             z == [y(r) EXCEPT !.pref = pref, !.preserve = preserve]
  <2>4. x(r) = z
    BY <2>3
  <2>5. pref \in Routes \cup {NoRoute} /\ preserve \in BOOLEAN
    BY <1>4 DEF Request
  <2> HIDE DEF x, y, pref, preserve
  <2>6. /\ z \in Request /\ z.pc = "ready" /\ z.route = r /\ z.tried = req[q].tried \cup {r}
        /\ z.view = req[q].view /\ z.quiet = req[q].quiet /\ z.pref = pref
        /\ z.preserve = preserve /\ z.last = req[q].last /\ z.out = req[q].out
    BY <2>3, <2>5 DEF Request
  <2> HIDE DEF z
  <2>7. Walking(z)
    BY <1>1, <1>11, <2>6 DEF Walking
  <2>8. Unpaused(q, z, row')
    BY <1>1, <1>11, <2>2, <2>6 DEF Unpaused
  <2>9. ASSUME pref # NoRoute PROVE pref = p /\ preserve = (req[q].preserve \/ MayProbe(q))
    BY <2>9 DEF pref, preserve
  <2>10. ASSUME pref # NoRoute, HalfOpen(z) PROVE preserve
    <3>1. HalfOpen(req[q])
      BY <2>6, <2>9, <2>10 DEF HalfOpen
    <3>2. CASE req[q].tried # {}
      BY <1>1, <1>11, <2>9, <2>10, <3>1, <3>2 DEF Preserving
    <3>3. CASE req[q].tried = {}
      <4>1. MayProbe(q)
        BY <3>1, <3>3, <2>9, <2>10 DEF MayProbe, HalfOpen
      <4>2. QED
        BY <4>1, <2>9, <2>10
    <3>4. QED
      BY <3>2, <3>3
  <2>11. ASSUME pref # NoRoute, Pausing(z.last[pref]) PROVE preserve
    BY <1>1, <1>11, <2>6, <2>9, <2>11 DEF Preserving
  <2>12. Preserving(z)
    BY <2>6, <2>10, <2>11 DEF Preserving
  <2>13. QED
    BY <1>1, <1>10, <1>12, <2>1, <2>4, <2>6, <2>7, <2>8, <2>12, RequestMoves
<1>15. QED
  BY <1>13, <1>14

-----------------------------------------------------------------------------
\* The end of a request.
LEMMA EndKeeps ==
  ASSUME IInv, NEW q \in Requests, NEW x \in Request, NEW out \in Outs,
         req' = [req EXCEPT ![q] = Ended(x, out)],
         row' \in [Routes -> Row], quiet' = quiet, entry' \in [Sessions -> Entry],
         failed' \in [Keys -> SUBSET Routes], UNCHANGED settings,
         \A r \in Routes, o \in Requests : o # q /\ row'[r].gen = o => row[r].gen = o
  PROVE  IInv'
<1>1. Ended(x, out) \in Request /\ Ended(x, out).pc = "ended"
  BY EndedTyped
<1>2. QED
  BY <1>1, EndedSound, RequestMoves

\* A request in flight, or about to be, is on a route.
LEMMA OnRoute ==
  ASSUME IInv, NEW q \in Requests, req[q].pc \in {"ready", "flying"}
  PROVE  req[q] \in Request /\ req[q].route \in Routes /\ SessionOf[q] \in Sessions /\ RetryKeyOf[q] \in Keys
<1>1. req[q] \in Request /\ req[q].route \in req[q].tried
  BY DEF IInv, Shape, Walking
<1>2. QED
  BY <1>1 DEF Request, Sessions, Keys

\* The hold of a probe is given back; the conversation's route stays.
LEMMA FinishedTyped ==
  ASSUME IInv, NEW q \in Requests, NEW success \in BOOLEAN, NEW pause \in {None} \cup Nat
  PROVE  /\ Finished(q, success, pause) \in [Sessions -> Entry]
         /\ \A s \in Sessions : Finished(q, success, pause)[s].route = entry[s].route
<1> DEFINE s == SessionOf[q]
           longest == Max({pause, req[q].until})
           blocked == IF success THEN 0 ELSE IF Live(longest) THEN longest ELSE entry[s].blocked
<1>1. req[q] \in Request /\ entry \in [Sessions -> Entry] /\ s \in Sessions
  BY DEF IInv, Shape, Sessions
<1>2. req[q].until \in {None} \cup Nat
  BY <1>1 DEF Request
<1>3. longest \in {pause, req[q].until}
  <2>1. pause \in Int /\ req[q].until \in Int
    BY <1>2 DEF None
  <2>2. QED
    BY <2>1, MaxOfTwo
<1>4. entry[s] \in Entry
  BY <1>1
<1> HIDE DEF longest
<1>5. blocked \in Nat
  BY <1>2, <1>3, <1>4 DEF Live, None, Entry
<1>6. Finished(q, success, pause) = IF entry[s].route # req[q].route THEN entry
                                    ELSE [entry EXCEPT ![s].probe = 0, ![s].blocked = blocked]
  BY DEF Finished, longest
<1> HIDE DEF blocked
<1>7. QED
  BY <1>1, <1>4, <1>5, <1>6 DEF Entry

\* A probe returned with the request's route.
LEMMA ReturnedTyped ==
  ASSUME IInv, NEW q \in Requests
  PROVE  Returned(q) \in [Sessions -> Entry]
<1>1. Finished(q, FALSE, None) \in [Sessions -> Entry]
  BY FinishedTyped
<1>2. QED
  BY <1>1 DEF Returned, IInv, Shape

\* A route remembered for a request id.
LEMMA RememberingTyped ==
  ASSUME IInv, NEW q \in Requests, NEW r \in Routes
  PROVE  Remembering(q, r) \in [Keys -> SUBSET Routes]
BY DEF Remembering, IInv, Shape, Keys

\* An attempt begins, unless they are spent.
LEMMA AttemptKeeps ==
  ASSUME IInv, NEW q \in Requests, Attempt(q)
  PROVE  IInv'
<1>1. req[q].pc = "ready" /\ UNCHANGED <<row, quiet, entry, failed, settings>>
  BY DEF Attempt
<1>2. req[q] \in Request /\ req[q].route \in Routes
  BY <1>1, OnRoute
<1>3. row' \in [Routes -> Row] /\ entry' \in [Sessions -> Entry] /\ failed' \in [Keys -> SUBSET Routes]
  BY <1>1 DEF IInv, Shape
<1>4. CASE Limited(q)
  <2>1. req' = [req EXCEPT ![q] = Ended(req[q], "failed")]
    BY <1>4 DEF Attempt
  <2>2. QED
    BY <1>1, <1>2, <1>3, <2>1, EndKeeps DEF Outs
<1>5. CASE ~Limited(q)
  <2> DEFINE tally == IF group.attempts > 0 THEN req[q].attempts + 1 ELSE req[q].attempts
             tries == req[q].tries + 1
             x == [req[q] EXCEPT !.pc = "flying", !.tries = tries, !.attempts = tally]
  <2>1. req' = [req EXCEPT ![q] = x]
    <3>1. req' = [req EXCEPT ![q].pc = "flying", ![q].tries = @ + 1,
                              ![q].attempts = IF group.attempts > 0 THEN @ + 1 ELSE @]
      BY <1>5 DEF Attempt
    <3>2. QED
      BY <3>1, <1>2 DEF IInv, Shape, Request
  <2>2. tally \in Nat /\ tries \in Nat
    BY <1>2 DEF Request
  <2> HIDE DEF tally, tries
  <2>3. /\ x \in Request /\ x.pc = "flying" /\ x.route = req[q].route /\ x.tried = req[q].tried
        /\ x.view = req[q].view /\ x.quiet = req[q].quiet /\ x.pref = req[q].pref
        /\ x.preserve = req[q].preserve /\ x.last = req[q].last /\ x.out = req[q].out
    BY <1>2, <2>2 DEF Request
  <2> HIDE DEF x
  <2>4. Walking(req[q]) /\ Unpaused(q, req[q], row) /\ Preserving(req[q])
    BY DEF IInv
  <2>5. ~Spent(req[q])
    BY <1>5 DEF Spent, Limited
  <2>6. Walking(x)
    BY <1>1, <2>3, <2>4 DEF Walking
  <2>7. Unpaused(q, x, row')
    BY <1>1, <2>3, <2>4, <2>5 DEF Unpaused
  <2>8. Preserving(x)
    BY <1>1, <2>3, <2>4 DEF Preserving, HalfOpen
  <2>9. QED
    BY <1>1, <1>3, <2>1, <2>3, <2>6, <2>7, <2>8, RequestMoves
<1>6. QED
  BY <1>4, <1>5

\* Delivered: the row the request knew of is lifted, by its own name.
LEMMA ServeKeeps ==
  ASSUME IInv, NEW q \in Requests, Serve(q)
  PROVE  IInv'
<1> DEFINE r == req[q].route
           s == SessionOf[q]
           gen == req[q].view[r].gen
           freed == Finished(q, TRUE, None)
<1>1. /\ req[q].pc = "flying" /\ UNCHANGED <<quiet, failed, settings>>
      /\ row' = IF gen # Nobody /\ row[r].gen = gen THEN [row EXCEPT ![r].until = None, ![r].armed = FALSE] ELSE row
      /\ entry' = IF shouldRememberRoute(q) /\ freed[s].route # r
                  THEN [freed EXCEPT ![s] = [NoEntry EXCEPT !.route = r]] ELSE freed
      /\ req' = [req EXCEPT ![q] = Ended(req[q], "served")]
  BY DEF Serve
<1>2. req[q] \in Request /\ r \in Routes /\ s \in Sessions
  BY <1>1, OnRoute
<1>3. freed \in [Sessions -> Entry]
  BY FinishedTyped
<1>4. [NoEntry EXCEPT !.route = r] \in Entry
  BY <1>2 DEF NoEntry, Entry
<1> HIDE DEF freed
<1>5. entry' \in [Sessions -> Entry]
  BY <1>1, <1>2, <1>3, <1>4
<1>6. row \in [Routes -> Row] /\ failed' \in [Keys -> SUBSET Routes]
  BY <1>1 DEF IInv, Shape
<1>7. row' \in [Routes -> Row] /\ \A b \in Routes : row'[b].gen = row[b].gen
  BY <1>1, <1>2, <1>6 DEF Row
<1>8. QED
  BY <1>1, <1>2, <1>5, <1>6, <1>7, EndKeeps DEF Outs

\* The stream broke, the request was refused, or the client left.
LEMMA BreakKeeps ==
  ASSUME IInv, NEW q \in Requests, Break(q)
  PROVE  IInv'
<1>1. /\ req[q].pc = "flying" /\ UNCHANGED <<row, quiet, settings>>
      /\ entry' = IF req[q].probe THEN Finished(q, FALSE, None) ELSE entry
      /\ failed' \in {failed, Remembering(q, req[q].route)}
      /\ req' = [req EXCEPT ![q] = Ended(req[q], "broken")]
  BY DEF Break
<1>2. req[q] \in Request /\ req[q].route \in Routes
  BY <1>1, OnRoute
<1>3. entry' \in [Sessions -> Entry] /\ failed' \in [Keys -> SUBSET Routes] /\ row' \in [Routes -> Row]
  BY <1>1, <1>2, FinishedTyped, RememberingTyped DEF IInv, Shape
<1>4. QED
  BY <1>1, <1>2, <1>3, EndKeeps DEF Outs

\* A request that is rejected.
LEMMA RejectKeeps ==
  ASSUME IInv, NEW q \in Requests, Reject(q)
  PROVE  IInv'
<1>1. /\ req[q].pc = "flying" /\ UNCHANGED <<row, quiet, failed, settings>>
      /\ entry' = Returned(q)
      /\ req' = [req EXCEPT ![q] = Ended(req[q], "rejected")]
  BY DEF Reject
<1>2. req[q] \in Request
  BY <1>1, OnRoute
<1>3. entry' \in [Sessions -> Entry] /\ failed' \in [Keys -> SUBSET Routes] /\ row' \in [Routes -> Row]
  BY <1>1, ReturnedTyped DEF IInv, Shape
<1>4. QED
  BY <1>1, <1>2, <1>3, EndKeeps DEF Outs

\* A client that leaves.
LEMMA CancelKeeps ==
  ASSUME IInv, NEW q \in Requests, Cancel(q)
  PROVE  IInv'
<1>1. /\ req[q].pc \in {"ready", "flying"} /\ UNCHANGED <<row, quiet, failed, settings>>
      /\ entry' = IF req[q].pc = "flying" /\ req[q].probe THEN Finished(q, FALSE, None) ELSE entry
      /\ req' = [req EXCEPT ![q] = Ended(req[q], "canceled")]
  BY DEF Cancel
<1>2. req[q] \in Request
  BY <1>1, OnRoute
<1>3. entry' \in [Sessions -> Entry] /\ failed' \in [Keys -> SUBSET Routes] /\ row' \in [Routes -> Row]
  BY <1>1, FinishedTyped DEF IInv, Shape
<1>4. QED
  BY <1>1, <1>2, <1>3, EndKeeps DEF Outs

\* The walk goes on to another route, or ends here.
LEMMA OnwardKeeps ==
  ASSUME IInv, NEW q \in Requests, NEW x \in Request, req' = [req EXCEPT ![q] = Onward(q, x)],
         row' \in [Routes -> Row], quiet' = quiet, entry' \in [Sessions -> Entry],
         failed' \in [Keys -> SUBSET Routes], UNCHANGED settings,
         \A r \in Routes, o \in Requests : o # q /\ row'[r].gen = o => row[r].gen = o,
         x.out = "", \A r \in Routes : row'[r].gen = q => r \in x.tried,
         x.pref # NoRoute => /\ HalfOpen(x) => x.preserve
                             /\ Pausing(x.last[x.pref]) => x.preserve
  PROVE  IInv'
<1>1. CASE FailoverLeft(q)
  <2> DEFINE y == [x EXCEPT !.pc = "planning"]
  <2>1. req' = [req EXCEPT ![q] = y]
    BY <1>1 DEF Onward
  <2>2. /\ y \in Request /\ y.pc = "planning" /\ y.tried = x.tried /\ y.out = x.out
        /\ y.view = x.view /\ y.quiet = x.quiet /\ y.pref = x.pref
        /\ y.preserve = x.preserve /\ y.last = x.last
    BY DEF Request
  <2> HIDE DEF y
  <2>3. Walking(y)
    BY <2>2 DEF Walking
  <2>4. Unpaused(q, y, row')
    BY <2>2 DEF Unpaused
  <2>5. Preserving(y)
    BY <2>2 DEF Preserving, HalfOpen
  <2>6. QED
    BY <2>1, <2>2, <2>3, <2>4, <2>5, RequestMoves
<1>2. CASE ~FailoverLeft(q)
  <2>1. req' = [req EXCEPT ![q] = Ended(x, "failed")]
    BY <1>2 DEF Onward
  <2>2. QED
    BY <2>1, EndKeeps DEF Outs
<1>3. QED
  BY <1>1, <1>2

\* The route does not resolve.
LEMMA MisconfiguredKeeps ==
  ASSUME IInv, NEW q \in Requests, Misconfigured(q)
  PROVE  IInv'
<1> DEFINE r == req[q].route
           last == [req[q].last EXCEPT ![r] = "config"]
           x == [req[q] EXCEPT !.last = last]
<1>1. req[q].pc = "flying" /\ UNCHANGED <<row, quiet, failed, settings>> /\ entry' = Returned(q)
  BY DEF Misconfigured
<1>2. req[q] \in Request /\ r \in Routes
  BY <1>1, OnRoute
<1>3. req' = [req EXCEPT ![q] = Onward(q, x)]
  BY DEF Misconfigured
<1>4. last \in [Routes -> Lasts] /\ last[r] = "config" /\ \A b \in Routes : b # r => last[b] = req[q].last[b]
  BY <1>2 DEF Request, Lasts
<1> HIDE DEF last
<1>5. /\ x \in Request /\ x.pc = "flying" /\ x.tried = req[q].tried /\ x.out = req[q].out
      /\ x.view = req[q].view /\ x.quiet = req[q].quiet /\ x.pref = req[q].pref
      /\ x.preserve = req[q].preserve /\ x.last = last /\ x.pref \in Routes \cup {NoRoute}
  BY <1>1, <1>2, <1>4 DEF Request
<1> HIDE DEF x
<1>6. entry' \in [Sessions -> Entry] /\ failed' \in [Keys -> SUBSET Routes] /\ row' \in [Routes -> Row]
  BY <1>1, ReturnedTyped DEF IInv, Shape
<1>7. Walking(req[q]) /\ Unpaused(q, req[q], row) /\ Preserving(req[q])
  BY DEF IInv
<1>8. x.out = "" /\ r \in x.tried
  BY <1>1, <1>5, <1>7 DEF Walking
<1>9. \A b \in Routes : row'[b].gen = q => b \in x.tried
  BY <1>1, <1>5, <1>7 DEF Unpaused
<1>10. ~Pausing("config")
  BY DEF Pausing, shouldCooldownUpstreamFailure
<1>11. ASSUME x.pref # NoRoute, HalfOpen(x) PROVE x.preserve
  BY <1>1, <1>2, <1>5, <1>7, <1>8, <1>11 DEF Preserving, HalfOpen
<1>12. ASSUME x.pref # NoRoute, Pausing(x.last[x.pref]) PROVE x.preserve
  <2>1. x.pref # r
    BY <1>4, <1>5, <1>10, <1>12
  <2>2. Pausing(req[q].last[req[q].pref])
    BY <1>4, <1>5, <1>12, <2>1
  <2>3. QED
    BY <1>1, <1>5, <1>7, <1>12, <2>1, <2>2 DEF Preserving
<1>13. QED
  BY <1>1, <1>3, <1>5, <1>6, <1>8, <1>9, <1>11, <1>12, OnwardKeeps

\* An attempt failed: the row, what the request remembers of it, and where it
\* goes from here.
FailedRecord(q, f) ==
    LET max == TriesAfter(q, f)
    IN  [req[q] EXCEPT !.max = max, !.last[req[q].route] = f,
                       !.preserve = @ \/ (Paused(q, f, max) /\ req[q].route = req[q].pref)]

\* What an attempt that failed leaves in the request.
FailedFacts(q, f, x) ==
    /\ x \in Request /\ x.pc = "flying" /\ x.tried = req[q].tried /\ x.out = req[q].out
    /\ x.view = req[q].view /\ x.quiet = req[q].quiet /\ x.pref = req[q].pref
    /\ x.route = req[q].route /\ x.attempts = req[q].attempts
    /\ x.probe = req[q].probe /\ x.hold = req[q].hold
    /\ x.preserve = (req[q].preserve \/ (Paused(q, f, TriesAfter(q, f)) /\ req[q].route = req[q].pref))
    /\ x.last[req[q].route] = f
    /\ \A b \in Routes : b # req[q].route => x.last[b] = req[q].last[b]

\* The record of a failed attempt.
LEMMA FailedTyped ==
  ASSUME IInv, NEW q \in Requests, NEW f \in Failures, req[q].pc = "flying"
  PROVE  FailedFacts(q, f, FailedRecord(q, f)) /\ TriesAfter(q, f) \in Nat
<1> DEFINE r == req[q].route
           max == TriesAfter(q, f)
           last == [req[q].last EXCEPT ![r] = f]
           preserve == req[q].preserve \/ (Paused(q, f, max) /\ r = req[q].pref)
           x == [req[q] EXCEPT !.max = max, !.last = last, !.preserve = preserve]
<1>1. req[q] \in Request /\ r \in Routes
  BY OnRoute
<1>2. max \in Nat
  BY <1>1 DEF TriesAfter, Request
<1>3. last \in [Routes -> Lasts] /\ last[r] = f /\ \A b \in Routes : b # r => last[b] = req[q].last[b]
  BY <1>1 DEF Request, Lasts
<1>4. preserve \in BOOLEAN
  BY <1>1 DEF Request
<1>5. FailedRecord(q, f) = x
  BY Zenon DEF FailedRecord
<1>6. x.preserve = preserve
  BY <1>1 DEF Request
<1> HIDE DEF max, last, preserve
<1>7. /\ x \in Request /\ x.pc = "flying" /\ x.tried = req[q].tried /\ x.out = req[q].out
      /\ x.view = req[q].view /\ x.quiet = req[q].quiet /\ x.pref = req[q].pref
      /\ x.route = req[q].route /\ x.attempts = req[q].attempts /\ x.last = last
      /\ x.probe = req[q].probe /\ x.hold = req[q].hold
  BY <1>1, <1>2, <1>3, <1>4 DEF Request
<1> HIDE DEF x
<1>8. QED
  BY <1>2, <1>3, <1>5, <1>6, <1>7 DEF FailedFacts, preserve, max

\* A route that is left after a failure that pauses it, is paused: a failure
\* that pauses means retries are on, so nothing but the last try leaves it.
LEMMA LeavingPauses ==
  ASSUME NEW q, NEW f, Pausing(f), ~(group.retry /\ req[q].tries < TriesAfter(q, f)),
         req[q].tries \in Nat, TriesAfter(q, f) \in Nat
  PROVE  Paused(q, f, TriesAfter(q, f))
<1>1. req[q].tries >= TriesAfter(q, f)
  BY DEF Pausing
<1>2. QED
  BY <1>1 DEF Paused, LastTry

\* An attempt failed.
LEMMA FailKeeps ==
  ASSUME IInv, NEW q \in Requests, NEW f \in Failures, Fail(q, f)
  PROVE  IInv'
<1> DEFINE r == req[q].route
           max == TriesAfter(q, f)
           pausing == Paused(q, f, max)
           x == FailedRecord(q, f)
           pause == [until |-> group.pause, gen |-> q, armed |-> group.armed]
<1>1. /\ req[q].pc = "flying" /\ UNCHANGED <<quiet, settings>>
      /\ failed' = IF shouldCooldownUpstreamFailure(f) THEN Remembering(q, r) ELSE failed
      /\ row' = IF pausing THEN [row EXCEPT ![r] = pause] ELSE row
      /\ entry' = IF req[q].probe /\ LastTry(q, max)
                  THEN Finished(q, FALSE, IF pausing THEN group.pause ELSE None) ELSE entry
  BY DEF Fail
<1>2. req' = [req EXCEPT ![q] =
         IF group.retry /\ req[q].tries < max THEN [x EXCEPT !.pc = "ready"] ELSE Onward(q, x)]
  BY Zenon DEF Fail, FailedRecord
<1>3. req[q] \in Request /\ r \in Routes /\ req[q].tries \in Nat
  BY <1>1, OnRoute DEF Request
<1>4. FailedFacts(q, f, x) /\ max \in Nat
  BY <1>1, FailedTyped
<1>5. group.pause \in {None} \cup Nat /\ None \in {None} \cup Nat /\ group.armed \in BOOLEAN
  BY PolicyTyped DEF IInv, Shape
<1>6. group.pause \in Nat
  BY PolicyTyped DEF IInv, Shape
<1>7. row' \in [Routes -> Row] /\ \A b \in Routes, o \in Requests : o # q /\ row'[b].gen = o => row[b].gen = o
  <2>1. pause \in Row /\ pause.gen = q
    BY <1>5, <1>6 DEF Row
  <2> HIDE DEF pause, pausing
  <2>2. QED
    BY <1>1, <1>3, <2>1 DEF IInv, Shape
<1>8. entry' \in [Sessions -> Entry]
  <2>1. (IF pausing THEN group.pause ELSE None) \in {None} \cup Nat
    BY <1>5
  <2>2. Finished(q, FALSE, IF pausing THEN group.pause ELSE None) \in [Sessions -> Entry]
    BY <2>1, FinishedTyped
  <2>3. QED
    BY <1>1, <2>2 DEF IInv, Shape
<1>9. failed' \in [Keys -> SUBSET Routes]
  BY <1>1, <1>3, RememberingTyped DEF IInv, Shape
<1>10. Walking(req[q]) /\ Unpaused(q, req[q], row) /\ Preserving(req[q])
  BY DEF IInv
<1>11. \A b \in Routes : row'[b].gen = q => b \in req[q].tried /\ (b = r => pausing)
  <2>1. row \in [Routes -> Row] /\ r \in req[q].tried
    BY <1>1, <1>10 DEF IInv, Shape, Walking
  <2> HIDE DEF pausing
  <2>2. QED
    BY <1>1, <1>10, <2>1 DEF Unpaused
<1>12. x.pref # NoRoute /\ HalfOpen(x) => x.preserve
  BY <1>1, <1>4, <1>10 DEF FailedFacts, HalfOpen, Preserving, Walking
<1>13. x.pref \in Routes \cup {NoRoute}
  BY <1>3, <1>4 DEF FailedFacts, Request
<1>14. x.pref # NoRoute /\ x.pref # r /\ Pausing(x.last[x.pref]) => x.preserve
  BY <1>1, <1>4, <1>10, <1>13 DEF FailedFacts, Preserving
<1> HIDE DEF x, pausing, max
<1>15. CASE group.retry /\ req[q].tries < max
  <2> DEFINE y == [x EXCEPT !.pc = "ready"]
  <2>1. req' = [req EXCEPT ![q] = y]
    BY <1>2, <1>15
  <2>2. /\ y \in Request /\ y.pc = "ready" /\ y.tried = req[q].tried /\ y.out = req[q].out
        /\ y.view = req[q].view /\ y.quiet = req[q].quiet /\ y.pref = req[q].pref
        /\ y.route = r /\ y.attempts = req[q].attempts
        /\ y.preserve = x.preserve /\ y.last = x.last
    BY <1>4 DEF FailedFacts, Request
  <2> HIDE DEF y
  <2>3. Walking(y)
    BY <1>1, <1>10, <2>2 DEF Walking
  <2>4. pausing => Spent(y)
    BY <1>3, <1>4, <1>15, <2>2 DEF pausing, Paused, LastTry, Limited, Spent
  <2>5. Unpaused(q, y, row')
    BY <1>11, <2>2, <2>4 DEF Unpaused
  <2>6. x.pref = req[q].pref /\ x.view = req[q].view /\ x.quiet = req[q].quiet
    BY <1>4 DEF FailedFacts
  <2>7. Preserving(y)
    BY <1>12, <1>14, <2>2, <2>6 DEF Preserving, HalfOpen
  <2>8. QED
    BY <1>1, <1>7, <1>8, <1>9, <2>1, <2>2, <2>3, <2>5, <2>7, RequestMoves
<1>16. CASE ~(group.retry /\ req[q].tries < max)
  <2>1. req' = [req EXCEPT ![q] = Onward(q, x)]
    BY <1>2, <1>16
  <2>2. ASSUME Pausing(f), x.pref = r PROVE x.preserve
    <3>1. Paused(q, f, TriesAfter(q, f))
      BY <1>3, <1>4, <1>16, <2>2, LeavingPauses DEF max
    <3>2. QED
      BY <1>4, <2>2, <3>1 DEF FailedFacts
  <2>3. x.last[r] = f /\ x.out = "" /\ x.tried = req[q].tried /\ x \in Request
    BY <1>1, <1>4, <1>10 DEF FailedFacts, Walking
  <2>4. x.pref # NoRoute /\ Pausing(x.last[x.pref]) => x.preserve
    BY <1>14, <2>2, <2>3
  <2>5. \A b \in Routes : row'[b].gen = q => b \in x.tried
    BY <1>11, <2>3
  <2>6. x.pref # NoRoute => /\ HalfOpen(x) => x.preserve
                            /\ Pausing(x.last[x.pref]) => x.preserve
    BY <1>12, <2>4
  <2>7. UNCHANGED settings /\ quiet' = quiet
    BY <1>1
  <2>8. x \in Request /\ x.out = ""
    BY <2>3
  <2> HIDE DEF r
  <2>9. QED
    BY <1>7, <1>8, <1>9, <2>1, <2>5, <2>6, <2>7, <2>8, OnwardKeeps
<1>17. QED
  BY <1>15, <1>16

-----------------------------------------------------------------------------
\* The rest of the system.
LEMMA ProbeSettlesKeeps ==
  ASSUME IInv, NEW r \in Routes, ProbeSettles(r)
  PROVE  IInv'
<1>1. /\ UNCHANGED <<quiet, entry, failed, req, group>> /\ events' \in Nat
      /\ \/ row' = [row EXCEPT ![r].until = None, ![r].armed = FALSE]
         \/ row' = [row EXCEPT ![r].until = Lead + 1]
  BY DEF ProbeSettles, Spend, IInv, Shape
<1>2. row \in [Routes -> Row] /\ row[r] \in Row /\ Lead + 1 \in Nat
  BY ForwardAssumption DEF IInv, Shape
<1>3. row' \in [Routes -> Row] /\ \A b \in Routes : row'[b].gen = row[b].gen
  BY <1>1, <1>2 DEF Row
<1>4. QED
  BY <1>1, <1>3, RestMoves DEF IInv, Shape

\* The operator clears a pause.
LEMMA ClearKeeps ==
  ASSUME IInv, NEW r \in Routes, ClearTempUnschedulable(r)
  PROVE  IInv'
<1>1. UNCHANGED <<quiet, entry, failed, req, group>> /\ events' \in Nat /\ row' = [row EXCEPT ![r] = NoRow]
  BY DEF ClearTempUnschedulable, Spend, IInv, Shape
<1>2. NoRow \in Row /\ \A o \in Requests : NoRow.gen # o
  BY ForwardAssumption DEF NoRow, Row
<1>3. row' \in [Routes -> Row] /\ \A b \in Routes, o \in Requests : row'[b].gen = o => row[b].gen = o
  BY <1>1, <1>2 DEF IInv, Shape
<1>4. QED
  BY <1>1, <1>3, RestMoves DEF IInv, Shape

\* Cache health and candy checks close and open routes.
LEMMA BlacklistKeeps ==
  ASSUME IInv, NEW S \in SUBSET Routes, Blacklist(S)
  PROVE  IInv'
<1>1. UNCHANGED <<row, entry, failed, req, group>> /\ events' \in Nat /\ quiet' = S
  BY DEF Blacklist, Spend, IInv, Shape
<1>2. QED
  BY <1>1, RestMoves DEF IInv, Shape

\* What is evicted or expires.
LEMMA ForgetKeeps ==
  ASSUME IInv, Forget
  PROVE  IInv'
<1>1. UNCHANGED <<row, quiet, req, group>> /\ events' \in Nat
  BY DEF Forget, Spend, IInv, Shape
<1>2. NoEntry \in Entry
  BY DEF NoEntry, Entry
<1>3. entry' \in [Sessions -> Entry] /\ failed' \in [Keys -> SUBSET Routes]
  BY <1>2 DEF Forget, IInv, Shape
<1>4. QED
  BY <1>1, <1>3, RestMoves DEF IInv, Shape

\* Time.
LEMMA AgedTyped ==
  /\ \A t \in Nat : Aged(t) \in Nat /\ (Live(Aged(t)) => Live(t))
  /\ \A t \in {None} \cup Nat : Aged(t) \in {None} \cup Nat
BY DEF Aged, Live, None

\* A row that ages is a row; paused and not due, it was so before.
LEMMA AgedRowTyped ==
  ASSUME NEW c \in Row
  PROVE  /\ AgedRow(c) \in Row /\ AgedRow(c).gen = c.gen
         /\ Live(AgedRow(c).until) /\ ~Due(AgedRow(c)) => Live(c.until) /\ ~Due(c)
<1>1. c.until \in {None} \cup Nat
  BY DEF Row
<1> DEFINE t == Aged(c.until)
<1>2. t \in {None} \cup Nat
  BY <1>1, AgedTyped
<1>3. /\ Live(t) => Live(c.until) /\ c.until # None /\ t # None
      /\ Live(t) /\ t > Lead => c.until > Lead
  BY <1>1, ForwardAssumption DEF Aged, Live, None
<1>4. AgedRow(c) = [c EXCEPT !.until = t]
  BY DEF AgedRow
<1> HIDE DEF t
<1>5. AgedRow(c) \in Row /\ AgedRow(c).gen = c.gen /\ AgedRow(c).armed = c.armed /\ AgedRow(c).until = t
  BY <1>2, <1>4 DEF Row
<1>6. Lead \in Nat
  BY ForwardAssumption
<1>7. QED
  BY <1>1, <1>2, <1>3, <1>5, <1>6 DEF Due, None

\* What a request in flight knows ages with it.
AgedRequest(x) == [x EXCEPT !.view = [r \in Routes |-> AgedRow(@[r])], !.until = Aged(@), !.hold = Aged(@)]

\* Ageing a request changes times only.
LEMMA AgedRequestTyped ==
  ASSUME NEW x \in Request
  PROVE  LET y == AgedRequest(x) IN
         /\ y \in Request /\ y.pc = x.pc /\ y.tried = x.tried /\ y.out = x.out
         /\ y.view = [r \in Routes |-> AgedRow(x.view[r])] /\ y.quiet = x.quiet /\ y.pref = x.pref
         /\ y.route = x.route /\ y.attempts = x.attempts
         /\ y.preserve = x.preserve /\ y.last = x.last
         /\ y.probe = x.probe /\ y.hold = Aged(x.hold)
<1> DEFINE view == [r \in Routes |-> AgedRow(x.view[r])]
           until == Aged(x.until)
           hold == Aged(x.hold)
           y == [x EXCEPT !.view = view, !.until = until, !.hold = hold]
<1>1. AgedRequest(x) = y
  BY Zenon DEF AgedRequest
<1>2. until \in {None} \cup Nat /\ hold \in Nat
  BY AgedTyped DEF Request
<1>3. view \in [Routes -> Row]
  BY AgedRowTyped DEF Request
<1> HIDE DEF view, until, hold
<1>4. /\ y \in Request /\ y.pc = x.pc /\ y.tried = x.tried /\ y.out = x.out
      /\ y.view = view /\ y.quiet = x.quiet /\ y.pref = x.pref
      /\ y.route = x.route /\ y.attempts = x.attempts
      /\ y.preserve = x.preserve /\ y.last = x.last
      /\ y.probe = x.probe /\ y.hold = hold
  BY <1>2, <1>3 DEF Request
<1> HIDE DEF y
<1>5. QED
  BY <1>1, <1>4 DEF view, hold

\* Time makes a pause shorter for the rows and for who knows of them.
LEMMA TickKeeps ==
  ASSUME IInv, Tick
  PROVE  IInv'
<1>1. /\ UNCHANGED <<quiet, failed, settings>>
      /\ row' = [r \in Routes |-> AgedRow(row[r])]
      /\ entry' = [s \in Sessions |-> [entry[s] EXCEPT !.probe = Aged(@), !.blocked = Aged(@)]]
  BY DEF Tick
<1>2. req' = [q \in Requests |-> IF req[q].pc # "flying" THEN req[q] ELSE AgedRequest(req[q])]
  BY Zenon DEF Tick, AgedRequest
<1>3. group' = group /\ events' = events
  BY <1>1 DEF settings
<1>4. row' \in [Routes -> Row] /\ \A r \in Routes : row'[r].gen = row[r].gen
  BY <1>1, AgedRowTyped DEF IInv, Shape
<1>5. \A s \in Sessions : [entry[s] EXCEPT !.probe = Aged(@), !.blocked = Aged(@)] \in Entry
  BY AgedTyped DEF IInv, Shape, Entry
<1>6. entry' \in [Sessions -> Entry]
  BY <1>1, <1>5
<1>7. req' \in [Requests -> Request]
  BY <1>2, AgedRequestTyped DEF IInv, Shape
<1>8. Shape'
  BY <1>1, <1>3, <1>4, <1>6, <1>7 DEF IInv, Shape
<1>9. ASSUME NEW q \in Requests
      PROVE  (Walking(req[q]) /\ Unpaused(q, req[q], row) /\ Preserving(req[q]))'
  <2>1. Walking(req[q]) /\ Unpaused(q, req[q], row) /\ Preserving(req[q]) /\ req[q] \in Request
    BY DEF IInv, Shape
  <2>2. CASE req[q].pc # "flying"
    <3>1. req'[q] = req[q]
      BY <1>2, <2>2
    <3>2. Walking(req[q])'
      BY <2>1, <3>1 DEF Walking
    <3>3. Unpaused(q, req[q], row)'
      BY <1>3, <1>4, <2>1, <3>1 DEF Unpaused, Spent
    <3>4. Preserving(req[q])'
      BY <1>3, <2>1, <3>1 DEF Preserving, Pausing, HalfOpen
    <3>5. QED
      BY <3>2, <3>3, <3>4
  <2>3. CASE req[q].pc = "flying"
    <3> DEFINE x == req[q]
               y == AgedRequest(x)
    <3>1. req'[q] = y
      BY <1>2, <2>3
    <3>2. /\ y \in Request /\ y.pc = x.pc /\ y.tried = x.tried /\ y.out = x.out
          /\ y.view = [r \in Routes |-> AgedRow(x.view[r])] /\ y.quiet = x.quiet /\ y.pref = x.pref
          /\ y.route = x.route /\ y.attempts = x.attempts
          /\ y.preserve = x.preserve /\ y.last = x.last
      BY <2>1, AgedRequestTyped
    <3> HIDE DEF y
    <3>3. Walking(y)
      BY <2>1, <3>2 DEF Walking
    <3>4. Unpaused(q, y, row')
      BY <1>4, <2>1, <3>2 DEF Unpaused, Spent
    <3>5. y.pref # NoRoute /\ HalfOpen(y) => HalfOpen(x)
      <4>1. SUFFICES ASSUME y.pref # NoRoute, HalfOpen(y) PROVE HalfOpen(x)
        OBVIOUS
      <4>2. x.pref \in Routes /\ x.view[x.pref] \in Row
        BY <2>1, <3>2, <4>1 DEF Request
      <4>3. y.view[y.pref] = AgedRow(x.view[x.pref])
        BY <3>2, <4>2
      <4>4. Live(x.view[x.pref].until) /\ ~Due(x.view[x.pref])
        BY <4>1, <4>2, <4>3, AgedRowTyped DEF HalfOpen
      <4>5. QED
        BY <3>2, <4>1, <4>4 DEF HalfOpen
    <3>6. Preserving(y)
      BY <2>1, <2>3, <3>2, <3>5 DEF Preserving
    <3>7. Walking(req[q])'
      BY <3>1, <3>3 DEF Walking
    <3>8. Unpaused(q, req[q], row)'
      BY <1>3, <3>1, <3>4 DEF Unpaused, Spent
    <3>9. Preserving(req[q])'
      BY <1>3, <3>1, <3>6 DEF Preserving, Pausing, HalfOpen
    <3>10. QED
      BY <3>7, <3>8, <3>9
  <2>4. QED
    BY <2>2, <2>3
<1>10. QED
  BY <1>8, <1>9 DEF IInv

-----------------------------------------------------------------------------
\* Every step keeps the invariant.
LEMMA NextKeeps ==
  ASSUME IInv, [Next]_vars
  PROVE  IInv'
<1>1. ASSUME NEW q \in Requests, RequestStep(q) PROVE IInv'
  <2>1. \/ ListRoutes(q) \/ Recover(q) \/ LookUp(q) \/ Plan(q) \/ Attempt(q)
        \/ Serve(q) \/ Break(q) \/ Reject(q) \/ Misconfigured(q) \/ Cancel(q)
        \/ \E f \in Failures : Fail(q, f)
    BY <1>1 DEF RequestStep
  <2>2. CASE ListRoutes(q) \/ Recover(q) \/ LookUp(q)
    BY <2>2, ListRoutesKeeps, RecoverKeeps, LookUpKeeps
  <2>3. CASE Plan(q) \/ Attempt(q) \/ Serve(q)
    BY <2>3, PlanKeeps, AttemptKeeps, ServeKeeps
  <2>4. CASE Break(q) \/ Reject(q) \/ Misconfigured(q) \/ Cancel(q)
    BY <2>4, BreakKeeps, RejectKeeps, MisconfiguredKeeps, CancelKeeps
  <2>5. CASE \E f \in Failures : Fail(q, f)
    BY <2>5, FailKeeps
  <2>6. QED
    BY <2>1, <2>2, <2>3, <2>4, <2>5
<1>2. ASSUME NEW r \in Routes, ProbeSettles(r) \/ ClearTempUnschedulable(r) PROVE IInv'
  BY <1>2, ProbeSettlesKeeps, ClearKeeps
<1>3. ASSUME NEW S \in SUBSET Routes, Blacklist(S) PROVE IInv'
  BY <1>3, BlacklistKeeps
<1>4. CASE UNCHANGED vars
  <2>1. /\ req' = req /\ group' = group /\ events' = events /\ row' = row /\ quiet' = quiet
        /\ entry' = entry /\ failed' = failed
    BY <1>4 DEF vars
  <2>2. QED
    BY <2>1, RestMoves DEF IInv, Shape
<1>5. QED
  BY <1>1, <1>2, <1>3, <1>4, ForgetKeeps, TickKeeps DEF Next

\* The invariant of the request path, for any number of routes, requests and
\* conversations (HandleForward, runtime_forward.go).
THEOREM PathInvariant == Spec => []IInv
<1>1. Init => IInv
  BY InitSound
<1>2. IInv /\ [Next]_vars => IInv'
  BY NextKeeps
<1>3. QED
  BY <1>1, <1>2, PTL DEF Spec

\* The state of the request path has the shape the code gives it.
THEOREM TypeCorrect == Spec => []TypeOK
<1>1. IInv => TypeOK
  BY DEF IInv, Shape, TypeOK, Row, Entry, Request
<1>2. QED
  BY <1>1, PathInvariant, PTL

-----------------------------------------------------------------------------
\* A step of one request does not touch the record of another.
LEMMA OthersStay ==
  ASSUME IInv, NEW o \in Requests, RequestStep(o), NEW q \in Requests, q # o
  PROVE  req'[q] = req[q]
<1>1. req \in [Requests -> Request]
  BY DEF IInv, Shape
<1>2. CASE ListRoutes(o)
  BY <1>1, <1>2 DEF ListRoutes
<1>3. CASE Recover(o)
  BY <1>1, <1>3 DEF Recover
<1>4. CASE LookUp(o)
  BY <1>1, <1>4 DEF LookUp
<1>5. CASE Plan(o)
  <2>1. \E x : req' = [req EXCEPT ![o] = x]
    BY <1>5, Zenon DEF Plan
  <2>2. QED
    BY <1>1, <2>1
<1>6. CASE Attempt(o)
  BY <1>1, <1>6 DEF Attempt
<1>7. CASE Serve(o) \/ Break(o) \/ Reject(o) \/ Cancel(o)
  <2>1. \E x : req' = [req EXCEPT ![o] = x]
    BY <1>7, Zenon DEF Serve, Break, Reject, Cancel
  <2>2. QED
    BY <1>1, <2>1
<1>8. CASE Misconfigured(o)
  <2>1. \E x : req' = [req EXCEPT ![o] = x]
    BY <1>8, Zenon DEF Misconfigured
  <2>2. QED
    BY <1>1, <2>1
<1>9. ASSUME NEW f \in Failures, Fail(o, f) PROVE req'[q] = req[q]
  <2>1. \E x : req' = [req EXCEPT ![o] = x]
    BY <1>9, Zenon DEF Fail
  <2>2. QED
    BY <1>1, <2>1
<1>10. QED
  BY <1>2, <1>3, <1>4, <1>5, <1>6, <1>7, <1>8, <1>9 DEF RequestStep

\* Nothing else moves a request on.
LEMMA RestStays ==
  ASSUME IInv, NEW q \in Requests,
         \/ \E r \in Routes : ProbeSettles(r) \/ ClearTempUnschedulable(r)
         \/ \E S \in SUBSET Routes : Blacklist(S)
         \/ Forget
         \/ Tick
         \/ UNCHANGED vars
  PROVE  req'[q].pc = req[q].pc /\ req'[q].out = req[q].out
<1>1. CASE \/ \E r \in Routes : ProbeSettles(r) \/ ClearTempUnschedulable(r)
           \/ \E S \in SUBSET Routes : Blacklist(S)
           \/ Forget
           \/ UNCHANGED vars
  BY <1>1 DEF ProbeSettles, ClearTempUnschedulable, Blacklist, Forget, vars
<1>2. CASE Tick
  <2>1. req' = [p \in Requests |-> IF req[p].pc # "flying" THEN req[p] ELSE AgedRequest(req[p])]
    BY <1>2, Zenon DEF Tick, AgedRequest
  <2>2. req[q] \in Request
    BY DEF IInv, Shape
  <2>3. AgedRequest(req[q]).pc = req[q].pc /\ AgedRequest(req[q]).out = req[q].out
    BY <2>2, AgedRequestTyped
  <2>4. QED
    BY <2>1, <2>3
<1>3. QED
  BY <1>1, <1>2

\* Where the row of a request's route stands when the attempt is decided.
PausedAsEarned(q) ==
    LET r == req[q].route
        left == IF req'[q].pc = "ready" THEN Limited(q) ELSE req'[q].out \in {"", "failed"}
    IN  row'[r].gen = q <=> left /\ Pausing(req'[q].last[r])

\* An attempt that is not a failure of the route's leaves its row alone.
LEMMA SparedRoute ==
  ASSUME IInv, NEW q \in Requests, req[q].pc = "flying",
         Serve(q) \/ Break(q) \/ Reject(q) \/ Cancel(q) \/ Misconfigured(q)
  PROVE  PausedAsEarned(q)
<1> DEFINE r == req[q].route
<1>1. req[q] \in Request /\ r \in Routes /\ row \in [Routes -> Row] /\ req \in [Requests -> Request]
  BY OnRoute DEF IInv, Shape
<1>2. row[r].gen # q
  BY <1>1 DEF IInv, Unpaused
<1>3. row'[r].gen = row[r].gen
  <2>1. CASE Serve(q)
    BY <2>1, <1>1 DEF Serve, Row
  <2>2. CASE Break(q) \/ Reject(q) \/ Cancel(q) \/ Misconfigured(q)
    BY <2>2 DEF Break, Reject, Cancel, Misconfigured
  <2>3. QED
    BY <2>1, <2>2
<1>4. CASE Serve(q) \/ Break(q) \/ Reject(q) \/ Cancel(q)
  <2>1. PICK out \in {"served", "broken", "rejected", "canceled"} : req' = [req EXCEPT ![q] = Ended(req[q], out)]
    BY <1>4 DEF Serve, Break, Reject, Cancel
  <2>2. req'[q].pc = "ended" /\ req'[q].out = out
    <3>1. out \in Outs
      BY <2>1 DEF Outs
    <3>2. Ended(req[q], out).pc = "ended" /\ Ended(req[q], out).out = out
      BY <1>1, <3>1, EndedTyped
    <3>3. req'[q] = Ended(req[q], out)
      BY <1>1, <2>1
    <3>4. QED
      BY <3>2, <3>3
  <2>3. QED
    BY <1>2, <1>3, <2>2 DEF PausedAsEarned
<1>5. CASE Misconfigured(q)
  <2> DEFINE x == [req[q] EXCEPT !.last[r] = "config"]
  <2>1. req'[q] = Onward(q, x)
    BY <1>1, <1>5 DEF Misconfigured
  <2>2. x \in Request /\ x.last[r] = "config" /\ x.route = r
    BY <1>1 DEF Request, Lasts
  <2> HIDE DEF x
  <2>3. Onward(q, x).last[r] = "config"
    <3>1. CASE FailoverLeft(q)
      BY <2>2, <3>1 DEF Onward, Request
    <3>2. CASE ~FailoverLeft(q)
      <4>1. "failed" \in Outs
        BY DEF Outs
      <4>2. Ended(x, "failed").last[r] = x.last[r]
        BY <1>1, <2>2, <4>1, EndedTyped
      <4>3. QED
        BY <2>2, <3>2, <4>2 DEF Onward
    <3>3. QED
      BY <3>1, <3>2
  <2>4. ~Pausing("config")
    BY DEF Pausing, shouldCooldownUpstreamFailure
  <2>5. QED
    BY <1>2, <1>3, <2>1, <2>3, <2>4 DEF PausedAsEarned
<1>6. QED
  BY <1>4, <1>5

\* A failed attempt pauses the route exactly when it is left for that failure.
LEMMA FailedRoute ==
  ASSUME IInv, NEW q \in Requests, NEW f \in Failures, Fail(q, f)
  PROVE  PausedAsEarned(q)
<1> DEFINE r == req[q].route
           max == TriesAfter(q, f)
           pausing == Paused(q, f, max)
           x == FailedRecord(q, f)
           pause == [until |-> group.pause, gen |-> q, armed |-> group.armed]
<1>1. req[q].pc = "flying" /\ row' = IF pausing THEN [row EXCEPT ![r] = pause] ELSE row
  BY DEF Fail
<1>2. req' = [req EXCEPT ![q] =
         IF group.retry /\ req[q].tries < max THEN [x EXCEPT !.pc = "ready"] ELSE Onward(q, x)]
  BY Zenon DEF Fail, FailedRecord
<1>3. req[q] \in Request /\ r \in Routes /\ req[q].tries \in Nat
  BY <1>1, OnRoute DEF Request
<1>4. FailedFacts(q, f, x) /\ max \in Nat
  BY <1>1, FailedTyped
<1>5. row[r].gen # q /\ row \in [Routes -> Row] /\ req \in [Requests -> Request]
  BY <1>1, <1>3 DEF IInv, Unpaused, Shape
<1>6. x \in Request /\ x.last[r] = f /\ x.route = r /\ x.out = ""
  BY <1>1, <1>4 DEF FailedFacts, IInv, Walking
<1> HIDE DEF x, pausing, max
<1>7. row'[r].gen = q <=> pausing
  BY <1>1, <1>3, <1>5
<1>8. CASE group.retry /\ req[q].tries < max
  <2>1. req'[q] = [x EXCEPT !.pc = "ready"]
    BY <1>2, <1>5, <1>8
  <2>2. req'[q].pc = "ready" /\ req'[q].last[r] = f
    BY <1>6, <2>1 DEF Request
  <2>3. pausing <=> Limited(q) /\ Pausing(f)
    BY <1>3, <1>4, <1>8 DEF pausing, Paused, LastTry
  <2>4. QED
    BY <1>7, <2>2, <2>3 DEF PausedAsEarned
<1>9. CASE ~(group.retry /\ req[q].tries < max)
  <2>1. req'[q] = Onward(q, x)
    BY <1>2, <1>5, <1>9
  <2>2. req'[q].pc # "ready" /\ req'[q].out \in {"", "failed"} /\ req'[q].last[r] = f
    <3>1. CASE FailoverLeft(q)
      BY <1>6, <2>1, <3>1 DEF Onward, Request
    <3>2. CASE ~FailoverLeft(q)
      <4>1. "failed" \in Outs
        BY DEF Outs
      <4>2. Ended(x, "failed").pc = "ended" /\ Ended(x, "failed").out = "failed"
        BY <1>6, <4>1, EndedTyped
      <4>3. Ended(x, "failed").last[x.route] = x.last[x.route]
        BY <1>3, <1>6, <4>1, EndedTyped
      <4>4. req'[q] = Ended(x, "failed")
        BY <2>1, <3>2 DEF Onward
      <4>5. QED
        BY <1>6, <4>2, <4>3, <4>4
    <3>3. QED
      BY <3>1, <3>2
  <2>3. pausing <=> Pausing(f)
    <3>1. pausing => Pausing(f)
      BY DEF pausing, Paused
    <3>2. Pausing(f) => pausing
      BY <1>3, <1>4, <1>9, LeavingPauses DEF pausing, max
    <3>3. QED
      BY <3>1, <3>2
  <2>4. QED
    BY <1>7, <2>2, <2>3 DEF PausedAsEarned
<1>10. QED
  BY <1>8, <1>9

\* A request pauses exactly the routes it leaves after a failure that tells of
\* their health, whoever else uses them meanwhile (recordRouteModelFailure and
\* its callers, runtime_forward.go).
THEOREM PausesAreEarned == Spec => PauseIsEarned
<1>1. ASSUME IInv, [Next]_vars, NEW q \in Requests, req[q].pc = "flying", req'[q].pc # "flying"
      PROVE  PausedAsEarned(q)
  <2>1. PICK o \in Requests : RequestStep(o)
    BY <1>1, RestStays DEF Next
  <2>2. o = q
    BY <1>1, <2>1, OthersStay
  <2>3. CASE \E f \in Failures : Fail(q, f)
    BY <1>1, <2>3, FailedRoute
  <2>4. CASE ~\E f \in Failures : Fail(q, f)
    <3>1. Serve(q) \/ Break(q) \/ Reject(q) \/ Cancel(q) \/ Misconfigured(q)
      BY <1>1, <2>1, <2>2, <2>4 DEF RequestStep, ListRoutes, Recover, LookUp, Plan, Attempt
    <3>2. QED
      BY <1>1, <3>1, SparedRoute
  <2>5. QED
    BY <2>3, <2>4
<1>2. IInv /\ [Next]_vars =>
        [\A q \in Requests : req[q].pc = "flying" /\ req'[q].pc # "flying" =>
          LET r == req[q].route
              left == IF req'[q].pc = "ready" THEN Limited(q) ELSE req'[q].out \in {"", "failed"}
          IN  row'[r].gen = q <=> left /\ Pausing(req'[q].last[r])]_vars
  BY <1>1 DEF PausedAsEarned
<1>3. QED
  BY <1>2, PathInvariant, PTL DEF Spec, PauseIsEarned

-----------------------------------------------------------------------------
\* Only a delivered answer ends a request as served.
LEMMA OnlyServeServes ==
  ASSUME IInv, NEW q \in Requests, RequestStep(q), req'[q].out = "served", req[q].out = ""
  PROVE  Serve(q)
<1>1. req[q] \in Request /\ req \in [Requests -> Request]
  BY DEF IInv, Shape
<1> DEFINE Not(x) == x.out # "served"
<1>2. \A out \in Outs \ {"served"} : \A x \in Request : Not(Ended(x, out))
  BY EndedTyped
<1>3. \A x \in Request : x.out = "" => Not(Onward(q, x))
  <2>1. ASSUME NEW x \in Request, x.out = "" PROVE Not(Onward(q, x))
    <3>1. CASE FailoverLeft(q)
      BY <2>1, <3>1 DEF Onward, Request
    <3>2. CASE ~FailoverLeft(q)
      <4>1. Not(Ended(x, "failed"))
        BY <1>2 DEF Outs
      <4>2. QED
        BY <3>2, <4>1 DEF Onward
    <3>3. QED
      BY <3>1, <3>2
  <2>2. QED
    BY <2>1
<1>4. CASE ListRoutes(q) \/ LookUp(q)
  <2>1. CASE ListRoutes(q)
    <3>1. PICK S \in Recoverable :
            req' = [req EXCEPT ![q].pc = "recovering", ![q].view = row, ![q].quiet = quiet, ![q].todo = S]
      BY <2>1 DEF ListRoutes
    <3> DEFINE x == [req[q] EXCEPT !.pc = "recovering", !.view = row, !.quiet = quiet, !.todo = S]
    <3>2. req'[q] = x
      BY <1>1, <3>1
    <3>3. x.out = req[q].out
      BY <1>1 DEF Request
    <3>4. QED
      BY <3>2, <3>3
  <2>2. CASE LookUp(q)
    <3> DEFINE x == [req[q] EXCEPT !.pc = "planning", !.pref = entry[SessionOf[q]].route]
    <3>1. req'[q] = x
      BY <1>1, <2>2 DEF LookUp
    <3>2. x.out = req[q].out
      BY <1>1 DEF Request
    <3>3. QED
      BY <3>1, <3>2
  <2>3. QED
    BY <1>4, <2>1, <2>2
<1>5. CASE Recover(q)
  <2>1. \E r, l :
          \/ req' = [req EXCEPT ![q].todo = @ \ {r}, ![q].view[r] = l, ![q].quiet = @ \ {r}]
          \/ req' = [req EXCEPT ![q].todo = @ \ {r}]
    BY <1>5 DEF Recover
  <2>2. PICK r, l :
          \/ req' = [req EXCEPT ![q].todo = @ \ {r}, ![q].view[r] = l, ![q].quiet = @ \ {r}]
          \/ req' = [req EXCEPT ![q].todo = @ \ {r}]
    BY <2>1
  <2> DEFINE view == [req[q].view EXCEPT ![r] = l]
             x == [req[q] EXCEPT !.todo = @ \ {r}, !.view = view, !.quiet = @ \ {r}]
             y == [req[q] EXCEPT !.todo = @ \ {r}]
  <2>3. req'[q] = x \/ req'[q] = y
    BY <1>1, <2>2 DEF Request
  <2> HIDE DEF view
  <2>4. x.out = req[q].out /\ y.out = req[q].out
    BY <1>1 DEF Request
  <2>5. QED
    BY <2>3, <2>4
<1>6. CASE Break(q) \/ Reject(q) \/ Cancel(q)
  <2>1. PICK out \in {"broken", "rejected", "canceled"} : req' = [req EXCEPT ![q] = Ended(req[q], out)]
    BY <1>6 DEF Break, Reject, Cancel
  <2>2. out \in Outs \ {"served"}
    BY <2>1 DEF Outs
  <2>3. QED
    BY <1>1, <1>2, <2>1, <2>2
<1>7. CASE Attempt(q)
  <2>1. CASE Limited(q)
    <3>1. Not(Ended(req[q], "failed"))
      BY <1>1, <1>2 DEF Outs
    <3>2. QED
      BY <1>1, <1>7, <2>1, <3>1 DEF Attempt
  <2>2. CASE ~Limited(q)
    <3> DEFINE tally == IF group.attempts > 0 THEN req[q].attempts + 1 ELSE req[q].attempts
               tries == req[q].tries + 1
               x == [req[q] EXCEPT !.pc = "flying", !.tries = tries, !.attempts = tally]
    <3>1. req' = [req EXCEPT ![q].pc = "flying", ![q].tries = @ + 1,
                              ![q].attempts = IF group.attempts > 0 THEN @ + 1 ELSE @]
      BY <1>7, <2>2 DEF Attempt
    <3>2. req'[q] = x
      BY <1>1, <3>1 DEF Request
    <3> HIDE DEF tally, tries
    <3>3. x.out = req[q].out
      BY <1>1 DEF Request
    <3>4. QED
      BY <3>2, <3>3
  <2>3. QED
    BY <2>1, <2>2
<1>8. CASE Misconfigured(q)
  <2> DEFINE x == [req[q] EXCEPT !.last[req[q].route] = "config"]
  <2>1. req'[q] = Onward(q, x)
    BY <1>1, <1>8 DEF Misconfigured
  <2>2. x \in Request /\ x.out = ""
    BY <1>1 DEF Request, Lasts
  <2> HIDE DEF x
  <2>3. QED
    BY <1>3, <2>1, <2>2
<1>9. ASSUME NEW f \in Failures, Fail(q, f) PROVE FALSE
  <2> DEFINE x == FailedRecord(q, f)
             again == group.retry /\ req[q].tries < TriesAfter(q, f)
  <2>1. req' = [req EXCEPT ![q] = IF again THEN [x EXCEPT !.pc = "ready"] ELSE Onward(q, x)]
    BY <1>9, Zenon DEF Fail, FailedRecord
  <2>2. req[q].pc = "flying"
    BY <1>9 DEF Fail
  <2>3. x \in Request /\ x.out = ""
    BY <2>2, FailedTyped DEF FailedFacts
  <2> HIDE DEF x, again
  <2>4. [x EXCEPT !.pc = "ready"].out = ""
    BY <2>3 DEF Request
  <2>5. QED
    BY <1>1, <1>3, <2>1, <2>3, <2>4
<1>10. ASSUME Plan(q) PROVE FALSE
  <2> DEFINE out == IF req[q].tried = {} THEN "unroutable" ELSE "failed"
  <2>1. CASE req' = [req EXCEPT ![q] = Ended(req[q], out)]
    <3>1. Not(Ended(req[q], out))
      BY <1>1, <1>2 DEF Outs
    <3>2. QED
      BY <1>1, <2>1, <3>1
  <2>2. CASE req' # [req EXCEPT ![q] = Ended(req[q], out)]
    <3> DEFINE claims == MayProbe(q) /\ claimRouteAffinityProbe(q)
               p == req[q].pref
               C == Untried(q) \cup (IF claims THEN {p} ELSE {})
               ceiling == Ceiling(q, C, IF claims THEN p ELSE NoRoute)
               A == Affordable(C, ceiling)
               passedOver == claims /\ p \notin A /\ req[q].tried = {}
               recovery == IF claims /\ ~passedOver THEN p ELSE NoRoute
               pinned == IF claims THEN recovery ELSE IF group.adaptive THEN NoRoute ELSE p
               y(r) == Choose(q, r, recovery, req[q].view[p].until, ceiling)
               x(r) == [y(r) EXCEPT !.pref = IF passedOver THEN NoRoute ELSE @,
                                    !.preserve = ~passedOver /\ (@ \/ MayProbe(q))]
    <3>1. IF A = {} THEN req' = [req EXCEPT ![q] = Ended(req[q], out)]
          ELSE \E r \in Heads(q, A, pinned) : req' = [req EXCEPT ![q] = x(r)]
      BY <1>10, Zenon DEF Plan
    <3> HIDE DEF A, passedOver, recovery, ceiling
    <3>2. PICK r : req' = [req EXCEPT ![q] = x(r)]
      BY <2>2, <3>1
    <3>3. y(r).out = req[q].out /\ DOMAIN y(r) = DOMAIN req[q]
      BY <1>1 DEF Choose, Request
    <3>4. "out" \in DOMAIN req[q]
      BY <1>1 DEF Request
    <3> HIDE DEF y
    <3>5. x(r).out = y(r).out
      BY <3>3, <3>4
    <3> HIDE DEF x
    <3>6. QED
      BY <1>1, <3>2, <3>3, <3>5
  <2>3. QED
    BY <2>1, <2>2
<1>11. QED
  BY <1>4, <1>5, <1>6, <1>7, <1>8, <1>9, <1>10 DEF RequestStep

\* A served request that moves its conversation away from the route it knew
\* had no pause of that route to wait for.
LEMMA ServedMoves ==
  ASSUME IInv, NEW q \in Requests, Serve(q),
         entry[SessionOf[q]].route # NoRoute,
         entry'[SessionOf[q]].route # entry[SessionOf[q]].route,
         req[q].pref = entry[SessionOf[q]].route
  PROVE  /\ ~HalfOpen(req[q])
         /\ ~(req[q].pref # req[q].route /\ Pausing(req[q].last[req[q].pref]))
<1> DEFINE s == SessionOf[q]
           r == req[q].route
           freed == Finished(q, TRUE, None)
<1>1. /\ req[q].pc = "flying"
      /\ entry' = IF shouldRememberRoute(q) /\ freed[s].route # r
                  THEN [freed EXCEPT ![s] = [NoEntry EXCEPT !.route = r]] ELSE freed
  BY DEF Serve
<1>2. req[q] \in Request /\ r \in Routes /\ s \in Sessions
  BY <1>1, OnRoute
<1>3. freed \in [Sessions -> Entry] /\ freed[s].route = entry[s].route
  BY <1>2, FinishedTyped
<1> HIDE DEF freed
<1>4. [NoEntry EXCEPT !.route = r].route = r
  BY DEF NoEntry
<1>5. shouldRememberRoute(q) /\ entry[s].route # r
  BY <1>1, <1>2, <1>3, <1>4
<1>6. ~req[q].preserve /\ req[q].pref # r /\ req[q].pref # NoRoute
  BY <1>2, <1>5 DEF shouldRememberRoute, Request
<1>7. Walking(req[q]) /\ Preserving(req[q])
  BY DEF IInv
<1>8. req[q].tried # {}
  BY <1>1, <1>7 DEF Walking
<1>9. QED
  BY <1>1, <1>6, <1>7, <1>8 DEF Preserving

\* A conversation does not lose the route of its prompt cache because that
\* route is paused: whoever serves it meanwhile gives it back (preserve in
\* shouldRememberRoute, runtime_forward.go and route_affinity.go).
THEOREM AffinityIsKept == Spec => AffinityKept
<1>1. ASSUME IInv, [Next]_vars, NEW q \in Requests, req'[q].out = "served", req[q].out = ""
      PROVE  Serve(q)
  <2>1. PICK o \in Requests : RequestStep(o)
    BY <1>1, RestStays DEF Next
  <2>2. o = q
    BY <1>1, <2>1, OthersStay
  <2>3. QED
    BY <1>1, <2>1, <2>2, OnlyServeServes
<1>2. IInv /\ [Next]_vars =>
       [\A q \in Requests :
        LET s == SessionOf[q]
            p == entry[s].route
            halfOpen == Live(req[q].view[p].until) /\ ~Due(req[q].view[p])
                          /\ p \notin req[q].quiet /\ p \notin Reserve
        IN  req'[q].out = "served" /\ req[q].out = "" /\ p # NoRoute /\ entry'[s].route # p
              => ~(req[q].pref = p /\ (halfOpen \/ (p # req[q].route /\ Pausing(req[q].last[p]))))]_vars
  BY <1>1, ServedMoves DEF HalfOpen
<1>3. QED
  BY <1>2, PathInvariant, PTL DEF Spec, AffinityKept

-----------------------------------------------------------------------------
(***************************************************************************)
(* Recovery probes.  A request whose hold lasts finds it in the entry of   *)
(* its conversation, unless the entry has gone to another route, or a      *)
(* request that was on the same route gave it back.                        *)
(***************************************************************************)
\* A request that was on the route, or that is through; the same after a step.
Spoils(q, r) == r \in req[q].tried \/ req[q].out \notin {"", "unroutable"}
SpoilsNext(q, r) == r \in req'[q].tried \/ req'[q].out \notin {"", "unroutable"}

Probing(q) ==
    /\ req[q].probe /\ Live(req[q].hold)
    /\ req[q].pc = "flying" \/ (req[q].pc = "ready" /\ ~Spent(req[q]))

HoldKept(q) ==
    LET e == entry[SessionOf[q]]
        r == req[q].route
    IN  Probing(q) =>
          \/ e.route # r
          \/ e.probe >= req[q].hold
          \/ \E o \in Requests \ {q} : SessionOf[o] = SessionOf[q] /\ Spoils(o, r)

ProbesApart(p, q) ==
    /\ p # q /\ SessionOf[p] = SessionOf[q]
    /\ Probing(p) /\ Probing(q) /\ req[p].route = req[q].route
    => \E o \in Requests \ {p, q} : SessionOf[o] = SessionOf[p] /\ Spoils(o, req[p].route)

HoldInv ==
    /\ \A q \in Requests : HoldKept(q)
    /\ \A p, q \in Requests : ProbesApart(p, q)

\* Nothing changes the configuration.
LEMMA GroupStays ==
  ASSUME [Next]_vars
  PROVE  group' = group
<1>1. ASSUME NEW q \in Requests, RequestStep(q) PROVE group' = group
  BY <1>1 DEF RequestStep, ListRoutes, Recover, LookUp, Plan, Attempt, Serve, Break, Reject,
              Misconfigured, Cancel, Fail, settings
<1>2. QED
  BY <1>1 DEF Next, ProbeSettles, ClearTempUnschedulable, Blacklist, Forget, Tick, settings, vars

\* What is given back, by whom.
EntriesGoBy(q) ==
    \A s \in Sessions :
      \/ entry'[s].route = entry[s].route /\ entry'[s].probe = entry[s].probe
      \/ entry'[s].route = NoRoute
      \/ /\ s = SessionOf[q] /\ q \in Requests
         /\ ~Probing(q)' /\ SpoilsNext(q, entry'[s].route)

\* No request begins to probe, and who has spoiled a hold stays known.
LEMMA HoldsStay ==
  ASSUME IInv, HoldInv, IInv', NEW q0, EntriesGoBy(q0),
         \A q \in Requests : Probing(q)' => /\ Probing(q) /\ req'[q].route = req[q].route
                                            /\ req'[q].hold = req[q].hold,
         \A q \in Requests : \A r : Spoils(q, r) => SpoilsNext(q, r)
  PROVE  HoldInv'
<1>1. ASSUME NEW q \in Requests PROVE HoldKept(q)'
  <2> DEFINE s == SessionOf[q]
             r == req[q].route
  <2>1. SUFFICES ASSUME Probing(q)', entry'[s].route = r, ~(entry'[s].probe >= req[q].hold)
                 PROVE  \E o \in Requests \ {q} : SessionOf[o] = s /\ SpoilsNext(o, r)
    BY DEF HoldKept, Spoils, SpoilsNext
  <2>2. Probing(q) /\ req'[q].route = r /\ req'[q].hold = req[q].hold /\ s \in Sessions
    BY <2>1 DEF Sessions
  <2>3. r \in Routes
    BY <2>2, OnRoute DEF Probing
  <2>4. CASE entry'[s].route = entry[s].route /\ entry'[s].probe = entry[s].probe
    <3>1. \E o \in Requests \ {q} : SessionOf[o] = s /\ Spoils(o, r)
      BY <2>1, <2>2, <2>4 DEF HoldInv, HoldKept
    <3>2. QED
      BY <3>1
  <2>5. CASE entry'[s].route = NoRoute
    BY <2>1, <2>3, <2>5, ForwardAssumption
  <2>6. CASE s = SessionOf[q0] /\ q0 \in Requests /\ ~Probing(q0)' /\ SpoilsNext(q0, entry'[s].route)
    <3>1. q0 # q
      BY <2>1, <2>6
    <3>2. SpoilsNext(q0, r)
      BY <2>1, <2>6
    <3>3. QED
      BY <2>6, <3>1, <3>2
  <2>7. QED
    BY <2>2, <2>4, <2>5, <2>6 DEF EntriesGoBy
<1>2. ASSUME NEW p \in Requests, NEW q \in Requests PROVE ProbesApart(p, q)'
  <2>1. SUFFICES ASSUME p # q, SessionOf[p] = SessionOf[q], Probing(p)', Probing(q)', req'[p].route = req'[q].route
                 PROVE  \E o \in Requests \ {p, q} : SessionOf[o] = SessionOf[p] /\ SpoilsNext(o, req'[p].route)
    BY DEF ProbesApart, Spoils, SpoilsNext
  <2>2. Probing(p) /\ Probing(q) /\ req'[p].route = req[p].route /\ req'[q].route = req[q].route
    BY <2>1
  <2>3. PICK o \in Requests \ {p, q} : SessionOf[o] = SessionOf[p] /\ Spoils(o, req[p].route)
    BY <2>1, <2>2 DEF HoldInv, ProbesApart
  <2>4. SpoilsNext(o, req'[p].route)
    BY <2>2, <2>3
  <2>5. QED
    BY <2>3, <2>4
<1>3. QED
  BY <1>1, <1>2 DEF HoldInv

\* The same, of the one request that moves.
LEMMA MoverHolds ==
  ASSUME IInv, HoldInv, IInv', group' = group, NEW q0 \in Requests, RequestStep(q0), EntriesGoBy(q0),
         Probing(q0)' => /\ Probing(q0) /\ req'[q0].route = req[q0].route
                         /\ req'[q0].hold = req[q0].hold,
         \A r : Spoils(q0, r) => SpoilsNext(q0, r)
  PROVE  HoldInv'
<1>1. ASSUME NEW q \in Requests
      PROVE  /\ Probing(q)' => /\ Probing(q) /\ req'[q].route = req[q].route
                               /\ req'[q].hold = req[q].hold
             /\ \A r : Spoils(q, r) => SpoilsNext(q, r)
  <2>1. CASE q = q0
    BY <2>1
  <2>2. CASE q # q0
    <3>1. req'[q] = req[q]
      BY <2>2, OthersStay
    <3>2. QED
      BY <3>1 DEF Probing, Spent, Spoils, SpoilsNext
  <2>3. QED
    BY <2>1, <2>2
<1>2. QED
  BY <1>1, HoldsStay

\* A request that is over holds nothing, and is known to be.
LEMMA EndSpoils ==
  ASSUME IInv, HoldInv, IInv', group' = group, NEW q \in Requests, RequestStep(q),
         NEW x \in Request, NEW out \in Outs, req'[q] = Ended(x, out),
         out \in {"", "unroutable"} =>
           /\ req[q].tried = {} /\ req[q].out = ""
           /\ \A s \in Sessions : entry'[s].route = entry[s].route /\ entry'[s].probe = entry[s].probe,
         \A s \in Sessions : s # SessionOf[q] => entry'[s] = entry[s]
  PROVE  HoldInv'
<1>1. Ended(x, out).pc = "ended" /\ Ended(x, out).out = out
  BY EndedTyped
<1>2. ~Probing(q)'
  BY <1>1 DEF Probing
<1>3. \A r : Spoils(q, r) => SpoilsNext(q, r)
  BY <1>1 DEF Spoils, SpoilsNext
<1>4. EntriesGoBy(q)
  <2>1. CASE out \in {"", "unroutable"}
    BY <2>1 DEF EntriesGoBy
  <2>2. CASE out \notin {"", "unroutable"}
    BY <1>1, <1>2, <2>2 DEF EntriesGoBy, SpoilsNext
  <2>3. QED
    BY <2>1, <2>2
<1>5. QED
  BY <1>2, <1>3, <1>4, MoverHolds

\* What a probe gives back is the entry of its own conversation, if that is
\* on its route.
LEMMA FinishedOwn ==
  ASSUME IInv, NEW q \in Requests, NEW success \in BOOLEAN, NEW pause \in {None} \cup Nat
  PROVE  /\ \A s \in Sessions : s # SessionOf[q] => Finished(q, success, pause)[s] = entry[s]
         /\ Finished(q, success, pause) # entry => entry[SessionOf[q]].route = req[q].route
BY DEF Finished, IInv, Shape

\* The same, of a probe that is given back without a verdict.
LEMMA ReturnedOwn ==
  ASSUME IInv, NEW q \in Requests
  PROVE  /\ \A s \in Sessions : s # SessionOf[q] => Returned(q)[s] = entry[s]
         /\ \A s \in Sessions : Returned(q)[s].route = entry[s].route
         /\ Returned(q) # entry => entry[SessionOf[q]].route = req[q].route
<1>1. \A s \in Sessions : Finished(q, FALSE, None)[s].route = entry[s].route
  BY FinishedTyped
<1>2. QED
  BY <1>1, FinishedOwn DEF Returned

\* Reading the routes, recovering them and looking up take no hold.
LEMMA EarlyHolds ==
  ASSUME IInv, HoldInv, IInv', group' = group, NEW q \in Requests, RequestStep(q),
         ListRoutes(q) \/ Recover(q) \/ LookUp(q)
  PROVE  HoldInv'
<1>1. entry' = entry /\ req[q] \in Request /\ req \in [Requests -> Request]
  BY DEF ListRoutes, Recover, LookUp, IInv, Shape
<1>2. EntriesGoBy(q)
  BY <1>1 DEF EntriesGoBy
<1>3. req'[q].pc \in {"recovering", "planning"} /\ req'[q].tried = req[q].tried /\ req'[q].out = req[q].out
  <2>1. CASE ListRoutes(q)
    <3>1. PICK S \in Recoverable :
            req' = [req EXCEPT ![q].pc = "recovering", ![q].view = row, ![q].quiet = quiet, ![q].todo = S]
      BY <2>1 DEF ListRoutes
    <3> DEFINE x == [req[q] EXCEPT !.pc = "recovering", !.view = row, !.quiet = quiet, !.todo = S]
    <3>2. req'[q] = x
      BY <1>1, <3>1
    <3>3. x.pc = "recovering" /\ x.tried = req[q].tried /\ x.out = req[q].out
      BY <1>1 DEF Request
    <3>4. QED
      BY <3>2, <3>3
  <2>2. CASE LookUp(q)
    <3> DEFINE x == [req[q] EXCEPT !.pc = "planning", !.pref = entry[SessionOf[q]].route]
    <3>1. req'[q] = x
      BY <1>1, <2>2 DEF LookUp
    <3>2. x.pc = "planning" /\ x.tried = req[q].tried /\ x.out = req[q].out
      BY <1>1 DEF Request
    <3>3. QED
      BY <3>1, <3>2
  <2>3. CASE Recover(q)
    <3>1. \E r, l :
            \/ req' = [req EXCEPT ![q].todo = @ \ {r}, ![q].view[r] = l, ![q].quiet = @ \ {r}]
            \/ req' = [req EXCEPT ![q].todo = @ \ {r}]
      BY <2>3 DEF Recover
    <3>2. PICK r, l :
            \/ req' = [req EXCEPT ![q].todo = @ \ {r}, ![q].view[r] = l, ![q].quiet = @ \ {r}]
            \/ req' = [req EXCEPT ![q].todo = @ \ {r}]
      BY <3>1
    <3> DEFINE view == [req[q].view EXCEPT ![r] = l]
               x == [req[q] EXCEPT !.todo = @ \ {r}, !.view = view, !.quiet = @ \ {r}]
               y == [req[q] EXCEPT !.todo = @ \ {r}]
    <3>3. req'[q] = x \/ req'[q] = y
      BY <1>1, <3>2 DEF Request
    <3> HIDE DEF view
    <3>4. /\ x.out = req[q].out /\ y.out = req[q].out /\ x.pc = req[q].pc /\ y.pc = req[q].pc
          /\ x.tried = req[q].tried /\ y.tried = req[q].tried
      BY <1>1 DEF Request
    <3>5. req[q].pc = "recovering"
      BY <2>3 DEF Recover
    <3>6. QED
      BY <3>3, <3>4, <3>5
  <2>4. QED
    BY <2>1, <2>2, <2>3
<1>4. ~Probing(q)' /\ \A r : Spoils(q, r) => SpoilsNext(q, r)
  BY <1>3 DEF Probing, Spoils, SpoilsNext
<1>5. QED
  BY <1>2, <1>4, MoverHolds

\* An attempt begins with the hold it had.
LEMMA AttemptHolds ==
  ASSUME IInv, HoldInv, IInv', group' = group, NEW q \in Requests, RequestStep(q), Attempt(q)
  PROVE  HoldInv'
<1>1. req[q].pc = "ready" /\ entry' = entry /\ req[q] \in Request /\ req \in [Requests -> Request]
  BY DEF Attempt, IInv, Shape
<1>2. CASE Limited(q)
  <2>1. req'[q] = Ended(req[q], "failed")
    BY <1>1, <1>2 DEF Attempt
  <2>2. QED
    BY <1>1, <2>1, EndSpoils DEF Outs
<1>3. CASE ~Limited(q)
  <2> DEFINE tally == IF group.attempts > 0 THEN req[q].attempts + 1 ELSE req[q].attempts
             tries == req[q].tries + 1
             x == [req[q] EXCEPT !.pc = "flying", !.tries = tries, !.attempts = tally]
  <2>1. req' = [req EXCEPT ![q].pc = "flying", ![q].tries = @ + 1,
                            ![q].attempts = IF group.attempts > 0 THEN @ + 1 ELSE @]
    BY <1>3 DEF Attempt
  <2>2. req'[q] = x
    BY <1>1, <2>1 DEF Request
  <2> HIDE DEF tally, tries
  <2>3. /\ x.out = req[q].out /\ x.pc = "flying" /\ x.tried = req[q].tried /\ x.route = req[q].route
        /\ x.probe = req[q].probe /\ x.hold = req[q].hold
    BY <1>1 DEF Request
  <2>4. Probing(q)' => /\ Probing(q) /\ req'[q].route = req[q].route /\ req'[q].hold = req[q].hold
    BY <1>1, <1>3, <2>2, <2>3 DEF Probing, Spent, Limited
  <2>5. \A r : Spoils(q, r) => SpoilsNext(q, r)
    BY <2>2, <2>3 DEF Spoils, SpoilsNext
  <2>6. EntriesGoBy(q)
    BY <1>1 DEF EntriesGoBy
  <2>7. QED
    BY <2>4, <2>5, <2>6, MoverHolds
<1>4. QED
  BY <1>2, <1>3

\* A request that ends gives back what it may.
LEMMA EndingHolds ==
  ASSUME IInv, HoldInv, IInv', group' = group, NEW q \in Requests, RequestStep(q),
         Serve(q) \/ Break(q) \/ Reject(q) \/ Cancel(q)
  PROVE  HoldInv'
<1>1. PICK out \in {"served", "broken", "rejected", "canceled"} : req' = [req EXCEPT ![q] = Ended(req[q], out)]
  BY DEF Serve, Break, Reject, Cancel
<1>2. req[q] \in Request /\ req \in [Requests -> Request] /\ out \in Outs
  BY DEF IInv, Shape, Outs
<1>3. req'[q] = Ended(req[q], out)
  BY <1>1, <1>2
<1>4. \A s \in Sessions : s # SessionOf[q] => entry'[s] = entry[s]
  <2>1. CASE Serve(q)
    <3> DEFINE freed == Finished(q, TRUE, None)
    <3>1. \/ entry' = freed
          \/ entry' = [freed EXCEPT ![SessionOf[q]] = [NoEntry EXCEPT !.route = req[q].route]]
      BY <2>1 DEF Serve
    <3>2. freed \in [Sessions -> Entry] /\ \A s \in Sessions : s # SessionOf[q] => freed[s] = entry[s]
      BY FinishedTyped, FinishedOwn
    <3> HIDE DEF freed
    <3>3. QED
      BY <3>1, <3>2
  <2>2. CASE Break(q) \/ Cancel(q)
    <3>1. entry' = Finished(q, FALSE, None) \/ entry' = entry
      BY <2>2 DEF Break, Cancel
    <3>2. None \in {None} \cup Nat
      OBVIOUS
    <3>3. \A s \in Sessions : s # SessionOf[q] => Finished(q, FALSE, None)[s] = entry[s]
      BY <3>2, FinishedOwn
    <3>4. QED
      BY <3>1, <3>3
  <2>3. CASE Reject(q)
    BY <2>3, ReturnedOwn DEF Reject
  <2>4. QED
    BY <2>1, <2>2, <2>3
<1>5. out \notin {"", "unroutable"}
  BY <1>1
<1>6. QED
  BY <1>2, <1>3, <1>4, <1>5, EndSpoils

\* A walk that goes on keeps no probe.
LEMMA OnwardHolds ==
  ASSUME IInv, HoldInv, IInv', group' = group, NEW q \in Requests, RequestStep(q), req[q].pc = "flying",
         NEW x \in Request, x.tried = req[q].tried, x.out = "", req'[q] = Onward(q, x),
         \A s \in Sessions : s # SessionOf[q] => entry'[s] = entry[s],
         \A s \in Sessions : entry'[s].route = entry[s].route,
         entry' # entry => entry[SessionOf[q]].route = req[q].route
  PROVE  HoldInv'
<1>1. CASE FailoverLeft(q)
  <2>1. req'[q] = [x EXCEPT !.pc = "planning"]
    BY <1>1 DEF Onward
  <2>2. req'[q].pc = "planning" /\ req'[q].tried = req[q].tried
    BY <2>1 DEF Request
  <2>3. req[q].out = "" /\ req[q].route \in req[q].tried
    BY DEF IInv, Walking
  <2>4. ~Probing(q)' /\ \A r : Spoils(q, r) => SpoilsNext(q, r)
    BY <2>2, <2>3 DEF Probing, Spoils, SpoilsNext
  <2>5. entry' # entry => SpoilsNext(q, entry'[SessionOf[q]].route)
    <3>1. SessionOf[q] \in Sessions
      BY DEF Sessions
    <3>2. QED
      BY <2>2, <2>3, <3>1 DEF SpoilsNext
  <2>6. EntriesGoBy(q)
    BY <2>4, <2>5 DEF EntriesGoBy
  <2>7. QED
    BY <2>4, <2>6, MoverHolds
<1>2. CASE ~FailoverLeft(q)
  <2>1. req'[q] = Ended(x, "failed") /\ "failed" \in Outs
    BY <1>2 DEF Onward, Outs
  <2>2. QED
    BY <2>1, EndSpoils
<1>3. QED
  BY <1>1, <1>2

\* A route that does not resolve keeps no probe.
LEMMA MisconfiguredHolds ==
  ASSUME IInv, HoldInv, IInv', group' = group, NEW q \in Requests, RequestStep(q), Misconfigured(q)
  PROVE  HoldInv'
<1> DEFINE x == [req[q] EXCEPT !.last[req[q].route] = "config"]
<1>1. req[q].pc = "flying" /\ entry' = Returned(q) /\ req' = [req EXCEPT ![q] = Onward(q, x)]
  BY DEF Misconfigured
<1>2. req[q] \in Request /\ req \in [Requests -> Request] /\ req[q].out = ""
  BY <1>1 DEF IInv, Shape, Walking
<1>3. req'[q] = Onward(q, x)
  BY <1>1, <1>2
<1>4. x \in Request /\ x.tried = req[q].tried /\ x.out = ""
  BY <1>2 DEF Request, Lasts
<1> HIDE DEF x
<1>5. QED
  BY <1>1, <1>3, <1>4, ReturnedOwn, OnwardHolds

\* An attempt that failed: the probe is given back when the route is left.
LEMMA FailHolds ==
  ASSUME IInv, HoldInv, IInv', group' = group, NEW q \in Requests, RequestStep(q),
         NEW f \in Failures, Fail(q, f)
  PROVE  HoldInv'
<1> DEFINE x == FailedRecord(q, f)
           max == TriesAfter(q, f)
           again == group.retry /\ req[q].tries < max
           pause == IF Paused(q, f, max) THEN group.pause ELSE None
<1>1. /\ req[q].pc = "flying"
      /\ entry' = IF req[q].probe /\ LastTry(q, max) THEN Finished(q, FALSE, pause) ELSE entry
  BY DEF Fail
<1>2. req' = [req EXCEPT ![q] = IF again THEN [x EXCEPT !.pc = "ready"] ELSE Onward(q, x)]
  BY Zenon DEF Fail, FailedRecord
<1>3. FailedFacts(q, f, x) /\ max \in Nat
  BY <1>1, FailedTyped
<1>4. req[q] \in Request /\ req \in [Requests -> Request] /\ req[q].out = "" /\ req[q].tries \in Nat
  BY <1>1 DEF IInv, Shape, Walking, Request
<1>5. pause \in {None} \cup Nat
  BY PolicyTyped DEF IInv, Shape
<1> HIDE DEF pause
<1>6. /\ \A s \in Sessions : s # SessionOf[q] => entry'[s] = entry[s]
      /\ \A s \in Sessions : entry'[s].route = entry[s].route
      /\ entry' # entry => entry[SessionOf[q]].route = req[q].route
  <2>1. /\ \A s \in Sessions : s # SessionOf[q] => Finished(q, FALSE, pause)[s] = entry[s]
        /\ \A s \in Sessions : Finished(q, FALSE, pause)[s].route = entry[s].route
        /\ Finished(q, FALSE, pause) # entry => entry[SessionOf[q]].route = req[q].route
    BY <1>5, FinishedOwn, FinishedTyped
  <2>2. QED
    BY <1>1, <2>1
<1>7. /\ x \in Request /\ x.tried = req[q].tried /\ x.out = "" /\ x.route = req[q].route
      /\ x.probe = req[q].probe /\ x.hold = req[q].hold /\ x.attempts = req[q].attempts
  BY <1>3, <1>4 DEF FailedFacts
<1> HIDE DEF x
<1>8. CASE again
  <2>1. req'[q] = [x EXCEPT !.pc = "ready"]
    BY <1>2, <1>4, <1>8
  <2>2. /\ req'[q].pc = "ready" /\ req'[q].tried = req[q].tried /\ req'[q].route = req[q].route
        /\ req'[q].probe = req[q].probe /\ req'[q].hold = req[q].hold
        /\ req'[q].attempts = req[q].attempts /\ req'[q].out = ""
    BY <1>7, <2>1 DEF Request
  <2>3. Probing(q)' => /\ Probing(q) /\ req'[q].route = req[q].route /\ req'[q].hold = req[q].hold
    BY <1>1, <2>2 DEF Probing
  <2>4. \A r : Spoils(q, r) => SpoilsNext(q, r)
    BY <1>4, <2>2 DEF Spoils, SpoilsNext
  <2>5. Probing(q)' => entry' = entry
    <3>1. SUFFICES ASSUME Probing(q)', LastTry(q, max) PROVE FALSE
      BY <1>1
    <3>2. req[q].tries < max
      BY <1>8
    <3>3. ~(req[q].tries >= max)
      <4>1. \A m, n \in Nat : m < n => ~(m >= n)
        OBVIOUS
      <4> HIDE DEF max
      <4>2. QED
        BY <1>3, <1>4, <3>2, <4>1
    <3>4. Limited(q)
      BY <3>1, <3>3 DEF LastTry
    <3>5. QED
      BY <2>2, <3>1, <3>4 DEF Probing, Spent, Limited
  <2>6. entry' # entry => SpoilsNext(q, entry'[SessionOf[q]].route)
    <3>1. SessionOf[q] \in Sessions /\ req[q].route \in req[q].tried
      BY <1>1 DEF Sessions, IInv, Walking
    <3>2. QED
      BY <1>6, <2>2, <3>1 DEF SpoilsNext
  <2>7. EntriesGoBy(q)
    BY <1>6, <2>5, <2>6 DEF EntriesGoBy
  <2>8. QED
    BY <2>3, <2>4, <2>7, MoverHolds
<1>9. CASE ~again
  <2>1. req'[q] = Onward(q, x)
    BY <1>2, <1>4, <1>9
  <2>2. QED
    BY <1>1, <1>6, <1>7, <2>1, OnwardHolds
<1>10. QED
  BY <1>8, <1>9

\* The rest of the system takes no hold; an entry that is evicted has no route.
LEMMA RestHolds ==
  ASSUME IInv, HoldInv, IInv', group' = group, req' = req, entry' = entry \/ Forget
  PROVE  HoldInv'
<1>1. \A s \in Sessions : entry'[s] = entry[s] \/ entry'[s] = NoEntry
  BY DEF Forget, IInv, Shape
<1>2. EntriesGoBy("nobody")
  BY <1>1 DEF EntriesGoBy, NoEntry
<1>3. \A q \in Requests : /\ Probing(q)' => Probing(q)
                          /\ \A r : Spoils(q, r) => SpoilsNext(q, r)
  BY DEF Probing, Spent, Spoils, SpoilsNext
<1>4. QED
  BY <1>2, <1>3, HoldsStay

-----------------------------------------------------------------------------
\* A chosen route is probed when it is the one to recover, with a new hold.
Probed(q, r, recovery, x) ==
    /\ x.probe = (req[q].tried = {} /\ recovery = r)
    /\ x.hold = IF recovery = NoRoute THEN req[q].hold ELSE Hold

\* Choosing a route sets its probe and its hold.
LEMMA ChooseHolds ==
  ASSUME NEW q \in Requests, req[q] \in Request, group \in Policies, NEW r \in Routes,
         NEW recovery \in Routes \cup {NoRoute}, NEW until, recovery # NoRoute => until \in Nat,
         NEW ceiling \in {None} \cup Nat
  PROVE  Probed(q, r, recovery, Choose(q, r, recovery, until, ceiling))
<1> DEFINE probe == req[q].tried = {} /\ recovery = r
           max == IF probe THEN 1 ELSE 1 + (IF group.retry THEN group.count ELSE 0)
           more == Affordable(Untried(q) \ {r}, ceiling) # {}
           rec == IF recovery = NoRoute THEN req[q].recovery ELSE recovery
           til == IF recovery = NoRoute THEN req[q].until ELSE until
           hold == IF recovery = NoRoute THEN req[q].hold ELSE Hold
           tried == req[q].tried \cup {r}
           x == [req[q] EXCEPT !.pc = "ready", !.route = r, !.tried = tried, !.tries = 0, !.probe = probe,
                       !.max = max, !.more = more, !.ceiling = ceiling, !.recovery = rec,
                       !.until = til, !.hold = hold]
<1>1. Choose(q, r, recovery, until, ceiling) = x
  BY Zenon DEF Choose
<1> HIDE DEF probe, max, more, rec, til, hold, tried
<1>2. x.probe = probe /\ x.hold = hold
  BY DEF Request
<1> HIDE DEF x
<1>3. QED
  BY <1>1, <1>2 DEF probe, hold, Probed

\* The request takes the hold of its conversation, which nobody had.
Claims(q) ==
    LET s == SessionOf[q] IN
    /\ entry[s].route = req[q].pref /\ ~Live(entry[s].probe)
    /\ entry' = [entry EXCEPT ![s].probe = Hold]

\* All holds stay as they are.
HoldsUnchanged == \A s \in Sessions : entry'[s].route = entry[s].route /\ entry'[s].probe = entry[s].probe

\* Planning ends the request, or puts it on a route: as a probe only with a
\* hold that it takes now.
LEMMA PlanOutcome ==
  ASSUME IInv, NEW q \in Requests, Plan(q)
  PROVE  /\ \A t \in Sessions : t # SessionOf[q] => entry'[t] = entry[t]
         /\ HoldsUnchanged \/ Claims(q)
         /\ \/ \E out \in {"unroutable", "failed"} :
                 /\ req' = [req EXCEPT ![q] = Ended(req[q], out)]
                 /\ out = "unroutable" => req[q].tried = {} /\ HoldsUnchanged
            \/ \E z \in Request :
                 /\ req' = [req EXCEPT ![q] = z]
                 /\ z.tried = req[q].tried \cup {z.route} /\ z.out = ""
                 /\ z.probe => /\ req[q].tried = {} /\ Claims(q)
                               /\ z.route = req[q].pref /\ z.hold = Hold
<1> DEFINE s == SessionOf[q]
           claims == MayProbe(q) /\ claimRouteAffinityProbe(q)
           p == req[q].pref
           C == Untried(q) \cup (IF claims THEN {p} ELSE {})
           ceiling == Ceiling(q, C, IF claims THEN p ELSE NoRoute)
           A == Affordable(C, ceiling)
           passedOver == claims /\ p \notin A /\ req[q].tried = {}
           recovery == IF claims /\ ~passedOver THEN p ELSE NoRoute
           pinned == IF claims THEN recovery ELSE IF group.adaptive THEN NoRoute ELSE p
           y(r) == Choose(q, r, recovery, req[q].view[p].until, ceiling)
           x(r) == [y(r) EXCEPT !.pref = IF passedOver THEN NoRoute ELSE @,
                                !.preserve = ~passedOver /\ (@ \/ MayProbe(q))]
<1>1. req[q].pc = "planning"
  BY DEF Plan
<1>2. IF A = {} THEN req' = [req EXCEPT ![q] = Ended(req[q], IF req[q].tried = {} THEN "unroutable" ELSE "failed")]
      ELSE \E r \in Heads(q, A, pinned) : req' = [req EXCEPT ![q] = x(r)]
  BY Zenon DEF Plan
<1>3. entry' = IF passedOver THEN [entry EXCEPT ![s].blocked = req[q].view[p].until]
               ELSE IF claims THEN [entry EXCEPT ![s].probe = Hold] ELSE entry
  BY DEF Plan
<1>4. /\ req[q] \in Request /\ req \in [Requests -> Request] /\ group \in Policies
      /\ entry \in [Sessions -> Entry] /\ s \in Sessions /\ req[q].out = ""
  BY <1>1 DEF IInv, Shape, Sessions, Walking
<1>5. claims => p \in Routes \ req[q].tried /\ req[q].view[p].until \in Nat
  BY <1>4, MayProbeRoute
<1>6. C \subseteq Routes \ req[q].tried
  BY <1>5 DEF Untried
<1>7. ceiling \in {None} \cup Nat
  BY <1>4, <1>6, CeilingTyped
<1>8. A \subseteq C /\ Heads(q, A, pinned) \subseteq A
  BY HeadsAreCandidates
<1>9. recovery \in Routes \cup {NoRoute} /\ (recovery # NoRoute => req[q].view[p].until \in Nat)
  BY <1>5
<1>10. claims => entry[s].route = p /\ ~Live(entry[s].probe)
  BY DEF claimRouteAffinityProbe
<1>11. HoldsUnchanged \/ (claims /\ ~passedOver /\ Claims(q))
  <2>1. CASE passedOver
    BY <2>1, <1>3, <1>4 DEF Entry, HoldsUnchanged
  <2>2. CASE ~passedOver
    BY <2>2, <1>3, <1>10 DEF HoldsUnchanged, Claims
  <2>3. QED
    BY <2>1, <2>2
<1>12. \A t \in Sessions : t # s => entry'[t] = entry[t]
  BY <1>3, <1>4
<1>13. recovery = IF claims /\ ~passedOver THEN p ELSE NoRoute
  OBVIOUS
<1>14. passedOver <=> claims /\ p \notin A /\ req[q].tried = {}
  OBVIOUS
<1>15. claims /\ ~passedOver => Claims(q)
  BY <1>3, <1>10 DEF Claims
<1> HIDE DEF C, ceiling, A, recovery, pinned, passedOver, claims
<1>16. CASE A = {}
  <2> DEFINE out == IF req[q].tried = {} THEN "unroutable" ELSE "failed"
  <2>1. req' = [req EXCEPT ![q] = Ended(req[q], out)]
    BY <1>2, <1>16
  <2>2. out \in {"unroutable", "failed"} /\ (out = "unroutable" <=> req[q].tried = {})
    OBVIOUS
  <2> HIDE DEF out
  <2>3. req[q].tried = {} => HoldsUnchanged
    BY <1>11, <1>14, <1>16
  <2>4. QED
    BY <1>11, <1>12, <2>1, <2>2, <2>3
<1>17. CASE A # {}
  <2>1. PICK r \in Heads(q, A, pinned) : req' = [req EXCEPT ![q] = x(r)]
    BY <1>2, <1>17
  <2>2. r \in Routes /\ r \notin req[q].tried
    BY <1>6, <1>8
  <2> DEFINE until == req[q].view[p].until
  <2>3. recovery # NoRoute => until \in Nat
    BY <1>9
  <2> HIDE DEF until
  <2>4. Chosen(q, r, Choose(q, r, recovery, until, ceiling))
    BY <1>4, <1>7, <1>9, <2>2, <2>3, ChooseTyped
  <2>5. Probed(q, r, recovery, Choose(q, r, recovery, until, ceiling))
    BY <1>4, <1>7, <1>9, <2>2, <2>3, ChooseHolds
  <2>6. /\ Chosen(q, r, y(r)) /\ y(r).probe = (req[q].tried = {} /\ recovery = r)
        /\ y(r).hold = (IF recovery = NoRoute THEN req[q].hold ELSE Hold)
    BY <2>4, <2>5 DEF until, Probed
  <2> DEFINE pref == IF passedOver THEN NoRoute ELSE p
             preserve == ~passedOver /\ (req[q].preserve \/ MayProbe(q))
             z == [y(r) EXCEPT !.pref = pref, !.preserve = preserve]
  <2> HIDE DEF y
  <2>7. /\ y(r) \in Request /\ y(r).route = r /\ y(r).tried = req[q].tried \cup {r} /\ y(r).out = ""
        /\ y(r).pref = p /\ y(r).preserve = req[q].preserve
    BY <1>4, <2>6 DEF Chosen
  <2>8. x(r) = z
    BY <2>7
  <2>9. pref \in Routes \cup {NoRoute} /\ preserve \in BOOLEAN
    BY <1>4 DEF Request
  <2> HIDE DEF x, pref, preserve
  <2>10. /\ z \in Request /\ z.route = r /\ z.tried = req[q].tried \cup {r} /\ z.out = ""
         /\ z.probe = y(r).probe /\ z.hold = y(r).hold
    BY <2>7, <2>9 DEF Request
  <2> HIDE DEF z
  <2>11. z.probe => req[q].tried = {} /\ Claims(q) /\ z.route = p /\ z.hold = Hold
    <3>1. SUFFICES ASSUME z.probe PROVE req[q].tried = {} /\ Claims(q) /\ z.route = p /\ z.hold = Hold
      OBVIOUS
    <3>2. req[q].tried = {} /\ recovery = r
      BY <2>6, <2>10, <3>1
    <3>3. recovery # NoRoute
      BY <2>2, <3>2, ForwardAssumption
    <3>4. QED
      BY <1>13, <1>15, <2>6, <2>10, <3>2, <3>3
  <2>12. req' = [req EXCEPT ![q] = z]
    BY <2>1, <2>8
  <2>13. QED
    BY <1>11, <1>12, <2>10, <2>11, <2>12
<1>18. QED
  BY <1>16, <1>17

\* A claim is made only of an entry that nobody holds: of the requests that
\* probe, only one whose hold was given back by a third finds another beside it.
LEMMA PlanHolds ==
  ASSUME IInv, HoldInv, IInv', group' = group, NEW q \in Requests, RequestStep(q), Plan(q)
  PROVE  HoldInv'
<1> DEFINE s == SessionOf[q]
           p == req[q].pref
<1>1. /\ req[q] \in Request /\ req \in [Requests -> Request] /\ entry \in [Sessions -> Entry]
      /\ s \in Sessions /\ req[q].out = "" /\ req[q].pc = "planning"
  BY DEF Plan, IInv, Shape, Sessions, Walking
<1>2. /\ \A t \in Sessions : t # s => entry'[t] = entry[t]
      /\ HoldsUnchanged \/ Claims(q)
  BY PlanOutcome
<1>3. ASSUME NEW out \in {"unroutable", "failed"}, req' = [req EXCEPT ![q] = Ended(req[q], out)],
             out = "unroutable" => req[q].tried = {} /\ HoldsUnchanged
      PROVE  HoldInv'
  <2>1. req'[q] = Ended(req[q], out) /\ out \in Outs
    BY <1>1, <1>3 DEF Outs
  <2>2. out \in {"", "unroutable"} => out = "unroutable"
    BY <1>3
  <2>3. QED
    BY <1>1, <1>2, <1>3, <2>1, <2>2, EndSpoils DEF HoldsUnchanged
<1>4. ASSUME NEW z \in Request, req' = [req EXCEPT ![q] = z],
             z.tried = req[q].tried \cup {z.route}, z.out = "",
             z.probe => req[q].tried = {} /\ Claims(q) /\ z.route = p /\ z.hold = Hold
      PROVE  HoldInv'
  <2>1. req'[q] = z /\ \A t \in Requests \ {q} : req'[t] = req[t]
    BY <1>1, <1>4
  <2>2. \A m : Spoils(q, m) => SpoilsNext(q, m)
    BY <1>1, <1>4, <2>1 DEF Spoils, SpoilsNext
  <2>3. CASE ~z.probe /\ HoldsUnchanged
    <3>1. ~Probing(q)' /\ EntriesGoBy(q)
      BY <2>1, <2>3 DEF Probing, HoldsUnchanged, EntriesGoBy
    <3>2. QED
      BY <2>2, <3>1, MoverHolds
  <2>4. CASE Claims(q)
    <3>1. \A t \in Requests : \A m : Spoils(t, m) => SpoilsNext(t, m)
      BY <2>1, <2>2 DEF Spoils, SpoilsNext
    <3>2. \A t \in Requests \ {q} : Probing(t)' => Probing(t)
      BY <2>1 DEF Probing, Spent
    <3>3. /\ entry[s].route = p /\ ~Live(entry[s].probe)
          /\ entry'[s].probe = Hold /\ entry'[s].route = p
      BY <1>1, <2>4 DEF Claims, Entry
    <3>4. ASSUME NEW t \in Requests \ {q}, Probing(t), SessionOf[t] = s, req[t].route = p
          PROVE  \E o \in Requests \ {t} : SessionOf[o] = s /\ Spoils(o, p)
      <4>1. req[t].hold \in Nat /\ entry[s].probe \in Nat
        BY <1>1 DEF IInv, Shape, Request, Entry
      <4>2. ~(entry[s].probe >= req[t].hold)
        BY <3>3, <3>4, <4>1 DEF Probing, Live
      <4>3. QED
        BY <3>3, <3>4, <4>2 DEF HoldInv, HoldKept
    <3>5. ASSUME NEW t \in Requests PROVE HoldKept(t)'
      <4>1. CASE t = q
        <5>1. Probing(q)' => z.hold = Hold /\ req'[q].hold = z.hold
          BY <1>4, <2>1 DEF Probing
        <5>2. Hold >= Hold
          BY ForwardAssumption
        <5>3. QED
          BY <3>3, <4>1, <5>1, <5>2 DEF HoldKept
      <4>2. CASE t # q
        <5>1. SUFFICES ASSUME Probing(t)', entry'[SessionOf[t]].route = req[t].route,
                              ~(entry'[SessionOf[t]].probe >= req[t].hold)
                       PROVE  \E o \in Requests \ {t} : SessionOf[o] = SessionOf[t] /\ SpoilsNext(o, req[t].route)
          BY <2>1, <4>2 DEF HoldKept, Spoils, SpoilsNext
        <5>2. Probing(t) /\ SessionOf[t] \in Sessions
          BY <3>2, <4>2, <5>1 DEF Sessions
        <5>3. CASE SessionOf[t] # s
          <6>1. entry'[SessionOf[t]] = entry[SessionOf[t]]
            BY <1>2, <5>2, <5>3
          <6>2. \E o \in Requests \ {t} : SessionOf[o] = SessionOf[t] /\ Spoils(o, req[t].route)
            BY <5>1, <5>2, <6>1 DEF HoldInv, HoldKept
          <6>3. QED
            BY <3>1, <6>2
        <5>4. CASE SessionOf[t] = s
          <6>1. req[t].route = p
            BY <3>3, <5>1, <5>4
          <6>2. \E o \in Requests \ {t} : SessionOf[o] = s /\ Spoils(o, p)
            BY <3>4, <4>2, <5>2, <5>4, <6>1
          <6>3. QED
            BY <3>1, <5>4, <6>1, <6>2
        <5>5. QED
          BY <5>3, <5>4
      <4>3. QED
        BY <4>1, <4>2
    <3>6. ASSUME NEW t \in Requests \ {q}, Probing(q)', Probing(t)', SessionOf[t] = s, req[t].route = z.route
          PROVE  \E o \in Requests \ {q, t} : SessionOf[o] = s /\ SpoilsNext(o, z.route)
      <4>1. z.route = p /\ req[q].tried = {}
        BY <1>4, <2>1, <3>6 DEF Probing
      <4>2. PICK o \in Requests \ {t} : SessionOf[o] = s /\ Spoils(o, p)
        BY <3>2, <3>4, <3>6, <4>1
      <4>3. o # q
        BY <1>1, <4>1, <4>2 DEF Spoils
      <4>4. QED
        BY <3>1, <4>1, <4>2, <4>3
    <3>7. ASSUME NEW t \in Requests, NEW u \in Requests PROVE ProbesApart(t, u)'
      <4>1. SUFFICES ASSUME t # u, SessionOf[t] = SessionOf[u], Probing(t)', Probing(u)', req'[t].route = req'[u].route
                     PROVE  \E o \in Requests \ {t, u} : SessionOf[o] = SessionOf[t] /\ SpoilsNext(o, req'[t].route)
        BY DEF ProbesApart, Spoils, SpoilsNext
      <4>2. CASE t = q
        BY <2>1, <3>6, <4>1, <4>2
      <4>3. CASE u = q
        BY <2>1, <3>6, <4>1, <4>3
      <4>4. CASE t # q /\ u # q
        <5>1. Probing(t) /\ Probing(u) /\ req'[t] = req[t] /\ req'[u] = req[u]
          BY <2>1, <3>2, <4>1, <4>4
        <5>2. \E o \in Requests \ {t, u} : SessionOf[o] = SessionOf[t] /\ Spoils(o, req[t].route)
          BY <4>1, <5>1 DEF HoldInv, ProbesApart
        <5>3. QED
          BY <3>1, <5>1, <5>2
      <4>5. QED
        BY <4>2, <4>3, <4>4
    <3>8. QED
      BY <3>5, <3>7 DEF HoldInv
  <2>5. QED
    BY <1>2, <1>4, <2>3, <2>4
<1>5. QED
  BY <1>3, <1>4, PlanOutcome

\* Time runs down the holds and the entries alike.
LEMMA TickHolds ==
  ASSUME IInv, HoldInv, IInv', group' = group, Tick
  PROVE  HoldInv'
<1>1. /\ entry' = [s \in Sessions |-> [entry[s] EXCEPT !.probe = Aged(@), !.blocked = Aged(@)]]
      /\ \A q \in Requests : req[q].pc \in {"new", "flying", "ended"}
  BY DEF Tick
<1>2. req' = [q \in Requests |-> IF req[q].pc # "flying" THEN req[q] ELSE AgedRequest(req[q])]
  BY Zenon DEF Tick, AgedRequest
<1>3. \A s \in Sessions : entry'[s].route = entry[s].route /\ entry'[s].probe = Aged(entry[s].probe)
                          /\ entry[s].probe \in Nat
  BY <1>1 DEF IInv, Shape, Entry
<1>4. ASSUME NEW q \in Requests
      PROVE  /\ req'[q].pc = req[q].pc /\ req'[q].tried = req[q].tried /\ req'[q].out = req[q].out
             /\ req'[q].route = req[q].route /\ req'[q].probe = req[q].probe
             /\ req[q].hold \in Nat
             /\ req[q].pc = "flying" => req'[q].hold = Aged(req[q].hold)
  <2>1. req[q] \in Request
    BY DEF IInv, Shape
  <2>2. req[q].hold \in Nat
    BY <2>1 DEF Request
  <2>3. CASE req[q].pc = "flying"
    BY <1>2, <2>1, <2>2, <2>3, AgedRequestTyped
  <2>4. CASE req[q].pc # "flying"
    BY <1>2, <2>2, <2>4
  <2>5. QED
    BY <2>3, <2>4
<1>5. \A q \in Requests : \A r : Spoils(q, r) <=> SpoilsNext(q, r)
  BY <1>4 DEF Spoils, SpoilsNext
<1>6. \A q \in Requests : Probing(q)' => Probing(q) /\ req'[q].hold = Aged(req[q].hold)
  <2>1. \A q \in Requests : Probing(q)' => req[q].pc = "flying" /\ req[q].probe /\ Live(Aged(req[q].hold))
                                            /\ req'[q].hold = Aged(req[q].hold)
    BY <1>1, <1>4 DEF Probing
  <2>2. \A q \in Requests : Live(Aged(req[q].hold)) => Live(req[q].hold)
    BY <1>4, AgedTyped
  <2>3. QED
    BY <2>1, <2>2 DEF Probing
<1>7. \A m, n \in Nat : m >= n => Aged(m) >= Aged(n)
  BY DEF Aged, Live
<1>8. ASSUME NEW q \in Requests PROVE HoldKept(q)'
  <2> DEFINE s == SessionOf[q]
             r == req[q].route
  <2>1. SUFFICES ASSUME Probing(q)', entry'[s].route = r, ~(entry'[s].probe >= req'[q].hold)
                 PROVE  \E o \in Requests \ {q} : SessionOf[o] = s /\ SpoilsNext(o, r)
    BY <1>4 DEF HoldKept, Spoils, SpoilsNext
  <2>2. Probing(q) /\ s \in Sessions /\ req'[q].hold = Aged(req[q].hold)
    BY <1>6, <2>1 DEF Sessions
  <2>3. entry[s].route = r /\ ~(entry[s].probe >= req[q].hold)
    BY <1>3, <1>4, <1>7, <2>1, <2>2
  <2>4. \E o \in Requests \ {q} : SessionOf[o] = s /\ Spoils(o, r)
    BY <2>2, <2>3 DEF HoldInv, HoldKept
  <2>5. QED
    BY <1>5, <2>4
<1>9. ASSUME NEW p \in Requests, NEW q \in Requests PROVE ProbesApart(p, q)'
  <2>1. SUFFICES ASSUME p # q, SessionOf[p] = SessionOf[q], Probing(p)', Probing(q)', req'[p].route = req'[q].route
                 PROVE  \E o \in Requests \ {p, q} : SessionOf[o] = SessionOf[p] /\ SpoilsNext(o, req'[p].route)
    BY DEF ProbesApart, Spoils, SpoilsNext
  <2>2. Probing(p) /\ Probing(q) /\ req'[p].route = req[p].route /\ req'[q].route = req[q].route
    BY <1>4, <1>6, <2>1
  <2>3. PICK o \in Requests \ {p, q} : SessionOf[o] = SessionOf[p] /\ Spoils(o, req[p].route)
    BY <2>1, <2>2 DEF HoldInv, ProbesApart
  <2>4. QED
    BY <1>5, <2>2, <2>3
<1>10. QED
  BY <1>8, <1>9 DEF HoldInv

\* Nobody probes at first.
LEMMA InitHolds == Init => HoldInv
<1>1. SUFFICES ASSUME Init PROVE \A q \in Requests : ~Probing(q)
  BY DEF HoldInv, HoldKept, ProbesApart
<1>2. PICK s \in Scenarios : req = [q \in Requests |->
                     IF q \in s.requests THEN Fresh ELSE [Fresh EXCEPT !.pc = "ended"]]
  BY <1>1 DEF Init
<1>3. \A q \in Requests : req[q].pc \in {"new", "ended"}
  BY <1>2 DEF Fresh
<1>4. QED
  BY <1>3 DEF Probing

\* Every step keeps the holds.
LEMMA NextHolds ==
  ASSUME IInv, HoldInv, [Next]_vars
  PROVE  HoldInv'
<1>1. IInv' /\ group' = group
  BY NextKeeps, GroupStays
<1>2. ASSUME NEW q \in Requests, RequestStep(q) PROVE HoldInv'
  <2>1. CASE ListRoutes(q) \/ Recover(q) \/ LookUp(q)
    BY <1>1, <1>2, <2>1, EarlyHolds
  <2>2. CASE Plan(q)
    BY <1>1, <1>2, <2>2, PlanHolds
  <2>3. CASE Attempt(q)
    BY <1>1, <1>2, <2>3, AttemptHolds
  <2>4. CASE Serve(q) \/ Break(q) \/ Reject(q) \/ Cancel(q)
    BY <1>1, <1>2, <2>4, EndingHolds
  <2>5. CASE Misconfigured(q)
    BY <1>1, <1>2, <2>5, MisconfiguredHolds
  <2>6. CASE \E f \in Failures : Fail(q, f)
    BY <1>1, <1>2, <2>6, FailHolds
  <2>7. QED
    BY <1>2, <2>1, <2>2, <2>3, <2>4, <2>5, <2>6 DEF RequestStep
<1>3. CASE \/ \E r \in Routes : ProbeSettles(r) \/ ClearTempUnschedulable(r)
           \/ \E S \in SUBSET Routes : Blacklist(S)
           \/ Forget
           \/ UNCHANGED vars
  <2>1. req' = req /\ (entry' = entry \/ Forget)
    BY <1>3 DEF ProbeSettles, ClearTempUnschedulable, Blacklist, Forget, vars
  <2>2. QED
    BY <1>1, <2>1, RestHolds
<1>4. CASE Tick
  BY <1>1, <1>4, TickHolds
<1>5. QED
  BY <1>2, <1>3, <1>4 DEF Next

\* Of the requests of a conversation one alone tests its paused route while its
\* hold lasts, unless a third gave that hold back (claimRouteAffinityProbe and
\* finishRouteAffinityProbe, route_affinity.go).
THEOREM OneProbeAtATime == Spec => []OneRecoveryProbe
<1>1. Init => HoldInv
  BY InitHolds
<1>2. IInv /\ HoldInv /\ [Next]_vars => HoldInv'
  BY NextHolds
<1>3. HoldInv => OneRecoveryProbe
  <2>1. SUFFICES ASSUME HoldInv, NEW q1 \in Requests, NEW q2 \in Requests,
                        q1 # q2, SessionOf[q1] = SessionOf[q2], req[q1].route = req[q2].route,
                        req[q1].pc = "flying", req[q1].probe, Live(req[q1].hold),
                        req[q2].pc = "flying", req[q2].probe, Live(req[q2].hold)
                 PROVE  \E o \in Requests \ {q1, q2} : SessionOf[o] = SessionOf[q1] /\ Spoils(o, req[q1].route)
    BY DEF OneRecoveryProbe, Spoils
  <2>2. Probing(q1) /\ Probing(q2)
    BY <2>1 DEF Probing
  <2>3. QED
    BY <2>1, <2>2 DEF HoldInv, ProbesApart
<1>4. QED
  BY <1>1, <1>2, <1>3, PathInvariant, PTL DEF Spec

-----------------------------------------------------------------------------
(* The launch plan of a coordinated request.  A retry beyond the transport *)
(* retries is opened by what the scheduler's budget says of its source, so *)
(* the invariant ties each budget to the report that wrote it: an open one *)
(* to a rejection (BudgetEarned), and one that a retry failed on to a try  *)
(* later than the rejection it came from, so that no older report opens it *)
(* again (NotAhead, FailuresClose).                                        *)

\* A set of numbers has a least one.
LEMMA LeastOf ==
  ASSUME NEW S, S \subseteq Nat, S # {}
  PROVE  \E x \in S : \A y \in S : x <= y
<1>1. PICK x \in S : \A y \in S : ~(<<y, x>> \in OpToRel(<, Nat))
  BY NatLessThanWellFounded, WFMin
<1>2. \A y \in S : x <= y
  <2>1. SUFFICES ASSUME NEW y \in S, y < x PROVE FALSE
    BY SMT
  <2>2. <<y, x>> \in OpToRel(<, Nat)
    BY <2>1 DEF OpToRel
  <2>3. QED
    BY <1>1, <2>2
<1>3. QED
  BY <1>2

\* A set of numbers up to b that is not empty has a greatest one: among the
\* numbers that bound it there is a least.
LEMMA GreatestOf ==
  ASSUME NEW b \in Nat, NEW S \in SUBSET (1..b), S # {}
  PROVE  \E x \in S : \A y \in S : y <= x
<1> DEFINE Bounds == {n \in Nat : \A y \in S : y <= n}
<1>1. Bounds \subseteq Nat /\ b \in Bounds
  OBVIOUS
<1>2. PICK n \in Bounds : \A m \in Bounds : n <= m
  <2> HIDE DEF Bounds
  <2> QED
    BY <1>1, LeastOf
<1>3. n \in Nat /\ \A y \in S : y \in Nat /\ y <= n
  OBVIOUS
<1>4. n \in S
  <2> SUFFICES ASSUME n \notin S PROVE FALSE
    OBVIOUS
  <2>1. \A y \in S : y \in Nat /\ y < n
    BY <1>3
  <2>2. n > 0
    <3>1. PICK y : y \in S
      OBVIOUS
    <3> QED
      BY <3>1, <2>1, <1>3
  <2>3. n - 1 \in Nat /\ \A y \in S : y <= n - 1
    BY <2>1, <2>2, <1>3
  <2>4. n - 1 \in Bounds
    BY <2>3
  <2> HIDE DEF Bounds
  <2>5. n <= n - 1
    BY <2>4, <1>2
  <2> QED
    BY <2>5, <1>3
<1> QED
  BY <1>3, <1>4

\* Every set of numbers up to b can be listed in ascending order; otherwise take
\* a set with the fewest elements that cannot, list it without its greatest
\* element and put that at the end.
LEMMA AscendingExists ==
  ASSUME NEW b \in Nat, NEW S \in SUBSET (1..b)
  PROVE  IsFiniteSet(S) /\ Ascending(S) # {}
<1> DEFINE Bad == {n \in Nat : \E T \in SUBSET (1..b) : IsFiniteSet(T) /\ Cardinality(T) = n /\ Ascending(T) = {}}
<1>0. IsFiniteSet(S)
  <2>1. IsFiniteSet(1..b)
    BY FS_Interval
  <2> QED
    BY <2>1, FS_Subset
<1> SUFFICES ASSUME Ascending(S) = {} PROVE FALSE
  BY <1>0
<1>1. Bad # {} /\ Bad \subseteq Nat
  BY <1>0, FS_CardinalityType
<1>2. PICK n \in Bad : \A m \in Bad : n <= m
  <2> HIDE DEF Bad
  <2> QED
    BY <1>1, LeastOf
<1>3. PICK T \in SUBSET (1..b) : IsFiniteSet(T) /\ Cardinality(T) = n /\ Ascending(T) = {}
  OBVIOUS
<1>4. T # {}
  <2> SUFFICES ASSUME T = {} PROVE FALSE
    OBVIOUS
  <2>1. Cardinality(T) = 0
    BY FS_EmptySet
  <2>2. 1..Cardinality(T) = {}
    BY <2>1
  <2> DEFINE e == [i \in {} |-> 0]
  <2>3. e \in [1..Cardinality(T) -> T]
    BY <2>2
  <2>4. e \in Ascending(T)
    BY <2>2, <2>3 DEF Ascending
  <2> QED
    BY <2>4, <1>3
<1>5. PICK x \in T : \A y \in T : y <= x
  BY <1>3, <1>4, GreatestOf
<1>6. IsFiniteSet(T \ {x}) /\ Cardinality(T \ {x}) = n - 1 /\ n \in Nat /\ n > 0 /\ T \ {x} \in SUBSET (1..b)
  <2>1. IsFiniteSet(T \ {x}) /\ Cardinality(T \ {x}) = n - 1
    BY <1>3, <1>5, FS_RemoveElement
  <2>2. n - 1 \in Nat
    BY <2>1, FS_CardinalityType
  <2> QED
    BY <2>1, <2>2
<1>7. Ascending(T \ {x}) # {}
  <2> SUFFICES ASSUME Ascending(T \ {x}) = {} PROVE FALSE
    OBVIOUS
  <2>1. n - 1 \in Bad
    BY <1>6
  <2> HIDE DEF Bad
  <2> QED
    BY <2>1, <1>2, <1>6
<1> HIDE DEF Bad
<1>8. PICK o \in [1..(n - 1) -> T \ {x}] : \A i, j \in 1..(n - 1) : i < j => o[i] < o[j]
  BY <1>6, <1>7 DEF Ascending
<1> DEFINE p == [i \in 1..n |-> IF i = n THEN x ELSE o[i]]
<1>9. \A i \in 1..n : i = n \/ i \in 1..(n - 1)
  BY <1>6
<1>10. \A i \in 1..(n - 1) : o[i] \in T /\ o[i] < x
  <2> TAKE i \in 1..(n - 1)
  <2>1. o[i] \in T /\ o[i] # x
    BY <1>8
  <2>2. o[i] <= x
    BY <2>1, <1>5
  <2>3. T \subseteq Nat
    BY SMT
  <2>4. o[i] \in Nat /\ x \in Nat
    BY <2>1, <2>3, <1>5
  <2> QED
    BY <2>1, <2>2, <2>4
<1>11. p \in [1..n -> T]
  BY <1>5, <1>9, <1>10
<1>12. ASSUME NEW i \in 1..n, NEW j \in 1..n, i < j PROVE p[i] < p[j]
  <2>1. i \in 1..(n - 1)
    BY <1>6, <1>12
  <2>2. p[i] = o[i]
    BY <2>1, <1>6
  <2>3. CASE j = n
    BY <2>1, <2>2, <2>3, <1>10
  <2>4. CASE j \in 1..(n - 1)
    BY <2>1, <2>2, <2>4, <1>6, <1>8, <1>12
  <2> QED
    BY <2>3, <2>4, <1>9
<1>13. p \in Ascending(T)
  <2> HIDE DEF p
  <2> QED
    BY <1>3, <1>11, <1>12 DEF Ascending
<1> QED
  BY <1>13, <1>3

\* What is left of a sequence is a sequence of the same things, no longer, and
\* keeps their order.
LEMMA AtPlacesSound ==
  ASSUME NEW S, NEW s \in Seq(S), NEW P \in SUBSET DOMAIN s
  PROVE  /\ AtPlaces(s, P) \in Seq(S)
         /\ IsFiniteSet(P) /\ Len(AtPlaces(s, P)) = Cardinality(P)
         /\ \E o \in Ascending(P) : \A i \in DOMAIN AtPlaces(s, P) : AtPlaces(s, P)[i] = s[o[i]]
<1> DEFINE n == Cardinality(P)
           order == CHOOSE o \in Ascending(P) : TRUE
           r == [i \in 1..n |-> s[order[i]]]
<1>1. DOMAIN s = 1..Len(s) /\ Len(s) \in Nat /\ P \in SUBSET (1..Len(s))
  OBVIOUS
<1>2. IsFiniteSet(P)
  BY <1>1, AscendingExists
<1>3. n \in Nat
  BY <1>2, FS_CardinalityType
<1>4. order \in Ascending(P)
  BY <1>1, <1>2, AscendingExists
<1>5. order \in [1..n -> P]
  BY <1>4 DEF Ascending
<1>6. AtPlaces(s, P) = r
  BY DEF AtPlaces
<1> HIDE DEF order, n
<1>7. \A i \in 1..n : s[order[i]] \in S
  BY <1>5
<1>8. r \in Seq(S) /\ Len(r) = n /\ DOMAIN r = 1..n
  BY <1>3, <1>7
<1>9. \A i \in 1..n : r[i] = s[order[i]]
  OBVIOUS
<1> HIDE DEF r
<1> QED
  BY <1>2, <1>4, <1>6, <1>8, <1>9 DEF n

\* Division with remainder.
LEMMA Quotient ==
  ASSUME NEW i \in Nat, NEW d \in Nat \ {0}
  PROVE  i \div d \in Nat /\ i % d \in 0..(d - 1) /\ i = d * (i \div d) + (i % d)
BY SMT

\* A product that is not exceeded bounds the quotient.
LEMMA QuotientBelow ==
  ASSUME NEW l \in Nat, NEW d \in Nat \ {0}, NEW i \in Nat, i < l * d
  PROVE  i \div d < l
<1> DEFINE q == i \div d
<1>1. q \in Nat /\ i >= d * q
  BY Quotient
<1> HIDE DEF q
<1>2. SUFFICES ASSUME q >= l PROVE FALSE
  BY <1>1 DEF q
<1>3. PICK k \in Nat : q = l + k
  <2>1. q - l \in Nat /\ q = l + (q - l)
    BY <1>1, <1>2
  <2> QED
    BY <2>1
<1>4. d * q = d * l + d * k /\ d * l = l * d
  BY <1>3, SMT
<1>5. d * k \in Nat /\ l * d \in Nat
  BY SMT
<1> QED
  BY <1>1, <1>4, <1>5

\* An entry of the plan over the sources R.
PlanEntry(R) == [route : R, try : Nat, maxTries : Nat \ {0}, responseMaxTries : Nat \ {0}]

\* The plan's numbers.
LEMMA PlanNumbers ==
  ASSUME NEW g \in PolicyRecord, NEW n \in Nat \ {0}
  PROVE  /\ RouteLimit(g, n) \in 1..n
         /\ TransportRetries(g) \in Nat /\ ResponseRetries(g) \in Nat
         /\ Larger(TransportRetries(g), ResponseRetries(g)) \in Nat
         /\ Larger(TransportRetries(g), ResponseRetries(g)) >= TransportRetries(g)
         /\ Larger(TransportRetries(g), ResponseRetries(g)) >= ResponseRetries(g)
<1>1. /\ g.hedgeMax \in Nat \ {0} /\ g.failoverMax \in Nat /\ g.retries \in Nat /\ g.responseRetries \in Int
  BY DEF PolicyRecord
<1>2. RouteLimit(g, n) \in 1..n
  BY <1>1 DEF RouteLimit, Smaller
<1>3. TransportRetries(g) \in Nat /\ effectiveResponseValidationRetryCount(g) \in Nat
  BY <1>1 DEF TransportRetries, effectiveResponseValidationRetryCount, Smaller
<1>4. ResponseRetries(g) \in Nat
  BY <1>3 DEF ResponseRetries
<1> QED
  BY <1>2, <1>3, <1>4 DEF Larger

\* The plan is a list of entries over the request's sources.
LEMMA PlanTyped ==
  ASSUME NEW g \in PolicyRecord, NEW n \in Nat \ {0}
  PROVE  buildCoordinatedRoutePlan(g, n) \in Seq(PlanEntry(1..n))
<1> DEFINE limit == RouteLimit(g, n)
           m == Larger(TransportRetries(g), ResponseRetries(g))
           tries == 1 + m
           inRounds == g.hedge \/ g.validation \/ (g.retry /\ g.failover /\ g.failoverMax > 0)
           Of(r, t) == [route |-> r, try |-> t, maxTries |-> 1 + TransportRetries(g),
                        responseMaxTries |-> 1 + ResponseRetries(g)]
           total == limit * tries
<1>1. limit \in 1..n /\ limit \in Nat \ {0} /\ m \in Nat /\ tries \in Nat \ {0}
  BY PlanNumbers
<1>2. total \in Nat
  <2> HIDE DEF limit, tries
  <2> QED
    BY <1>1, SMT
<1>3. ASSUME NEW r \in 1..n, NEW t \in Nat PROVE Of(r, t) \in PlanEntry(1..n)
  BY PlanNumbers DEF PlanEntry
<1>4. ASSUME NEW i \in 1..total
      PROVE  /\ ((i - 1) % limit) + 1 \in 1..n /\ (i - 1) \div limit \in Nat
             /\ ((i - 1) \div tries) + 1 \in 1..n /\ (i - 1) % tries \in Nat
  <2> HIDE DEF limit, m, tries
  <2>1. i - 1 \in Nat /\ i - 1 < limit * tries
    BY <1>2, <1>4
  <2>2. (i - 1) % limit \in 0..(limit - 1) /\ (i - 1) \div limit \in Nat
    BY <1>1, <2>1, Quotient
  <2>3. (i - 1) % tries \in 0..(tries - 1) /\ (i - 1) \div tries \in Nat
    BY <1>1, <2>1, Quotient
  <2>4. (i - 1) \div tries < limit
    BY <1>1, <2>1, QuotientBelow
  <2> HIDE DEF total
  <2> DEFINE a == (i - 1) % limit
             b == (i - 1) \div tries
             c == (i - 1) % tries
  <2>5. a \in 0..(limit - 1) /\ b \in Nat /\ b < limit /\ c \in 0..(tries - 1)
    BY <2>2, <2>3, <2>4
  <2> HIDE DEF a, b, c
  <2>6. a + 1 \in 1..n /\ b + 1 \in 1..n /\ c \in Nat
    BY <2>5, <1>1
  <2> QED
    BY <2>6, <2>2 DEF a, b, c
<1>5. buildCoordinatedRoutePlan(g, n) =
        [i \in 1..total |->
           IF inRounds THEN Of(((i - 1) % limit) + 1, (i - 1) \div limit)
           ELSE Of(((i - 1) \div tries) + 1, (i - 1) % tries)]
  BY DEF buildCoordinatedRoutePlan
<1> HIDE DEF Of, inRounds, total, limit, tries
<1>6. \A i \in 1..total :
        (IF inRounds THEN Of(((i - 1) % limit) + 1, (i - 1) \div limit)
         ELSE Of(((i - 1) \div tries) + 1, (i - 1) % tries)) \in PlanEntry(1..n)
  BY <1>3, <1>4, Zenon
<1>7. \A S, f : \A k \in Nat : f \in [1..k -> S] => f \in Seq(S)
  OBVIOUS
<1>8. buildCoordinatedRoutePlan(g, n) \in [1..total -> PlanEntry(1..n)]
  BY <1>5, <1>6, Zenon
<1> QED
  BY <1>2, <1>7, <1>8

\* The sources of the request are those of its budgets.
Known == DOMAIN budget

\* An entry as an attempt takes it.
TakenEntry ==
  [route : Known, try : Nat, maxTries : Nat \ {0}, responseMaxTries : Nat \ {0},
   retryMaxTries : Int, response : BOOLEAN, origin : Int]

BudgetRecord == [latestTry : Int, originTry : Int, maxTries : Int, responseRejected : BOOLEAN]

AttemptRecord ==
  [pc : {"launched", "reserved", "calling", "answered", "stopped", "done"},
   plan : TakenEntry \cup {Unreserved}, answer : AnswerKinds \cup {"none", "skipped"},
   known : SUBSET Nat, healthRecorded : BOOLEAN]

\* The types of the plan and of what is done with it.
PlanShape ==
  /\ policy \in PolicyRecord /\ started \in Nat
  /\ entries \in Seq(PlanEntry(Known))
  /\ budget \in [Known -> BudgetRecord]
  /\ attempts \in Seq(AttemptRecord)
  /\ Len(attempts) <= Len(entries)

Reported(n) == attempts[n].pc = "done"
Took(n) == attempts[n].pc # "launched"

\* A budget is open because of the report of a rejection, and for its tries.
BudgetEarned ==
  \A r \in Known : budget[r].responseRejected =>
    /\ budget[r].latestTry = budget[r].originTry
    /\ \E m \in Numbers :
         /\ Reported(m) /\ PlanOf(m).route = r /\ attempts[m].answer \in Rejections
         /\ PlanOf(m).try = budget[r].originTry
         /\ budget[r].maxTries = Larger(1, PlanOf(m).responseMaxTries)

\* The budget has not fallen behind the rejection that opened a retry.
NotAhead ==
  \A n \in Numbers : Took(n) /\ PlanOf(n).response =>
    LET b == budget[PlanOf(n).route] IN
      /\ PlanOf(n).origin < PlanOf(n).try
      /\ \/ b.latestTry > PlanOf(n).origin
         \/ b.latestTry = PlanOf(n).origin /\ b.originTry = PlanOf(n).origin /\ b.responseRejected

\* Once a retry has failed in transport it is past that rejection.
FailuresClose ==
  \A n \in Numbers : Reported(n) /\ attempts[n].answer \in Recorded /\ PlanOf(n).response =>
    budget[PlanOf(n).route].latestTry > PlanOf(n).origin

\* A retry opened by a rejection was opened by one already reported, and no
\* retry of that rejection had failed by then.
Opened ==
  \A n \in Numbers : Took(n) /\ PlanOf(n).response =>
    \E m \in attempts[n].known :
      /\ SameRoute(m, n) /\ attempts[m].answer \in Rejections
      /\ PlanOf(m).try = PlanOf(n).origin
      /\ PlanOf(n).retryMaxTries = Larger(1, PlanOf(m).responseMaxTries)
      /\ ~ \E k \in attempts[n].known :
             /\ SameRoute(k, n) /\ attempts[k].answer \in Recorded
             /\ PlanOf(k).response /\ PlanOf(k).origin = PlanOf(n).origin

\* Any other attempt has the transport's tries.
Unopened ==
  \A n \in Numbers : Took(n) =>
    /\ PlanOf(n) \in TakenEntry
    /\ ~PlanOf(n).response => PlanOf(n).retryMaxTries = PlanOf(n).maxTries

\* What an attempt knows has been reported.
KnownReported ==
  \A n \in Numbers : attempts[n].known \subseteq {m \in Numbers : Reported(m)}

Calls(n) == Called(n) \/ attempts[n].pc = "calling"

\* A call is within the tries it has.
CalledWithin ==
  \A n \in Numbers : Calls(n) => ~(PlanOf(n).try > 0 /\ PlanOf(n).try >= PlanOf(n).retryMaxTries)

PlanInv ==
  /\ PlanShape /\ BudgetEarned /\ NotAhead /\ FailuresClose
  /\ Opened /\ Unopened /\ KnownReported /\ CalledWithin

\* The retries are earned in every state of the invariant.
LEMMA EarnedByInvariant == PlanInv => RetriesAreEarned
<1> SUFFICES ASSUME PlanInv, NEW n \in Numbers, Called(n), PlanOf(n).try >= PlanOf(n).maxTries
             PROVE  \E m \in attempts[n].known :
                      /\ SameRoute(m, n) /\ attempts[m].answer \in Rejections
                      /\ PlanOf(m).try < PlanOf(n).try /\ PlanOf(n).try < PlanOf(m).responseMaxTries
                      /\ ~ \E k \in attempts[n].known :
                             /\ SameRoute(k, n) /\ attempts[k].answer \in Recorded
                             /\ PlanOf(k).response /\ PlanOf(k).origin = PlanOf(m).try
  BY DEF RetriesAreEarned
<1> USE DEF PlanInv
<1>1. Took(n)
  BY DEF Called, Took
<1>2. PlanOf(n) \in TakenEntry /\ (~PlanOf(n).response => PlanOf(n).retryMaxTries = PlanOf(n).maxTries)
  BY <1>1 DEF Unopened
<1>3. PlanOf(n).try \in Nat /\ PlanOf(n).maxTries \in Nat \ {0} /\ PlanOf(n).retryMaxTries \in Int
  BY <1>2 DEF TakenEntry
<1>4. PlanOf(n).try > 0 /\ PlanOf(n).try < PlanOf(n).retryMaxTries
  BY <1>3 DEF CalledWithin, Calls
<1>5. PlanOf(n).response
  BY <1>2, <1>3, <1>4 DEF TakenEntry
<1>6. PICK m \in attempts[n].known :
        /\ SameRoute(m, n) /\ attempts[m].answer \in Rejections
        /\ PlanOf(m).try = PlanOf(n).origin
        /\ PlanOf(n).retryMaxTries = Larger(1, PlanOf(m).responseMaxTries)
        /\ ~ \E k \in attempts[n].known :
               /\ SameRoute(k, n) /\ attempts[k].answer \in Recorded
               /\ PlanOf(k).response /\ PlanOf(k).origin = PlanOf(n).origin
  BY <1>1, <1>5 DEF Opened
<1>7. PlanOf(m).try < PlanOf(n).try
  BY <1>1, <1>5, <1>6 DEF NotAhead
<1>8. m \in Numbers /\ Took(m)
  BY DEF KnownReported, Reported, Took
<1>9. PlanOf(m).responseMaxTries \in Nat
  BY <1>8 DEF Unopened, TakenEntry
<1>10. PlanOf(n).try < PlanOf(m).responseMaxTries
  BY <1>3, <1>4, <1>6, <1>9 DEF Larger
<1> QED
  BY <1>6, <1>7, <1>10

\* The first state.
LEMMA PlanStarts == PlanInit => PlanInv
<1> SUFFICES ASSUME PlanInit PROVE PlanInv
  OBVIOUS
<1>1. PICK s \in PlanScenarios :
        LET g == [s.group EXCEPT !.hedge = @ /\ ~s.group.recovery]
            plan == buildCoordinatedRoutePlan(g, s.routes)
        IN /\ policy = g
           /\ entries = IF g.recovery THEN removeRecoveryRouteRetries(plan, 1) ELSE plan
           /\ budget = [r \in 1..s.routes |-> NoBudget]
           /\ started = 0 /\ attempts = <<>> /\ excluded = {} /\ suppressed = {}
           /\ claimed = 0 /\ outcome = "open"
  BY DEF PlanInit
<1> DEFINE plan == buildCoordinatedRoutePlan(policy, s.routes)
<1>2. s.group \in PolicyRecord /\ s.routes \in Nat \ {0}
  BY PlanScenariosSound
<1>3. policy \in PolicyRecord
  BY <1>1, <1>2 DEF PolicyRecord
<1>4. Known = 1..s.routes /\ budget = [r \in 1..s.routes |-> NoBudget]
  BY <1>1 DEF Known
<1>5. plan \in Seq(PlanEntry(Known))
  BY <1>2, <1>3, <1>4, PlanTyped
<1>6. entries = IF policy.recovery THEN removeRecoveryRouteRetries(plan, 1) ELSE plan
  BY <1>1
<1> HIDE DEF plan
<1>7. entries \in Seq(PlanEntry(Known))
  <2> DEFINE P == {i \in DOMAIN plan : ~(plan[i].route = 1 /\ plan[i].try > 0)}
  <2>1. AtPlaces(plan, P) \in Seq(PlanEntry(Known))
    BY <1>5, AtPlacesSound
  <2> QED
    BY <1>5, <1>6, <2>1 DEF removeRecoveryRouteRetries
<1>8. budget \in [Known -> BudgetRecord] /\ \A r \in Known : ~budget[r].responseRejected
  BY <1>4 DEF NoBudget, BudgetRecord
<1>9. started \in Nat /\ attempts = <<>> /\ attempts \in Seq(AttemptRecord) /\ Numbers = {} /\ Len(attempts) <= Len(entries)
  BY <1>1, <1>7 DEF Numbers
<1> QED
  BY <1>3, <1>7, <1>8, <1>9 DEF PlanInv, PlanShape, BudgetEarned, NotAhead, FailuresClose, Opened,
    Unopened, KnownReported, CalledWithin

\* What no step takes back: who took an entry keeps it and what it knew, and
\* who has reported is as reported.
Remembers ==
  /\ Numbers \subseteq Numbers' /\ Known' = Known
  /\ \A n \in Numbers : Took(n) =>
       Took(n)' /\ PlanOf(n)' = PlanOf(n) /\ attempts'[n].known = attempts[n].known
  /\ \A n \in Numbers : Reported(n) => attempts'[n] = attempts[n]

\* An attempt that had its entry before keeps what was shown of it.
LEMMA Kept ==
  ASSUME PlanInv, Remembers
  PROVE  /\ \A n \in Numbers : Took(n) /\ PlanOf(n).response =>
              \E m \in attempts'[n].known :
                /\ SameRoute(m, n)' /\ attempts'[m].answer \in Rejections
                /\ PlanOf(m)'.try = PlanOf(n)'.origin
                /\ PlanOf(n)'.retryMaxTries = Larger(1, PlanOf(m)'.responseMaxTries)
                /\ ~ \E k \in attempts'[n].known :
                       /\ SameRoute(k, n)' /\ attempts'[k].answer \in Recorded
                       /\ PlanOf(k)'.response /\ PlanOf(k)'.origin = PlanOf(n)'.origin
         /\ \A n \in Numbers : Took(n) =>
              /\ PlanOf(n)' \in TakenEntry'
              /\ ~PlanOf(n)'.response => PlanOf(n)'.retryMaxTries = PlanOf(n)'.maxTries
              /\ attempts'[n].known \subseteq {m \in Numbers' : Reported(m)'}
<1> USE DEF PlanInv
<1>1. \A m \in Numbers : Reported(m) => attempts'[m] = attempts[m] /\ PlanOf(m)' = PlanOf(m) /\ Took(m)
                                        /\ Reported(m)'
  BY DEF Remembers, Reported, Took, PlanOf
<1>2. \A n \in Numbers : \A m \in attempts[n].known : m \in Numbers /\ Reported(m)
  BY DEF KnownReported
<1>3. ASSUME NEW n \in Numbers, Took(n), PlanOf(n).response
      PROVE  \E m \in attempts'[n].known :
                /\ SameRoute(m, n)' /\ attempts'[m].answer \in Rejections
                /\ PlanOf(m)'.try = PlanOf(n)'.origin
                /\ PlanOf(n)'.retryMaxTries = Larger(1, PlanOf(m)'.responseMaxTries)
                /\ ~ \E k \in attempts'[n].known :
                       /\ SameRoute(k, n)' /\ attempts'[k].answer \in Recorded
                       /\ PlanOf(k)'.response /\ PlanOf(k)'.origin = PlanOf(n)'.origin
  <2>1. PlanOf(n)' = PlanOf(n) /\ attempts'[n].known = attempts[n].known
    BY <1>3 DEF Remembers
  <2>2. PICK m \in attempts[n].known :
        /\ SameRoute(m, n) /\ attempts[m].answer \in Rejections
        /\ PlanOf(m).try = PlanOf(n).origin
        /\ PlanOf(n).retryMaxTries = Larger(1, PlanOf(m).responseMaxTries)
        /\ ~ \E k \in attempts[n].known :
               /\ SameRoute(k, n) /\ attempts[k].answer \in Recorded
               /\ PlanOf(k).response /\ PlanOf(k).origin = PlanOf(n).origin
    BY <1>3 DEF Opened
  <2>3. PlanOf(m)' = PlanOf(m) /\ attempts'[m] = attempts[m]
    BY <1>1, <1>2
  <2>4. ~ \E k \in attempts'[n].known :
           /\ SameRoute(k, n)' /\ attempts'[k].answer \in Recorded
           /\ PlanOf(k)'.response /\ PlanOf(k)'.origin = PlanOf(n)'.origin
    <3> SUFFICES ASSUME NEW k \in attempts[n].known,
                        SameRoute(k, n)', attempts'[k].answer \in Recorded,
                        PlanOf(k)'.response, PlanOf(k)'.origin = PlanOf(n)'.origin
                 PROVE  FALSE
      BY <2>1
    <3>1. PlanOf(k)' = PlanOf(k) /\ attempts'[k] = attempts[k]
      BY <1>1, <1>2
    <3> QED
      BY <2>1, <2>2, <3>1 DEF SameRoute
  <2> QED
    BY <2>1, <2>2, <2>3, <2>4 DEF SameRoute
<1>4. ASSUME NEW n \in Numbers, Took(n)
      PROVE  /\ PlanOf(n)' \in TakenEntry'
             /\ ~PlanOf(n)'.response => PlanOf(n)'.retryMaxTries = PlanOf(n)'.maxTries
             /\ attempts'[n].known \subseteq {m \in Numbers' : Reported(m)'}
  <2>1. PlanOf(n)' = PlanOf(n) /\ attempts'[n].known = attempts[n].known /\ TakenEntry' = TakenEntry
    BY <1>4 DEF Remembers, TakenEntry
  <2>2. \A m \in attempts[n].known : m \in Numbers' /\ Reported(m)'
    BY <1>1, <1>2 DEF Remembers
  <2> QED
    BY <1>4, <2>1, <2>2 DEF Unopened
<1> QED
  BY <1>3, <1>4

\* Exchanging two entries keeps the list and its length.
LEMMA ExchangeSound ==
  ASSUME PlanShape, NEW a, NEW k
  PROVE  /\ prioritizeRouteRetry(a, k) \in Seq(PlanEntry(Known))
         /\ Len(prioritizeRouteRetry(a, k)) = Len(entries)
<1> DEFINE next == started + 1
           retries == {i \in next..Len(entries) : entries[i].route = a.route /\ entries[i].try = a.try + 1}
           i == CHOOSE i \in retries : \A j \in retries : i <= j
           swapped == [entries EXCEPT ![next] = entries[i], ![i] = entries[next]]
<1>1. entries \in Seq(PlanEntry(Known))
  BY DEF PlanShape
<1>2. ASSUME next \in DOMAIN entries, i \in DOMAIN entries
      PROVE  swapped \in Seq(PlanEntry(Known)) /\ Len(swapped) = Len(entries)
  <2> HIDE DEF next, i
  <2>1. entries[i] \in PlanEntry(Known) /\ entries[next] \in PlanEntry(Known)
    BY <1>1, <1>2
  <2> QED
    BY <1>1, <1>2, <2>1
<1>3. ASSUME retries # {} PROVE next \in DOMAIN entries /\ i \in DOMAIN entries
  <2>1. started \in Nat /\ Len(entries) \in Nat /\ DOMAIN entries = 1..Len(entries)
    BY <1>1 DEF PlanShape
  <2>2. retries \subseteq next..Len(entries) /\ retries \subseteq Nat
    BY <2>1
  <2> HIDE DEF retries
  <2>3. i \in retries
    BY <1>3, <2>2, LeastOf
  <2>4. i \in next..Len(entries)
    BY <2>2, <2>3
  <2> HIDE DEF i
  <2> QED
    BY <2>1, <2>4
<1>4. prioritizeRouteRetry(a, k) = entries \/ (retries # {} /\ prioritizeRouteRetry(a, k) = swapped)
  BY DEF prioritizeRouteRetry
<1> HIDE DEF swapped, retries
<1> QED
  BY <1>1, <1>2, <1>3, <1>4

\* A budget stands, or has gone on to a later try, or is open for its latest.
Forward ==
  \A r \in Known :
    \/ budget'[r] = budget[r]
    \/ budget'[r].latestTry > budget[r].latestTry
    \/ /\ budget'[r].latestTry = budget[r].latestTry
       /\ budget'[r].originTry = budget'[r].latestTry /\ budget'[r].responseRejected

\* An open budget that nobody has written stays earned.
LEMMA StaysEarned ==
  ASSUME PlanInv, Remembers, NEW r \in Known, budget'[r] = budget[r], budget[r].responseRejected
  PROVE  /\ budget'[r].latestTry = budget'[r].originTry
         /\ \E m \in Numbers' :
              /\ Reported(m)' /\ PlanOf(m)'.route = r /\ attempts'[m].answer \in Rejections
              /\ PlanOf(m)'.try = budget'[r].originTry
              /\ budget'[r].maxTries = Larger(1, PlanOf(m)'.responseMaxTries)
<1>1. PICK m \in Numbers :
         /\ Reported(m) /\ PlanOf(m).route = r /\ attempts[m].answer \in Rejections
         /\ PlanOf(m).try = budget[r].originTry
         /\ budget[r].maxTries = Larger(1, PlanOf(m).responseMaxTries)
  BY DEF PlanInv, BudgetEarned
<1>2. attempts'[m] = attempts[m] /\ m \in Numbers' /\ Reported(m)' /\ PlanOf(m)' = PlanOf(m)
  BY <1>1 DEF Remembers, Reported, PlanOf
<1> QED
  BY <1>1, <1>2 DEF PlanInv, BudgetEarned

\* One attempt that has its entry moves on.
LEMMA AttemptMoves ==
  ASSUME PlanInv, NEW a \in Numbers, NEW x \in AttemptRecord,
         attempts' = [attempts EXCEPT ![a] = x],
         x.plan = attempts[a].plan, x.known = attempts[a].known,
         Took(a), ~Reported(a), x.pc # "launched",
         policy' = policy, started' \in Nat, entries' \in Seq(PlanEntry(Known)), Len(entries') = Len(entries),
         budget' \in [Known -> BudgetRecord], BudgetEarned' \/ budget' = budget, Forward,
         x.pc = "done" /\ x.answer \in Recorded /\ x.plan.response =>
           budget'[x.plan.route].latestTry > x.plan.origin,
         x.pc = "calling" \/ (x.answer # "skipped" /\ x.pc # "reserved") =>
           ~(x.plan.try > 0 /\ x.plan.try >= x.plan.retryMaxTries)
  PROVE  PlanInv'
<1> USE DEF PlanInv
<1>1. attempts \in Seq(AttemptRecord) /\ DOMAIN attempts = Numbers /\ budget \in [Known -> BudgetRecord]
  BY DEF PlanShape, Numbers
<1>2. attempts' \in Seq(AttemptRecord) /\ Len(attempts') = Len(attempts) /\ Numbers' = Numbers
  BY <1>1 DEF Numbers
<1>3. \A n \in Numbers : attempts'[n] = IF n = a THEN x ELSE attempts[n]
  BY <1>1
<1>4. Known' = Known
  BY DEF Known
<1>5. PlanEntry(Known)' = PlanEntry(Known) /\ TakenEntry' = TakenEntry /\ AttemptRecord' = AttemptRecord
  BY <1>4 DEF PlanEntry, TakenEntry, AttemptRecord, Unreserved
<1>6. PlanShape'
  BY <1>2, <1>4, <1>5 DEF PlanShape
<1>7. \A n \in Numbers : /\ PlanOf(n)' = PlanOf(n) /\ attempts'[n].known = attempts[n].known
                         /\ Took(n)' <=> Took(n)
                         /\ n # a => (Reported(n)' <=> Reported(n)) /\ (Calls(n)' <=> Calls(n))
                                     /\ attempts'[n] = attempts[n]
  BY <1>3 DEF PlanOf, Took, Reported, Calls, Called
<1>8. Remembers
  BY <1>2, <1>4, <1>7 DEF Remembers
<1>9. BudgetEarned'
  <2>1. CASE budget' = budget
    <3>1. \A r \in Known : budget'[r] = budget[r]
      BY <2>1
    <3> QED
      BY <1>4, <1>8, <3>1, StaysEarned DEF BudgetEarned
  <2> QED
    BY <2>1
<1>10. NotAhead'
  <2> SUFFICES ASSUME NEW n \in Numbers, Took(n), PlanOf(n).response
               PROVE  LET b == budget'[PlanOf(n).route] IN
                        /\ PlanOf(n).origin < PlanOf(n).try
                        /\ \/ b.latestTry > PlanOf(n).origin
                           \/ b.latestTry = PlanOf(n).origin /\ b.originTry = PlanOf(n).origin /\ b.responseRejected
    BY <1>2, <1>7 DEF NotAhead
  <2> DEFINE r == PlanOf(n).route
             o == PlanOf(n).origin
  <2>1. r \in Known /\ o \in Int
    BY DEF Unopened, TakenEntry
  <2>2. /\ o < PlanOf(n).try
        /\ \/ budget[r].latestTry > o
           \/ budget[r].latestTry = o /\ budget[r].originTry = o /\ budget[r].responseRejected
    BY DEF NotAhead
  <2>3. \/ budget'[r] = budget[r]
        \/ budget'[r].latestTry > budget[r].latestTry
        \/ /\ budget'[r].latestTry = budget[r].latestTry
           /\ budget'[r].originTry = budget'[r].latestTry /\ budget'[r].responseRejected
    BY <2>1 DEF Forward
  <2>4. budget[r].latestTry \in Int /\ budget'[r].latestTry \in Int
    BY <1>1, <2>1 DEF BudgetRecord
  <2> HIDE DEF r, o
  <2>5. \/ budget'[r].latestTry > o
        \/ budget'[r].latestTry = o /\ budget'[r].originTry = o /\ budget'[r].responseRejected
    BY <2>1, <2>2, <2>3, <2>4
  <2> QED
    BY <2>2, <2>5 DEF r, o
<1>11. FailuresClose'
  <2> SUFFICES ASSUME NEW n \in Numbers, Reported(n)', attempts'[n].answer \in Recorded, PlanOf(n).response
               PROVE  budget'[PlanOf(n).route].latestTry > PlanOf(n).origin
    BY <1>2, <1>7 DEF FailuresClose
  <2>1. CASE n = a
    BY <2>1, <1>3 DEF Reported, PlanOf
  <2>2. CASE n # a
    <3> DEFINE r == PlanOf(n).route
               o == PlanOf(n).origin
    <3>1. Reported(n) /\ attempts[n].answer \in Recorded /\ Took(n)
      BY <2>2, <1>7 DEF Reported, Took
    <3>2. budget[r].latestTry > o
      BY <3>1 DEF FailuresClose
    <3>3. r \in Known /\ o \in Int
      BY <3>1 DEF Unopened, TakenEntry
    <3>4. budget[r].latestTry \in Int /\ budget'[r].latestTry \in Int
      BY <1>1, <3>3 DEF BudgetRecord
    <3>5. \/ budget'[r] = budget[r]
          \/ budget'[r].latestTry > budget[r].latestTry
          \/ budget'[r].latestTry = budget[r].latestTry
      BY <3>3 DEF Forward
    <3> HIDE DEF r, o
    <3>6. budget'[r].latestTry > o
      BY <3>2, <3>3, <3>4, <3>5
    <3> QED
      BY <3>6 DEF r, o
  <2> QED
    BY <2>1, <2>2
<1>12. Opened' /\ Unopened'
  BY <1>2, <1>7, <1>8, Kept DEF Opened, Unopened
<1>13. KnownReported'
  <2> SUFFICES ASSUME NEW n \in Numbers, NEW m \in attempts[n].known PROVE m \in Numbers /\ Reported(m)'
    BY <1>2, <1>7 DEF KnownReported
  <2>1. m \in Numbers /\ Reported(m)
    BY DEF KnownReported
  <2> QED
    BY <2>1, <1>7
<1>14. CalledWithin'
  <2> SUFFICES ASSUME NEW n \in Numbers, Calls(n)'
               PROVE  ~(PlanOf(n).try > 0 /\ PlanOf(n).try >= PlanOf(n).retryMaxTries)
    BY <1>2, <1>7 DEF CalledWithin
  <2>1. CASE n = a
    BY <2>1, <1>3 DEF Calls, Called, PlanOf
  <2>2. CASE n # a
    BY <2>2, <1>7 DEF CalledWithin
  <2> QED
    BY <2>1, <2>2
<1> QED
  BY <1>6, <1>9, <1>10, <1>11, <1>12, <1>13, <1>14

\* A launch.
LEMMA LaunchPlanned == ASSUME PlanInv, Launch PROVE PlanInv'
<1> USE DEF PlanInv
<1>0. PICK l \in Int : l = Len(attempts) + 1
  BY DEF PlanShape
<1>1. attempts \in Seq(AttemptRecord) /\ Numbers = 1..Len(attempts) /\ Len(attempts) \in Nat
      /\ entries \in Seq(PlanEntry(Known)) /\ policy \in PolicyRecord
  BY DEF PlanShape, Numbers
<1>2. attempts' = Append(attempts, NewAttempt) /\ Len(attempts) < maxAttempts
      /\ UNCHANGED <<policy, entries, started, budget>>
  BY DEF Launch
<1>3. NewAttempt \in AttemptRecord
  BY DEF NewAttempt, AttemptRecord
<1>4. attempts' \in Seq(AttemptRecord) /\ Len(attempts') = l /\ Numbers' = 1..l
      /\ \A n \in 1..l : attempts'[n] = IF n = l THEN NewAttempt ELSE attempts[n]
  BY <1>0, <1>1, <1>2, <1>3 DEF Numbers
<1>5. Len(attempts) < Len(entries)
  BY <1>1, <1>2 DEF maxAttempts, Smaller, PolicyRecord
<1>6. Known' = Known /\ TakenEntry' = TakenEntry /\ AttemptRecord' = AttemptRecord
      /\ PlanEntry(Known)' = PlanEntry(Known)
  BY <1>2 DEF Known, TakenEntry, AttemptRecord, PlanEntry, Unreserved
<1>7. PlanShape'
  <2>1. Len(attempts') <= Len(entries')
    BY <1>0, <1>1, <1>2, <1>4, <1>5
  <2> QED
    BY <1>1, <1>2, <1>4, <1>6, <2>1 DEF PlanShape
<1>8. \A n \in 1..l : n = l \/ n \in Numbers
  BY <1>0, <1>1
<1>9. \A n \in Numbers : n \in 1..l /\ attempts'[n] = attempts[n]
  BY <1>0, <1>1, <1>4
<1>10. ~Took(l)' /\ ~Reported(l)' /\ ~Calls(l)' /\ attempts'[l].known = {}
  BY <1>0, <1>1, <1>4 DEF Took, Reported, Calls, Called, NewAttempt
<1>11. \A n \in Numbers : PlanOf(n)' = PlanOf(n) /\ (Took(n)' <=> Took(n)) /\ (Calls(n)' <=> Calls(n))
                          /\ (Reported(n)' <=> Reported(n))
  BY <1>9 DEF PlanOf, Took, Calls, Called, Reported
<1>12. Remembers
  BY <1>4, <1>6, <1>9, <1>11 DEF Remembers
<1>13. BudgetEarned'
  BY <1>2, <1>6, <1>12, StaysEarned DEF BudgetEarned
<1>14. NotAhead'
  BY <1>2, <1>4, <1>8, <1>10, <1>11 DEF NotAhead
<1>15. FailuresClose'
  BY <1>2, <1>4, <1>8, <1>9, <1>10, <1>11 DEF FailuresClose
<1>16. Opened' /\ Unopened'
  BY <1>4, <1>8, <1>10, <1>11, <1>12, Kept DEF Opened, Unopened
<1>17. KnownReported'
  <2> SUFFICES ASSUME NEW n \in 1..l, NEW m \in attempts'[n].known PROVE m \in Numbers' /\ Reported(m)'
    BY <1>4 DEF KnownReported
  <2>1. n \in Numbers /\ m \in attempts[n].known
    BY <1>8, <1>9, <1>10
  <2>2. m \in Numbers /\ Reported(m)
    BY <2>1 DEF KnownReported
  <2> QED
    BY <2>2, <1>4, <1>9, <1>11
<1>18. CalledWithin'
  BY <1>4, <1>8, <1>10, <1>11 DEF CalledWithin
<1> QED
  BY <1>7, <1>13, <1>14, <1>15, <1>16, <1>17, <1>18

\* An attempt takes its entry.
LEMMA TakePlanned == ASSUME PlanInv, NEW n \in Numbers, TakeAttempt(n) PROVE PlanInv'
<1> USE DEF PlanInv
<1> DEFINE e == entries[n]
           b == budget[e.route]
           p == Reserved(n)
           x == [attempts[n] EXCEPT !.pc = "reserved", !.plan = p, !.known = Numbers \ Active]
<1>1. attempts \in Seq(AttemptRecord) /\ Numbers = 1..Len(attempts) /\ Len(attempts) \in Nat
      /\ entries \in Seq(PlanEntry(Known)) /\ budget \in [Known -> BudgetRecord] /\ started \in Nat
      /\ Len(attempts) <= Len(entries) /\ attempts[n] \in AttemptRecord
  BY DEF PlanShape, Numbers
<1>2. attempts[n].pc = "launched" /\ started' = Larger(started, n)
      /\ attempts' = [attempts EXCEPT ![n].pc = "reserved", ![n].plan = p, ![n].known = Numbers \ Active]
      /\ UNCHANGED <<policy, entries, budget>>
  BY DEF TakeAttempt
<1>3. attempts' = [attempts EXCEPT ![n] = x]
  BY <1>1, <1>2
<1>4. e \in PlanEntry(Known) /\ n \in DOMAIN entries
  BY <1>1
<1>5. b \in BudgetRecord /\ e.route \in Known
  BY <1>1, <1>4 DEF PlanEntry
<1>6. /\ p.route = e.route /\ p.try = e.try /\ p.maxTries = e.maxTries
      /\ p.responseMaxTries = e.responseMaxTries /\ p \in TakenEntry
      /\ p.response <=> (e.try > b.latestTry /\ b.responseRejected)
      /\ p.response => p.retryMaxTries = b.maxTries /\ p.origin = b.originTry
      /\ ~p.response => p.retryMaxTries = p.maxTries
  <2> DEFINE o == e.try > b.latestTry /\ b.responseRejected
             q == IF o THEN b.maxTries ELSE e.maxTries
             g == IF o THEN b.originTry ELSE 0
  <2>1. p = [route |-> e.route, try |-> e.try, maxTries |-> e.maxTries,
             responseMaxTries |-> e.responseMaxTries, retryMaxTries |-> q,
             response |-> o, origin |-> g]
    BY DEF Reserved
  <2>2. /\ e.route \in Known /\ e.try \in Nat /\ e.maxTries \in Nat \ {0} /\ e.responseMaxTries \in Nat \ {0}
        /\ b.latestTry \in Int /\ b.originTry \in Int /\ b.maxTries \in Int /\ b.responseRejected \in BOOLEAN
    BY <1>4, <1>5 DEF PlanEntry, BudgetRecord
  <2>3. q \in Int /\ g \in Int /\ o \in BOOLEAN
    BY <2>2
  <2>4. (o => q = b.maxTries /\ g = b.originTry) /\ (~o => q = e.maxTries)
    OBVIOUS
  <2>5. o <=> (e.try > b.latestTry /\ b.responseRejected)
    OBVIOUS
  <2> HIDE DEF o, q, g, e, b, p
  <2>6. p \in TakenEntry
    BY <2>1, <2>2, <2>3 DEF TakenEntry
  <2>7. p.route = e.route /\ p.try = e.try /\ p.maxTries = e.maxTries
      /\ p.responseMaxTries = e.responseMaxTries /\ p.retryMaxTries = q /\ p.response = o /\ p.origin = g
    BY <2>1
  <2> QED
    BY <2>4, <2>5, <2>6, <2>7
<1> HIDE DEF p
<1>7. x \in AttemptRecord /\ x.pc = "reserved" /\ x.plan = p /\ x.known = Numbers \ Active
  <2>1. Numbers \ Active \subseteq Nat
    BY <1>1
  <2> QED
    BY <1>1, <1>6, <2>1 DEF AttemptRecord
<1> HIDE DEF x
<1>8. Known' = Known /\ TakenEntry' = TakenEntry /\ AttemptRecord' = AttemptRecord
      /\ PlanEntry(Known)' = PlanEntry(Known)
  BY <1>2 DEF Known, TakenEntry, AttemptRecord, PlanEntry, Unreserved
<1>9. attempts' \in Seq(AttemptRecord) /\ Len(attempts') = Len(attempts) /\ Numbers' = Numbers
      /\ \A m \in Numbers : attempts'[m] = IF m = n THEN x ELSE attempts[m]
  BY <1>1, <1>3, <1>7 DEF Numbers
<1>10. started' \in Nat
  BY <1>1, <1>2 DEF Larger
<1>11. PlanShape'
  BY <1>1, <1>2, <1>8, <1>9, <1>10 DEF PlanShape
<1>12. \A m \in Numbers : m \in x.known <=> Reported(m)
  BY <1>7 DEF Active, Reported
<1>13. \A m \in Numbers : m # n => /\ attempts'[m] = attempts[m] /\ PlanOf(m)' = PlanOf(m)
                                   /\ Took(m)' <=> Took(m)
                                   /\ Calls(m)' <=> Calls(m)
                                   /\ Reported(m)' <=> Reported(m)
  BY <1>9 DEF PlanOf, Took, Calls, Called, Reported
<1>14. ~Took(n) /\ ~Reported(n) /\ ~Calls(n)' /\ ~Reported(n)' /\ PlanOf(n)' = p /\ attempts'[n].known = x.known
  BY <1>2, <1>7, <1>9 DEF Took, Reported, Calls, Called, PlanOf
<1>15. Remembers
  <2>1. \A m \in Numbers : Took(m) => m # n
    BY <1>14
  <2>2. \A m \in Numbers : Reported(m) => m # n
    BY <1>14
  <2> QED
    BY <1>8, <1>9, <1>13, <2>1, <2>2 DEF Remembers
<1>16. BudgetEarned'
  BY <1>2, <1>8, <1>15, StaysEarned DEF BudgetEarned
<1>17. p.response =>
         /\ b.latestTry = b.originTry /\ p.origin = b.latestTry /\ p.origin < p.try /\ b.responseRejected
         /\ \E m \in Numbers :
              /\ Reported(m) /\ PlanOf(m).route = p.route /\ attempts[m].answer \in Rejections
              /\ PlanOf(m).try = p.origin
              /\ p.retryMaxTries = Larger(1, PlanOf(m).responseMaxTries)
  <2> SUFFICES ASSUME p.response
               PROVE  /\ b.latestTry = b.originTry /\ p.origin = b.latestTry /\ p.origin < p.try /\ b.responseRejected
                      /\ \E m \in Numbers :
                           /\ Reported(m) /\ PlanOf(m).route = p.route /\ attempts[m].answer \in Rejections
                           /\ PlanOf(m).try = p.origin
                           /\ p.retryMaxTries = Larger(1, PlanOf(m).responseMaxTries)
    OBVIOUS
  <2>1. b.responseRejected /\ e.try > b.latestTry /\ p.retryMaxTries = b.maxTries /\ p.origin = b.originTry
    BY <1>6
  <2>2. b.latestTry = b.originTry
    BY <2>1, <1>5 DEF BudgetEarned
  <2>3. PICK m \in Numbers :
          /\ Reported(m) /\ PlanOf(m).route = e.route /\ attempts[m].answer \in Rejections
          /\ PlanOf(m).try = b.originTry
          /\ b.maxTries = Larger(1, PlanOf(m).responseMaxTries)
    BY <2>1, <1>5 DEF BudgetEarned
  <2>4. p.origin < p.try
    BY <2>1, <2>2, <1>4, <1>5, <1>6 DEF PlanEntry, BudgetRecord
  <2> QED
    BY <2>1, <2>2, <2>3, <2>4, <1>6
<1>18. NotAhead'
  <2> SUFFICES ASSUME NEW m \in Numbers, Took(m)', PlanOf(m)'.response
               PROVE  LET c == budget[PlanOf(m)'.route] IN
                        /\ PlanOf(m)'.origin < PlanOf(m)'.try
                        /\ \/ c.latestTry > PlanOf(m)'.origin
                           \/ c.latestTry = PlanOf(m)'.origin /\ c.originTry = PlanOf(m)'.origin /\ c.responseRejected
    BY <1>2, <1>9 DEF NotAhead
  <2>1. CASE m = n
    BY <2>1, <1>6, <1>14, <1>17
  <2>2. CASE m # n
    BY <2>2, <1>13 DEF NotAhead
  <2> QED
    BY <2>1, <2>2
<1>19. FailuresClose'
  BY <1>2, <1>9, <1>13, <1>14 DEF FailuresClose
<1>20. Opened'
  <2> SUFFICES ASSUME NEW m \in Numbers, Took(m)', PlanOf(m)'.response
               PROVE  \E h \in attempts'[m].known :
                         /\ SameRoute(h, m)' /\ attempts'[h].answer \in Rejections
                         /\ PlanOf(h)'.try = PlanOf(m)'.origin
                         /\ PlanOf(m)'.retryMaxTries = Larger(1, PlanOf(h)'.responseMaxTries)
                         /\ ~ \E k \in attempts'[m].known :
                                /\ SameRoute(k, m)' /\ attempts'[k].answer \in Recorded
                                /\ PlanOf(k)'.response /\ PlanOf(k)'.origin = PlanOf(m)'.origin
    BY <1>9 DEF Opened
  <2>1. CASE m # n
    BY <2>1, <1>13, <1>15, Kept
  <2>2. CASE m = n
    <3>1. PlanOf(m)' = p /\ attempts'[m].known = x.known /\ p.response
      BY <2>2, <1>14
    <3>2. PICK h \in Numbers :
              /\ Reported(h) /\ PlanOf(h).route = p.route /\ attempts[h].answer \in Rejections
              /\ PlanOf(h).try = p.origin
              /\ p.retryMaxTries = Larger(1, PlanOf(h).responseMaxTries)
      BY <3>1, <1>17
    <3>3. h # n /\ h \in x.known /\ PlanOf(h)' = PlanOf(h) /\ attempts'[h] = attempts[h]
      BY <3>2, <1>12, <1>13, <1>14
    <3>4. ASSUME NEW k \in x.known,
                 SameRoute(k, m)', attempts'[k].answer \in Recorded,
                 PlanOf(k)'.response, PlanOf(k)'.origin = p.origin
          PROVE  FALSE
      <4>1. k \in Numbers /\ Reported(k) /\ k # n
        BY <1>7, <1>12, <1>14
      <4>2. PlanOf(k)' = PlanOf(k) /\ attempts'[k] = attempts[k] /\ Took(k)
        BY <4>1, <1>13 DEF Reported, Took
      <4>3. budget[PlanOf(k).route].latestTry > PlanOf(k).origin
        BY <3>4, <4>1, <4>2 DEF FailuresClose
      <4>4. PlanOf(k).route = e.route
        BY <3>1, <3>4, <4>2, <1>6 DEF SameRoute
      <4>5. b.latestTry > p.origin /\ b.latestTry = p.origin
        BY <3>1, <3>4, <4>2, <4>3, <4>4, <1>17
      <4>6. b.latestTry \in Int
        BY <1>5 DEF BudgetRecord
      <4> QED
        BY <4>5, <4>6
    <3> QED
      BY <3>1, <3>2, <3>3, <3>4 DEF SameRoute
  <2> QED
    BY <2>1, <2>2
<1>21. Unopened'
  <2> SUFFICES ASSUME NEW m \in Numbers, Took(m)'
               PROVE  PlanOf(m)' \in TakenEntry' /\ (~PlanOf(m)'.response => PlanOf(m)'.retryMaxTries = PlanOf(m)'.maxTries)
    BY <1>9 DEF Unopened
  <2>1. CASE m = n
    BY <2>1, <1>6, <1>8, <1>14
  <2>2. CASE m # n
    BY <2>2, <1>13, <1>15, Kept
  <2> QED
    BY <2>1, <2>2
<1>22. KnownReported'
  <2> SUFFICES ASSUME NEW m \in Numbers, NEW k \in attempts'[m].known PROVE k \in Numbers /\ Reported(k)'
    BY <1>9 DEF KnownReported
  <2>1. k \in Numbers /\ Reported(k)
    <3>1. CASE m = n
      BY <3>1, <1>7, <1>12, <1>14
    <3>2. CASE m # n
      BY <3>2, <1>13 DEF KnownReported
    <3> QED
      BY <3>1, <3>2
  <2> QED
    BY <2>1, <1>13, <1>14
<1>23. CalledWithin'
  <2> SUFFICES ASSUME NEW m \in Numbers, Calls(m)'
               PROVE  ~(PlanOf(m)'.try > 0 /\ PlanOf(m)'.try >= PlanOf(m)'.retryMaxTries)
    BY <1>9 DEF CalledWithin
  <2>1. m # n
    BY <1>14
  <2> QED
    BY <2>1, <1>13 DEF CalledWithin
<1> QED
  BY <1>11, <1>16, <1>18, <1>19, <1>20, <1>21, <1>22, <1>23

\* What Remembers asks holds when one attempt that has its entry moves on.
LEMMA MoveRemembered ==
  ASSUME PlanInv, NEW a \in Numbers, NEW x,
         attempts' = [attempts EXCEPT ![a] = x],
         x.plan = attempts[a].plan, x.known = attempts[a].known,
         ~Reported(a), x.pc # "launched", Known' = Known
  PROVE  /\ Remembers /\ a \in Numbers' /\ attempts'[a] = x
         /\ PlanOf(a)' = PlanOf(a)
<1>1. attempts \in Seq(AttemptRecord) /\ DOMAIN attempts = Numbers
  BY DEF PlanInv, PlanShape, Numbers
<1>2. Len(attempts') = Len(attempts) /\ Numbers' = Numbers
  BY <1>1 DEF Numbers
<1>3. \A n \in Numbers : attempts'[n] = IF n = a THEN x ELSE attempts[n]
  BY <1>1
<1>4. \A n \in Numbers : PlanOf(n)' = PlanOf(n) /\ attempts'[n].known = attempts[n].known
                         /\ (Took(n) => Took(n)')
                         /\ (n # a => attempts'[n] = attempts[n])
  BY <1>3 DEF PlanOf, Took
<1> QED
  BY <1>2, <1>3, <1>4 DEF Remembers

\* An attempt that moves on and leaves the budgets alone.
LEMMA QuietMove ==
  ASSUME PlanInv, NEW a \in Numbers, NEW x \in AttemptRecord,
         attempts' = [attempts EXCEPT ![a] = x],
         x.plan = attempts[a].plan, x.known = attempts[a].known,
         Took(a), ~Reported(a), x.pc # "launched",
         policy' = policy, started' = started, budget' = budget,
         entries' \in Seq(PlanEntry(Known)), Len(entries') = Len(entries),
         x.pc = "done" => x.answer \notin Recorded,
         x.pc = "calling" \/ (x.answer # "skipped" /\ x.pc # "reserved") =>
           ~(x.plan.try > 0 /\ x.plan.try >= x.plan.retryMaxTries)
  PROVE  PlanInv'
<1>1. started' \in Nat /\ budget' \in [Known -> BudgetRecord]
  BY DEF PlanInv, PlanShape
<1>2. Forward
  BY DEF Forward
<1> QED
  BY <1>1, <1>2, AttemptMoves

\* An entry is skipped, refused or called.
LEMMA AdmitPlanned == ASSUME PlanInv, NEW n \in Numbers, Admit(n) PROVE PlanInv'
<1> DEFINE a == attempts[n]
           x == [a EXCEPT !.pc = "answered", !.answer = "skipped"]
           y == [a EXCEPT !.pc = "calling"]
<1>1. a \in AttemptRecord /\ attempts \in Seq(AttemptRecord) /\ n \in DOMAIN attempts
      /\ entries \in Seq(PlanEntry(Known))
  BY DEF PlanInv, PlanShape, Numbers
<1>2. a.pc = "reserved" /\ policy' = policy /\ started' = started /\ budget' = budget /\ entries' = entries
  BY DEF Admit
<1>3. Took(n) /\ ~Reported(n)
  BY <1>2 DEF Took, Reported
<1>4. CASE Skips(a.plan) \/ ~requestAttemptsRemaining
  <2>1. attempts' = [attempts EXCEPT ![n] = x]
    BY <1>1, <1>4 DEF Admit, Answered
  <2>2. x \in AttemptRecord /\ x.plan = a.plan /\ x.known = a.known /\ x.pc = "answered" /\ x.answer = "skipped"
    BY <1>1 DEF AttemptRecord
  <2> HIDE DEF x
  <2> QED
    BY <1>1, <1>2, <1>3, <2>1, <2>2, QuietMove
<1>5. CASE ~(Skips(a.plan) \/ ~requestAttemptsRemaining)
  <2>1. attempts' = [attempts EXCEPT ![n] = y]
    BY <1>1, <1>5 DEF Admit
  <2>2. y \in AttemptRecord /\ y.plan = a.plan /\ y.known = a.known /\ y.pc = "calling"
    BY <1>1 DEF AttemptRecord
  <2>3. ~(y.plan.try > 0 /\ y.plan.try >= y.plan.retryMaxTries)
    BY <1>5, <2>2 DEF Skips
  <2> HIDE DEF y
  <2> QED
    BY <1>1, <1>2, <1>3, <2>1, <2>2, <2>3, QuietMove
<1> QED
  BY <1>4, <1>5

\* A call is answered.
LEMMA AnswerPlanned ==
  ASSUME PlanInv, NEW n \in Numbers, NEW kind \in policy.answers, Answer(n, kind)
  PROVE  PlanInv'
<1> DEFINE a == attempts[n]
           stop == IF Stops(a.plan, kind, n) THEN "stopped" ELSE "answered"
           x == [a EXCEPT !.pc = stop, !.answer = kind]
<1>1. a \in AttemptRecord /\ attempts \in Seq(AttemptRecord) /\ n \in DOMAIN attempts
      /\ entries \in Seq(PlanEntry(Known)) /\ policy \in PolicyRecord
  BY DEF PlanInv, PlanShape, Numbers
<1>2. kind \in AnswerKinds
  BY <1>1 DEF PolicyRecord
<1>3. a.pc = "calling" /\ policy' = policy /\ started' = started /\ budget' = budget
  BY DEF Answer
<1>4. Took(n) /\ ~Reported(n) /\ Calls(n)
  BY <1>3 DEF Took, Reported, Calls
<1>5. attempts' = [attempts EXCEPT ![n] = x]
  BY <1>1 DEF Answer
<1>6. stop \in {"stopped", "answered"}
  OBVIOUS
<1> HIDE DEF stop
<1>7. x \in AttemptRecord /\ x.plan = a.plan /\ x.known = a.known /\ x.pc = stop /\ x.answer = kind
  BY <1>1, <1>2, <1>6 DEF AttemptRecord
<1>8. ~(x.plan.try > 0 /\ x.plan.try >= x.plan.retryMaxTries)
  BY <1>4, <1>7 DEF PlanInv, CalledWithin, PlanOf
<1>9. entries' \in Seq(PlanEntry(Known)) /\ Len(entries') = Len(entries)
  <2>1. entries' = entries \/ entries' = prioritizeRouteRetry(a.plan, a.plan.maxTries)
    BY DEF Answer
  <2> QED
    BY <1>1, <2>1, ExchangeSound DEF PlanInv
<1> HIDE DEF x
<1> QED
  BY <1>3, <1>4, <1>5, <1>6, <1>7, <1>8, <1>9, QuietMove

\* Whether a failure is published is true or false.
LEMMA PublishesOrNot ==
  ASSUME NEW kind, NEW plan, NEW n, NEW route PROVE Publishes(kind, plan, n, route) \in BOOLEAN
BY Zenon DEF Publishes

\* A report is taken.
LEMMA CompletePlanned == ASSUME PlanInv, NEW n \in Numbers, Complete(n) PROVE PlanInv'
<1> DEFINE a == attempts[n]
           p == a.plan
           kind == a.answer
           published == Publishes(kind, entries', n, p.route)
           x == [a EXCEPT !.pc = "done", !.healthRecorded = published]
<1>1. a \in AttemptRecord /\ attempts \in Seq(AttemptRecord) /\ n \in DOMAIN attempts
      /\ entries \in Seq(PlanEntry(Known)) /\ budget \in [Known -> BudgetRecord] /\ started \in Nat
  BY DEF PlanInv, PlanShape, Numbers
<1>2. a.pc \in {"answered", "stopped"} /\ policy' = policy /\ started' = started
  BY DEF Complete
<1>3. Took(n) /\ ~Reported(n)
  BY <1>2 DEF Took, Reported
<1>4. attempts' = [attempts EXCEPT ![n] = x]
  BY <1>1 DEF Complete
<1>5. published \in BOOLEAN
  BY PublishesOrNot
<1>6. \/ kind \in Rejections /\ Rejected(p, kind, n)
      \/ kind \in Recorded /\ budget' = recordFailure(p) /\ entries' = entries
      \/ kind \notin Rejections \cup Recorded /\ budget' = budget /\ entries' = entries
  BY DEF Complete
<1> HIDE DEF published
<1>7. x \in AttemptRecord /\ x.plan = p /\ x.known = a.known /\ x.pc = "done" /\ x.answer = kind
  BY <1>1, <1>5 DEF AttemptRecord
<1>8. x.answer # "skipped" => ~(x.plan.try > 0 /\ x.plan.try >= x.plan.retryMaxTries)
  BY <1>2, <1>7 DEF PlanInv, CalledWithin, PlanOf, Calls, Called
<1>9. entries' \in Seq(PlanEntry(Known)) /\ Len(entries') = Len(entries)
  <2>1. entries' = entries \/ entries' = prioritizeRouteRetry(p, p.responseMaxTries)
    BY <1>6 DEF Rejected
  <2> QED
    BY <1>1, <2>1, ExchangeSound DEF PlanInv
<1>10. p \in TakenEntry /\ p = PlanOf(n)
  BY <1>3 DEF PlanInv, Unopened, PlanOf
<1>11. p.route \in Known /\ p.try \in Nat /\ p.responseMaxTries \in Nat /\ p.maxTries \in Nat /\ p.origin \in Int
  BY <1>10 DEF TakenEntry
<1> DEFINE b == budget[p.route]
<1>12. b \in BudgetRecord
  BY <1>1, <1>11
<1> HIDE DEF x
<1>13. CASE kind \notin Rejections \cup Recorded /\ budget' = budget
  BY <1>13, <1>2, <1>3, <1>4, <1>7, <1>8, <1>9, QuietMove
<1>14. CASE kind \in Rejections /\ budget' = recordRejection(p)
  <2>1. kind \notin Recorded
    BY <1>14 DEF Rejections, Recorded
  <2>2. CASE budget' = budget
    BY <2>1, <2>2, <1>2, <1>3, <1>4, <1>7, <1>8, <1>9, QuietMove
  <2>3. CASE budget' # budget
    <3> DEFINE c == [latestTry |-> p.try, originTry |-> p.try,
                     maxTries |-> Larger(1, p.responseMaxTries), responseRejected |-> TRUE]
    <3>1. ~(p.try < b.latestTry) /\ budget' = [budget EXCEPT ![p.route] = c]
      BY <1>14, <2>3 DEF recordRejection
    <3>2. c \in BudgetRecord
      BY <1>11 DEF BudgetRecord, Larger
    <3>3. c.latestTry = p.try /\ c.originTry = p.try /\ c.responseRejected
          /\ c.maxTries = Larger(1, p.responseMaxTries)
      OBVIOUS
    <3> HIDE DEF c
    <3>4. budget' \in [Known -> BudgetRecord] /\ Known' = Known
          /\ \A r \in Known : budget'[r] = IF r = p.route THEN c ELSE budget[r]
      BY <1>1, <3>1, <3>2 DEF Known
    <3>5. Remembers /\ n \in Numbers' /\ attempts'[n] = x /\ PlanOf(n)' = p
      BY <1>3, <1>4, <1>7, <1>10, <3>4, MoveRemembered
    <3>6. BudgetEarned'
      <4> SUFFICES ASSUME NEW r \in Known, budget'[r].responseRejected
                   PROVE  /\ budget'[r].latestTry = budget'[r].originTry
                          /\ \E m \in Numbers' :
                               /\ Reported(m)' /\ PlanOf(m)'.route = r /\ attempts'[m].answer \in Rejections
                               /\ PlanOf(m)'.try = budget'[r].originTry
                               /\ budget'[r].maxTries = Larger(1, PlanOf(m)'.responseMaxTries)
        BY <3>4 DEF BudgetEarned
      <4>1. CASE r = p.route
        <5>1. budget'[r] = c
          BY <4>1, <3>4
        <5>2. Reported(n)'
          BY <3>5, <1>7 DEF Reported
        <5>3. attempts'[n].answer \in Rejections
          BY <3>5, <1>7, <1>14
        <5> QED
          BY <4>1, <5>1, <5>2, <5>3, <3>3, <3>5
      <4>2. CASE r # p.route
        BY <4>2, <3>4, <3>5, StaysEarned
      <4> QED
        BY <4>1, <4>2
    <3>7. Forward
      <4>1. b.latestTry \in Int /\ (p.try > b.latestTry \/ p.try = b.latestTry)
        BY <1>11, <1>12, <3>1 DEF BudgetRecord
      <4> QED
        BY <4>1, <3>3, <3>4 DEF Forward
    <3> QED
      BY <2>1, <1>2, <1>1, <1>3, <1>4, <1>7, <1>8, <1>9, <3>4, <3>6, <3>7, AttemptMoves
  <2> QED
    BY <2>2, <2>3
<1>15. CASE kind \in Recorded /\ budget' = recordFailure(p)
  <2> DEFINE closes == b.responseRejected /\ p.response /\ b.originTry = p.origin /\ p.try > b.latestTry
             c == [latestTry |-> p.try, originTry |-> b.originTry,
                   maxTries |-> p.maxTries, responseRejected |-> FALSE]
  <2>1. budget' = IF closes THEN [budget EXCEPT ![p.route] = c] ELSE budget
    BY <1>15 DEF recordFailure
  <2>2. c \in BudgetRecord
    BY <1>11, <1>12 DEF BudgetRecord
  <2>3. c.latestTry = p.try /\ ~c.responseRejected
    OBVIOUS
  <2> HIDE DEF c
  <2>4. budget' \in [Known -> BudgetRecord] /\ Known' = Known
        /\ \A r \in Known : budget'[r] = IF closes /\ r = p.route THEN c ELSE budget[r]
    BY <1>1, <2>1, <2>2 DEF Known
  <2>5. Remembers
    BY <1>3, <1>4, <1>7, <2>4, MoveRemembered
  <2>6. p.response =>
          /\ p.origin < p.try
          /\ \/ b.latestTry > p.origin
             \/ b.latestTry = p.origin /\ b.originTry = p.origin /\ b.responseRejected
    BY <1>3, <1>10 DEF PlanInv, NotAhead
  <2>7. b.latestTry \in Int /\ b.originTry \in Int
    BY <1>12 DEF BudgetRecord
  <2>8. p.response => budget'[p.route].latestTry > p.origin
    <3>1. CASE closes
      <4>1. budget'[p.route] = c
        BY <3>1, <2>4, <1>11
      <4> QED
        BY <4>1, <2>3, <2>6
    <3>2. CASE ~closes
      <4>1. budget'[p.route] = b
        BY <3>2, <2>4, <1>11
      <4> QED
        BY <3>2, <4>1, <2>6, <2>7, <1>11
    <3> QED
      BY <3>1, <3>2
  <2>9. Forward
    BY <2>3, <2>4, <2>7 DEF Forward
  <2>10. BudgetEarned'
    <3> SUFFICES ASSUME NEW r \in Known, budget'[r].responseRejected
                 PROVE  /\ budget'[r].latestTry = budget'[r].originTry
                        /\ \E m \in Numbers' :
                             /\ Reported(m)' /\ PlanOf(m)'.route = r /\ attempts'[m].answer \in Rejections
                             /\ PlanOf(m)'.try = budget'[r].originTry
                             /\ budget'[r].maxTries = Larger(1, PlanOf(m)'.responseMaxTries)
      BY <2>4 DEF BudgetEarned
    <3>1. budget'[r] = budget[r]
      BY <2>3, <2>4
    <3> QED
      BY <3>1, <2>5, StaysEarned
  <2> QED
    BY <1>1, <1>2, <1>3, <1>4, <1>7, <1>8, <1>9, <2>4, <2>8, <2>9, <2>10, AttemptMoves
<1> QED
  BY <1>6, <1>13, <1>14, <1>15 DEF Rejected

\* Every step keeps the invariant.
LEMMA PlanStep == PlanInv /\ [PlanNext]_planVars => PlanInv'
<1> SUFFICES ASSUME PlanInv, [PlanNext]_planVars PROVE PlanInv'
  OBVIOUS
<1>1. CASE Launch
  BY <1>1, LaunchPlanned
<1>2. CASE UNCHANGED <<policy, entries, started, budget, attempts>>
  BY <1>2 DEF PlanInv, PlanShape, BudgetEarned, NotAhead, FailuresClose, Opened, Unopened, KnownReported,
    CalledWithin, Calls, Called, Numbers, Known, Reported, Took, PlanOf, SameRoute, TakenEntry,
    AttemptRecord, PlanEntry, Unreserved
<1>3. CASE Exhausted
  BY <1>2, <1>3 DEF Exhausted
<1>4. ASSUME NEW n \in Numbers, TakeAttempt(n) PROVE PlanInv'
  BY <1>4, TakePlanned
<1>5. ASSUME NEW n \in Numbers, Admit(n) PROVE PlanInv'
  BY <1>5, AdmitPlanned
<1>6. ASSUME NEW n \in Numbers, Complete(n) PROVE PlanInv'
  BY <1>6, CompletePlanned
<1>7. ASSUME NEW n \in Numbers, NEW kind \in policy.answers, Answer(n, kind) PROVE PlanInv'
  BY <1>7, AnswerPlanned
<1>8. CASE UNCHANGED planVars
  BY <1>2, <1>8 DEF planVars
<1> QED
  BY <1>1, <1>3, <1>4, <1>5, <1>6, <1>7, <1>8 DEF PlanNext

\* The invariant of the launch plan, for any gateway group and any number of
\* sources: which report opened a source's budget, and what an attempt that
\* took its entry from an open budget knew.
THEOREM PlanInvariant == PlanSpec => []PlanInv
<1>1. PlanInit => PlanInv
  BY PlanStarts
<1>2. PlanInv /\ [PlanNext]_planVars => PlanInv'
  BY PlanStep
<1> QED
  BY <1>1, <1>2, PTL DEF PlanSpec

\* A call beyond the transport retries of its source was opened by a rejected
\* answer of that source, and no retry of that rejection had failed by then.
THEOREM RetriesEarned == PlanSpec => []RetriesAreEarned
BY PlanInvariant, EarnedByInvariant, PTL

-----------------------------------------------------------------------------
(* The gate of one attempt                                                 *)

\* The fields of the validator, the gate and the forwarder: every step writes
\* into the record that was there.
ValidatorFields ==
    {"protocol", "model", "all", "rules", "every", "prefix", "post", "pending", "dirty",
     "seen", "nextScan", "bytes", "eligible", "elapsed", "terminal", "overflow",
     "scanned", "result", "ready", "late", "audited"}
GateFields == {"decided", "rejection", "late", "buffer", "signal", "timer", "after"}
ForwarderFields == {"at", "end", "write", "last", "positive", "over", "left"}

\* What the buffers hold of the pieces s that came.
Buffered(v, s) ==
    /\ v.seen \in Nat /\ v.prefix \in Seq(Pieces) /\ v.post \in Seq(Pieces)
    /\ Len(v.prefix) <= PrefixBytes
    /\ ~v.ready /\ v.post # <<>> => Len(v.prefix) = PrefixBytes
    /\ v.eligible => v.seen > 0
    /\ v.overflow => ~v.ready

\* The first pieces have no match.
Clean(v, s) == Match(v.all, v.rules, SubSeq(s, 1, v.seen), FALSE) = Accepted

\* Until it accepts, the validator knows all that came, as far as its buffers
\* reach; a scan that is not outdated saw all of it; what it accepted is clean.
Knows(v, s) ==
    /\ v.seen = 0 /\ ~v.overflow => s = <<>>
    /\ ~v.ready /\ ~v.overflow =>
         /\ v.seen = Len(s)
         /\ v.seen <= PrefixBytes + Ring => v.prefix \o v.post = s
    /\ ~v.ready /\ ~v.overflow /\ ~v.dirty /\ v.seen > 0 =>
         v.scanned = Match(v.all, v.rules, v.prefix \o v.post, FALSE)
    /\ v.ready =>
         /\ v.seen <= Len(s)
         /\ ~IsRejected(v.result) /\ 0 < v.seen /\ v.seen <= PrefixBytes + Ring => Clean(v, s)

\* Without a rule there is nothing to look for.
Idle(v) == v.ready /\ ~v.dirty /\ ~IsRejected(v.scanned) /\ ~IsRejected(v.result)

Judged(v, s) ==
    /\ DOMAIN v = ValidatorFields
    /\ Buffered(v, s)
    /\ IF v.rules = <<>> THEN Idle(v) ELSE Knows(v, s)

\* An accepted prefix is settled, and stays so until a Write outdates it.
Settled(v, at) ==
    v.ready => /\ ~IsRejected(v.result)
               /\ ~v.dirty => ~IsRejected(v.scanned)
               /\ v.dirty => at = "parked"

GateTyped ==
    /\ case \in GateScenarios
    /\ DOMAIN gate = GateFields /\ DOMAIN forwarder = ForwarderFields
    /\ forwarder.write \in Seq(Pieces) /\ gate.buffer \in Seq(Pieces) /\ gate.after \in Nat
    /\ sent \in Seq(Pieces) /\ got \in Seq(Pieces)

\* An answer that does not stream goes past the gate.
WholeInv ==
    /\ gate.decided = "no" /\ gate.timer = "none" /\ gate.signal = <<>>
    /\ forwarder.at \in {"reading", "done"} /\ runner \in {"wait", "refused", "won"}
    /\ runner # "wait" => forwarder.at = "done"
    /\ runner = "wait" => ~IsRejected(gate.rejection) /\ got = <<>>
    /\ IsRejected(gate.rejection) => got = <<>>
    /\ got = <<>> \/ got = sent

\* The validator's part.
ValidatorInv ==
    /\ Judged(validator, sent)
    /\ forwarder.at # "done" => ~IsRejected(validator.late)
    /\ validator.overflow =>
         forwarder.at \in {"finish", "done"} /\ forwarder.end \in {"error", "rejected"}
    /\ gate.decided = "no" => Settled(validator, forwarder.at)
    /\ validator.rules # <<>> /\ validator.ready /\ validator.seen = 0 => forwarder.at = "done"
    /\ gate.timer \in {"armed", "firing"} => validator.seen > 0

\* Nobody is told of a stream that has not been accepted.
ReadyInv ==
    /\ gate.signal # <<>> =>
         \/ IsRejected(Head(gate.signal)) \/ validator.ready
         \/ forwarder.at = "done" /\ forwarder.end \in {"error", "rejected"}
    /\ runner = "ready" => validator.ready \/ gate.decided # "no"
    /\ forwarder.at = "done" /\ gate.decided = "no" =>
         forwarder.end \in {"error", "rejected"} \/ validator.ready

\* What is held, what is out.
ReleaseInv ==
    /\ gate.decided # "won" => got = <<>>
    /\ gate.decided = "no" /\ ~IsRejected(gate.rejection) => gate.buffer = sent
    /\ gate.decided = "no" => gate.after = 0 \/ (gate.after = 1 /\ forwarder.at = "parked")
    /\ gate.decided = "won" =>
         /\ got = sent /\ gate.after <= 1 /\ ~IsRejected(gate.rejection)
         /\ validator.ready /\ ~IsRejected(validator.result)

GateInv ==
    /\ GateTyped
    /\ ~case.stream => WholeInv
    /\ case.stream => ValidatorInv /\ ReadyInv /\ ReleaseInv

-----------------------------------------------------------------------------
\* A match is a verdict.
LEMMA MatchDecides ==
    ASSUME NEW all, NEW rules, NEW ps, NEW late
    PROVE  LET m == Match(all, rules, ps, late) IN m = Accepted \/ IsRejected(m)
BY DEF Match, Accepted, Rejection, IsRejected

\* Verdicts differ.
LEMMA VerdictsDiffer == ~IsRejected(Accepted) /\ ~IsRejected(Pending) /\ Accepted # Pending
BY DEF Accepted, Pending, IsRejected

\* A new validator has seen nothing.
LEMMA NewJudged ==
    ASSUME NEW rows, NEW protocol, NEW model, NEW v, v = NewStreamValidator(rows, protocol, model)
    PROVE  /\ Judged(v, <<>>) /\ ~v.overflow /\ ~v.dirty /\ v.seen = 0 /\ (v.ready => v.rules = <<>>)
           /\ ~IsRejected(v.late) /\ ~IsRejected(v.scanned) /\ ~IsRejected(v.result)
<1>1. /\ v.seen = 0 /\ v.prefix = <<>> /\ v.post = <<>>
      /\ v.dirty = FALSE /\ v.eligible = FALSE /\ v.overflow = FALSE
  BY DEF NewStreamValidator
<1>2. v.late = Pending /\ v.scanned = Pending /\ v.result \in {Pending, Accepted}
  BY DEF NewStreamValidator
<1>3. v.ready = (v.rules = <<>>)
  BY DEF NewStreamValidator
<1>4. DOMAIN v = ValidatorFields
  BY DEF NewStreamValidator, ValidatorFields
<1>5. PrefixBytes \in Nat /\ PrefixBytes > 0 /\ Ring \in Nat
  BY LimitsAssumption
<1>6. Judged(v, <<>>)
  <2>1. Buffered(v, <<>>) BY <1>1, <1>3, <1>5 DEF Buffered
  <2>2. v.rules # <<>> => Knows(v, <<>>) BY <1>1, <1>3, <1>5 DEF Knows
  <2>3. v.rules = <<>> => Idle(v) BY <1>1, <1>2, <1>3, VerdictsDiffer DEF Idle
  <2> QED BY <1>4, <2>1, <2>2, <2>3 DEF Judged
<1> QED BY <1>1, <1>2, <1>3, <1>6, VerdictsDiffer

\* A scan sees everything that is held.
LEMMA ScanJudged ==
    ASSUME NEW v, NEW s, Judged(v, s), v.rules # <<>>
    PROVE  /\ Judged(Scan(v), s)
           /\ Scan(v).scanned = IF v.dirty THEN Match(v.all, v.rules, v.prefix \o v.post, FALSE) ELSE v.scanned
           /\ ~Scan(v).dirty
BY DEF Scan, Judged, Buffered, Knows, ValidatorFields, Clean

\* What a scan leaves alone.
LEMMA ScanKeeps ==
    ASSUME NEW v, DOMAIN v = ValidatorFields
    PROVE  LET c == Scan(v) IN
           /\ DOMAIN c = ValidatorFields /\ c.all = v.all /\ c.rules = v.rules
           /\ c.seen = v.seen /\ c.prefix = v.prefix /\ c.post = v.post /\ c.result = v.result
           /\ c.ready = v.ready /\ c.late = v.late /\ c.overflow = v.overflow /\ c.eligible = v.eligible
BY DEF Scan, ValidatorFields

\* The last look lets go what it found clean, or rejects.
LEMMA SettleJudged ==
    ASSUME NEW v, NEW s, s \in Seq(Pieces), Judged(v, s), v.rules # <<>>, ~v.overflow,
           v.ready => ~IsRejected(v.result)
    PROVE  LET c == Settle(v) IN
           /\ Judged(c, s) /\ c.rules = v.rules /\ c.all = v.all /\ c.late = v.late
           /\ c.seen = v.seen /\ c.eligible = v.eligible /\ ~c.overflow /\ ~c.dirty
           /\ ~v.dirty => c.scanned = v.scanned
           /\ \/ IsRejected(c.result) /\ IsRejected(c.scanned) /\ c.ready = v.ready
              \/ c.ready /\ ~IsRejected(c.result) /\ ~IsRejected(c.scanned)
<1> DEFINE w == Scan(v)
           c == Settle(v)
<1>1. Judged(w, s) /\ ~w.dirty /\ w.rules = v.rules /\ w.all = v.all /\ w.late = v.late
      /\ w.seen = v.seen /\ w.eligible = v.eligible /\ ~w.overflow /\ w.ready = v.ready
      /\ w.result = v.result /\ (~v.dirty => w.scanned = v.scanned)
  BY ScanJudged, ScanKeeps DEF Judged
<1>2. CASE IsRejected(w.scanned)
  <2>1. c = [w EXCEPT !.result = w.scanned]
    BY <1>2 DEF Settle, SettleScanned, KeptVerdict
  <2> QED BY <1>1, <1>2, <2>1 DEF Judged, Buffered, Knows, ValidatorFields, Clean
<1>3. CASE ~IsRejected(w.scanned)
  <2>1. c = [w EXCEPT !.ready = TRUE, !.result = Accepted, !.pending = <<>>]
    BY <1>3 DEF Settle, SettleScanned, Accept
  <2>2. ~w.ready /\ w.seen > 0 /\ w.seen <= PrefixBytes + Ring => Clean(w, s)
    <3> SUFFICES ASSUME ~w.ready, w.seen > 0, w.seen <= PrefixBytes + Ring
                 PROVE  Clean(w, s)
      OBVIOUS
    <3>1. w.scanned = Match(w.all, w.rules, w.prefix \o w.post, FALSE)
      BY <1>1 DEF Judged, Knows
    <3>2. w.prefix \o w.post = s /\ w.seen = Len(s)
      BY <1>1 DEF Judged, Knows
    <3>3. SubSeq(s, 1, w.seen) = s
      BY <3>2, SubSeqFull
    <3> QED BY <1>3, <3>1, <3>2, <3>3, MatchDecides DEF Clean
  <2>3. DOMAIN c = ValidatorFields /\ c.ready /\ c.result = Accepted
        /\ c.seen = w.seen /\ c.prefix = w.prefix /\ c.post = w.post /\ c.dirty = w.dirty
        /\ c.overflow = w.overflow /\ c.eligible = w.eligible /\ c.scanned = w.scanned
        /\ c.all = w.all /\ c.rules = w.rules /\ c.late = w.late
    BY <1>1, <2>1 DEF Judged, ValidatorFields
  <2>4. w.seen <= Len(s) /\ (0 < w.seen /\ w.seen <= PrefixBytes + Ring => Clean(w, s))
    <3>1. CASE w.ready
      BY <1>1, <3>1 DEF Judged, Knows
    <3>2. CASE ~w.ready
      <4>1. w.seen = Len(s) /\ w.seen \in Nat
        BY <1>1, <3>2 DEF Judged, Knows, Buffered
      <4> QED BY <2>2, <3>2, <4>1
    <3> QED BY <3>1, <3>2
  <2>5. Judged(c, s)
    <3>1. Buffered(c, s) BY <1>1, <2>3 DEF Judged, Buffered
    <3>2. Knows(c, s) BY <1>1, <2>3, <2>4 DEF Judged, Knows, Clean
    <3> QED BY <1>1, <2>3, <3>1, <3>2 DEF Judged
  <2> QED BY <1>1, <1>3, <2>3, <2>5, VerdictsDiffer
<1> QED BY <1>2, <1>3

\* Pieces join in any grouping.
LEMMA JoinAssociative ==
    \A a, b, c \in Seq(Pieces) : (a \o b) \o c = a \o (b \o c)
BY ConcatAssociative

\* The prefix and the ring take two parts of a Write.
Joined(prefix, post, front, back) ==
    /\ prefix \o front \in Seq(Pieces) /\ post \o back \in Seq(Pieces)
    /\ Len(prefix \o front) <= PrefixBytes
    /\ post # <<>> \/ back # <<>> => Len(prefix \o front) = PrefixBytes
    /\ (prefix \o front) \o (post \o back) = (prefix \o post) \o (front \o back)
    /\ back # <<>> => PrefixBytes + Len(post \o back) = Len((prefix \o post) \o (front \o back))

\* A Write is cut where the prefix is full.
LEMMA WriteIsCut ==
    ASSUME NEW w \in Seq(Pieces), NEW room \in Nat
    PROVE  LET front == SubSeq(w, 1, IF Len(w) > room THEN room ELSE Len(w))
               back == SubSeq(w, room + 1, Len(w))
           IN /\ front \in Seq(Pieces) /\ back \in Seq(Pieces) /\ front \o back = w
              /\ Len(front) <= room /\ (back # <<>> => Len(front) = room)
<1>1. Len(w) \in Nat BY LenProperties
<1>2. CASE Len(w) > room
  <2> DEFINE front == SubSeq(w, 1, room)
             back == SubSeq(w, room + 1, Len(w))
  <2>1. front \in Seq(Pieces) /\ Len(front) = room
    <3>1. \A i \in 1..room : w[i] \in Pieces
      BY <1>1, <1>2, ElementOfSeq
    <3> QED BY <1>1, <3>1, SubSeqProperties
  <2>2. back \in Seq(Pieces)
    <3>1. \A i \in (room + 1)..Len(w) : w[i] \in Pieces
      BY <1>1, <1>2, ElementOfSeq
    <3> QED BY <1>1, <1>2, <3>1, SubSeqProperties
  <2>3. front \o back = w
    <3>1. front \o back = SubSeq(w, 1, Len(w))
      <4>1. 1 \in 1..Len(w) + 1 /\ room \in (1 - 1)..Len(w) /\ Len(w) \in room..Len(w)
        BY <1>1, <1>2
      <4> QED BY <4>1, ConcatAdjacentSubSeq
    <3> QED BY <3>1, SubSeqFull
  <2> HIDE DEF front, back
  <2>4. /\ front \in Seq(Pieces) /\ back \in Seq(Pieces) /\ front \o back = w
        /\ Len(front) <= room /\ (back # <<>> => Len(front) = room)
    BY <2>1, <2>2, <2>3
  <2> QED BY <1>2, <2>4 DEF front, back
<1>3. CASE ~(Len(w) > room)
  <2>1. SubSeq(w, 1, Len(w)) = w /\ SubSeq(w, room + 1, Len(w)) = <<>>
    BY <1>1, <1>3, SubSeqFull, SubSeqEmpty
  <2>2. w \o <<>> = w /\ <<>> \in Seq(Pieces)
    BY ConcatEmptySeq, EmptySeq
  <2>3. Len(w) <= room
    BY <1>1, <1>3
  <2> QED BY <1>3, <2>1, <2>2, <2>3
<1> QED BY <1>2, <1>3

\* A Write joins the prefix while it has room, then the ring, in its order.
LEMMA BuffersJoin ==
    ASSUME NEW prefix \in Seq(Pieces), NEW post \in Seq(Pieces),
           NEW front \in Seq(Pieces), NEW back \in Seq(Pieces),
           Len(prefix) <= PrefixBytes, post # <<>> => Len(prefix) = PrefixBytes,
           Len(front) <= PrefixBytes - Len(prefix),
           back # <<>> => Len(front) = PrefixBytes - Len(prefix)
    PROVE  Joined(prefix, post, front, back)
<1>1. PrefixBytes \in Nat /\ Len(prefix) \in Nat /\ Len(post) \in Nat /\ Len(front) \in Nat /\ Len(back) \in Nat
  <2>1. PrefixBytes \in Nat BY LimitsAssumption
  <2> QED BY <2>1, LenProperties
<1>2. post = <<>> \/ front = <<>>
  BY <1>1, EmptySeq
<1>3. (prefix \o front) \o (post \o back) = (prefix \o post) \o (front \o back)
  <2>1. CASE post = <<>>
    <3>1. post \o back = back /\ prefix \o post = prefix
      BY <2>1, ConcatEmptySeq
    <3>2. (prefix \o front) \o back = prefix \o (front \o back)
      BY JoinAssociative, Zenon
    <3> QED BY <3>1, <3>2, Zenon
  <2>2. CASE front = <<>>
    <3>1. front \o back = back /\ prefix \o front = prefix
      BY <2>2, ConcatEmptySeq
    <3>2. (prefix \o post) \o back = prefix \o (post \o back)
      BY JoinAssociative, Zenon
    <3> QED BY <3>1, <3>2, Zenon
  <2> QED BY <1>2, <2>1, <2>2
<1>4. Len(prefix \o front) = Len(prefix) + Len(front)
  BY ConcatProperties
<1>9. prefix \o front \in Seq(Pieces) /\ post \o back \in Seq(Pieces)
  BY ConcatProperties
<1>5. Len((prefix \o front) \o (post \o back)) = Len(prefix \o front) + Len(post \o back)
  BY <1>9, ConcatProperties
<1>6. back # <<>> => PrefixBytes + Len(post \o back) = Len((prefix \o post) \o (front \o back))
  <2>1. SUFFICES ASSUME back # <<>>
                 PROVE  PrefixBytes + Len(post \o back) = Len((prefix \o front) \o (post \o back))
    BY <1>3
  <2>2. Len(prefix) + Len(front) = PrefixBytes
    BY <1>1, <2>1
  <2> QED BY <1>4, <1>5, <2>2
<1>7. Len(prefix \o front) <= PrefixBytes
  BY <1>1, <1>4
<1>8. post # <<>> \/ back # <<>> => Len(prefix \o front) = PrefixBytes
  BY <1>1, <1>2, <1>4, EmptySeq
<1> QED BY <1>3, <1>6, <1>7, <1>8, <1>9 DEF Joined

\* A Write before the verdict is kept, and outdates the last scan.
LEMMA TakeJudged ==
    ASSUME NEW v, NEW s \in Seq(Pieces), NEW w \in Seq(Pieces), w # <<>>, NEW o,
           Judged(v, s), v.rules # <<>>, ~v.ready, ~v.overflow
    PROVE  LET t == Take([v EXCEPT !.seen = @ + Len(w)], w, o) IN
           /\ Judged(t, s \o w) /\ t.dirty /\ ~t.ready /\ ~t.overflow /\ t.seen > 0
           /\ t.rules = v.rules /\ t.all = v.all /\ t.late = v.late
<1> DEFINE room == PrefixBytes - Len(v.prefix)
           front == SubSeq(w, 1, IF Len(w) > room THEN room ELSE Len(w))
           back == SubSeq(w, room + 1, Len(w))
           n == v.seen + Len(w)
           kept == v.post \o back
           t == Take([v EXCEPT !.seen = @ + Len(w)], w, o)
<1>1. /\ v.seen = Len(s) /\ v.prefix \in Seq(Pieces) /\ v.post \in Seq(Pieces)
      /\ Len(v.prefix) <= PrefixBytes /\ (v.post # <<>> => Len(v.prefix) = PrefixBytes)
      /\ (v.seen <= PrefixBytes + Ring => v.prefix \o v.post = s)
  BY DEF Judged, Knows, Buffered
<1>2. PrefixBytes \in Nat /\ Ring \in Nat /\ Len(w) \in Nat /\ Len(w) > 0 /\ Len(s) \in Nat
  <2>1. PrefixBytes \in Nat /\ Ring \in Nat BY LimitsAssumption
  <2>2. Len(w) \in Nat \ {0} BY EmptySeq
  <2> QED BY <2>1, <2>2, LenProperties
<1>3. room \in Nat
  BY <1>1, <1>2, LenProperties
<1>4. /\ front \in Seq(Pieces) /\ back \in Seq(Pieces) /\ front \o back = w
      /\ Len(front) <= room /\ (back # <<>> => Len(front) = room)
  BY <1>3, WriteIsCut
<1>5. /\ DOMAIN t = ValidatorFields /\ t.prefix = v.prefix \o front
      /\ t.post = IF back = <<>> THEN v.post
                  ELSE IF Len(kept) > Ring THEN SubSeq(kept, Len(kept) - Ring + 1, Len(kept)) ELSE kept
      /\ t.seen = n /\ t.dirty = TRUE /\ t.ready = v.ready /\ t.overflow = v.overflow
      /\ t.rules = v.rules /\ t.all = v.all /\ t.late = v.late
  BY DEF Take, AppendPost, Judged, ValidatorFields
<1> HIDE DEF front, back, room, kept, t
<1>6. Joined(v.prefix, v.post, front, back)
  BY <1>1, <1>4, BuffersJoin DEF room
<1>7. /\ t.prefix \in Seq(Pieces) /\ Len(t.prefix) <= PrefixBytes
      /\ (v.post # <<>> \/ back # <<>> => Len(t.prefix) = PrefixBytes)
  BY <1>5, <1>6 DEF Joined
<1>8. t.post \in Seq(Pieces) /\ (t.post # <<>> => v.post # <<>> \/ back # <<>>)
  <2>1. kept \in Seq(Pieces) /\ Len(kept) \in Nat
    BY <1>6, LenProperties DEF Joined, kept
  <2>2. Len(kept) > Ring => SubSeq(kept, Len(kept) - Ring + 1, Len(kept)) \in Seq(Pieces)
    <3> SUFFICES ASSUME Len(kept) > Ring
                 PROVE  SubSeq(kept, Len(kept) - Ring + 1, Len(kept)) \in Seq(Pieces)
      OBVIOUS
    <3>1. \A i \in (Len(kept) - Ring + 1)..Len(kept) : kept[i] \in Pieces
      BY <1>2, <2>1, ElementOfSeq
    <3> QED BY <1>2, <2>1, <3>1, SubSeqProperties
  <2>3. CASE back = <<>>
    BY <1>1, <1>5, <2>3
  <2>4. CASE back # <<>>
    BY <1>5, <2>1, <2>2, <2>4
  <2> QED BY <2>3, <2>4
<1>9. s \o w \in Seq(Pieces) /\ Len(s \o w) = n /\ n > 0 /\ n \in Nat
  BY <1>1, <1>2, ConcatProperties
<1>10. n <= PrefixBytes + Ring => t.prefix \o t.post = s \o w
  <2> SUFFICES ASSUME n <= PrefixBytes + Ring
               PROVE  t.prefix \o t.post = s \o w
    OBVIOUS
  <2>1. v.prefix \o v.post = s
    <3>1. v.seen <= n BY <1>1, <1>2
    <3>2. v.seen \in Nat /\ n \in Nat BY <1>1, <1>2
    <3>3. v.seen <= PrefixBytes + Ring
      <4> HIDE DEF n
      <4> QED BY <1>2, <3>1, <3>2
    <3> QED BY <1>1, <3>3
  <2>2. (v.prefix \o front) \o kept = s \o w
    BY <1>4, <1>6, <2>1 DEF Joined, kept
  <2>3. CASE back = <<>>
    <3>1. kept = v.post
      BY <1>1, <2>3, ConcatEmptySeq DEF kept
    <3> QED BY <1>5, <2>2, <2>3, <3>1
  <2>4. CASE back # <<>>
    <3>1. PrefixBytes + Len(kept) = n
      BY <1>4, <1>6, <1>9, <2>1, <2>4 DEF Joined, kept
    <3>2. ~(Len(kept) > Ring)
      <4>1. Len(kept) \in Nat
        BY <1>6, LenProperties DEF Joined, kept
      <4> QED BY <1>2, <3>1, <4>1
    <3> QED BY <1>5, <2>2, <2>4, <3>2
  <2> QED BY <2>3, <2>4
<1>11. Buffered(t, s \o w)
  BY <1>5, <1>7, <1>8, <1>9, ~v.overflow DEF Buffered
<1>12. Knows(t, s \o w)
  <2> HIDE DEF n
  <2>1. ~t.ready /\ t.dirty /\ t.seen = n
    BY <1>5
  <2>2. t.seen # 0 /\ t.seen = Len(s \o w)
    BY <1>9, <2>1
  <2>3. t.seen <= PrefixBytes + Ring => t.prefix \o t.post = s \o w
    BY <1>10, <2>1
  <2> QED BY <2>1, <2>2, <2>3 DEF Knows
<1> QED BY <1>5, <1>9, <1>11, <1>12 DEF Judged, t

\* What a step of a validator that has not accepted leads to.
StaysJudged(v, c, s) ==
    /\ Judged(c, s) /\ ~c.overflow
    /\ c.rules = v.rules /\ c.all = v.all /\ c.late = v.late /\ c.seen = v.seen
    /\ c.ready => ~c.dirty /\ ~IsRejected(c.result) /\ ~IsRejected(c.scanned)

\* Another result is no news before the prefix is accepted.
LEMMA ResultOnward ==
    ASSUME NEW v, NEW s, NEW r, Judged(v, s), ~v.ready, ~v.overflow
    PROVE  StaysJudged(v, [v EXCEPT !.result = r], s)
BY DEF StaysJudged, Judged, Buffered, Knows, Idle, ValidatorFields

\* A scan before that.
LEMMA ScanOnward ==
    ASSUME NEW v, NEW s, Judged(v, s), ~v.ready, ~v.overflow, v.rules # <<>>
    PROVE  StaysJudged(v, Scan(v), s) /\ ~Scan(v).ready
<1>1. Judged(Scan(v), s) BY ScanJudged
<1>2. DOMAIN v = ValidatorFields BY DEF Judged
<1> QED BY <1>1, <1>2, ScanKeeps DEF StaysJudged

\* The last look.
LEMMA SettleOnward ==
    ASSUME NEW v, NEW s \in Seq(Pieces), Judged(v, s), ~v.ready, ~v.overflow, v.rules # <<>>
    PROVE  StaysJudged(v, Settle(v), s)
BY SettleJudged DEF StaysJudged

\* The new frames, and the window's end.
LEMMA LookOnward ==
    ASSUME NEW v, NEW s \in Seq(Pieces), Judged(v, s), ~v.ready, ~v.overflow, v.rules # <<>>, NEW frames
    PROVE  StaysJudged(v, Look(v, frames), s)
<1>1. StaysJudged(v, v, s)
  BY DEF StaysJudged
<1>2. StaysJudged(v, Settle(v), s)
  BY SettleOnward
<1>3. ASSUME NEW frame
      PROVE  StaysJudged(v, JudgeFrame(v, frame), s)
  <2>1. Judged(Scan(v), s) /\ ~Scan(v).ready /\ ~Scan(v).overflow
    BY ScanOnward DEF StaysJudged
  <2>2. StaysJudged(Scan(v), [Scan(v) EXCEPT !.result = IF IsRejected(Scan(v).scanned) THEN Scan(v).scanned ELSE frame], s)
    BY <2>1, ResultOnward
  <2>3. StaysJudged(Scan(v), JudgeFrame(v, frame), s)
    BY <2>2 DEF JudgeFrame, FrameOrAll
  <2> QED BY <2>3, ScanOnward DEF StaysJudged
<1> QED BY <1>1, <1>2, <1>3 DEF Look

\* The whole judgement of a Write.
LEMMA JudgeOnward ==
    ASSUME NEW v, NEW s \in Seq(Pieces), Judged(v, s), ~v.ready, ~v.overflow, v.rules # <<>>, NEW frames
    PROVE  StaysJudged(v, Judge(v, frames), s)
<1>1. CASE ~ShouldScan(v)
  BY <1>1, LookOnward DEF Judge
<1>2. CASE ShouldScan(v)
  <2>1. StaysJudged(v, Scan(v), s) /\ ~Scan(v).ready
    BY ScanOnward
  <2>2. Judged(Scan(v), s) /\ ~Scan(v).overflow /\ Scan(v).rules # <<>>
    BY <2>1 DEF StaysJudged
  <2>3. StaysJudged(Scan(v), DueScan(Scan(v), frames), s)
    <3>1. CASE IsRejected(Scan(v).scanned)
      <4>1. DueScan(Scan(v), frames) = [Scan(v) EXCEPT !.result = Scan(v).scanned]
        BY <3>1 DEF DueScan, KeptVerdict
      <4>2. StaysJudged(Scan(v), [Scan(v) EXCEPT !.result = Scan(v).scanned], s)
        BY <2>1, <2>2, ResultOnward
      <4> QED BY <4>1, <4>2
    <3>2. CASE ~IsRejected(Scan(v).scanned)
      BY <2>1, <2>2, <3>2, LookOnward DEF DueScan
    <3> QED BY <3>1, <3>2
  <2> QED BY <1>2, <2>1, <2>3 DEF Judge, StaysJudged
<1> QED BY <1>1, <1>2

\* What a Write makes of the validator: too long a frame is an error; before
\* the verdict the pieces are judged, after it they are only kept.
LEMMA ConsumeJudged ==
    ASSUME NEW v, NEW s \in Seq(Pieces), NEW w \in Seq(Pieces), Judged(v, s), ~v.overflow,
           ~IsRejected(v.late), v.ready => v.rules = <<>> \/ v.seen > 0
    PROVE  LET c == Consume(v, w) IN
           /\ c.rules = v.rules /\ c.all = v.all /\ c.late = v.late
           /\ Judged(c, IF c.overflow THEN s ELSE s \o w)
           /\ v.ready => ~c.overflow /\ c.ready /\ c.result = v.result /\ c.scanned = v.scanned /\ c.seen = v.seen
           /\ v.seen > 0 => c.seen > 0
           /\ ~v.ready /\ c.ready =>
                c.seen > 0 /\ ~c.dirty /\ ~IsRejected(c.result) /\ ~IsRejected(c.scanned)
<1> DEFINE c == Consume(v, w)
<1>1. CASE v.rules = <<>> \/ w = <<>>
  <2>1. c = v
    BY <1>1 DEF Consume
  <2>2. Judged(v, s \o w)
    <3>1. CASE v.rules = <<>>
      BY <3>1 DEF Judged, Buffered
    <3>2. CASE w = <<>>
      BY <3>2, ConcatEmptySeq
    <3> QED BY <1>1, <3>1, <3>2
  <2> QED BY <2>1, <2>2
<1>2. CASE v.rules # <<>> /\ w # <<>> /\ v.ready
  <2> DEFINE kept == v.post \o w
  <2>1. c = [v EXCEPT !.dirty = TRUE,
                      !.post = IF Len(kept) > Ring THEN SubSeq(kept, Len(kept) - Ring + 1, Len(kept)) ELSE kept]
    BY <1>2 DEF Consume, AppendPost
  <2> HIDE DEF kept, c
  <2>2. /\ DOMAIN c = ValidatorFields /\ c.rules = v.rules /\ c.all = v.all /\ c.late = v.late
        /\ c.prefix = v.prefix /\ c.seen = v.seen /\ c.eligible = v.eligible /\ c.overflow = v.overflow
        /\ c.ready = v.ready /\ c.result = v.result /\ c.scanned = v.scanned
        /\ c.post = IF Len(kept) > Ring THEN SubSeq(kept, Len(kept) - Ring + 1, Len(kept)) ELSE kept
    BY <2>1 DEF Judged, ValidatorFields
  <2>3. v.post \in Seq(Pieces) /\ v.seen \in Nat
    BY DEF Judged, Buffered
  <2>4. c.post \in Seq(Pieces)
    <3>1. kept \in Seq(Pieces)
      BY <2>3, ConcatProperties DEF kept
    <3>2. Len(kept) \in Nat /\ Ring \in Nat
      BY <3>1, LenProperties, LimitsAssumption
    <3>3. CASE Len(kept) > Ring
      <4>1. \A i \in (Len(kept) - Ring + 1)..Len(kept) : kept[i] \in Pieces
        BY <3>1, <3>2, <3>3, ElementOfSeq
      <4>2. SubSeq(kept, Len(kept) - Ring + 1, Len(kept)) \in Seq(Pieces)
        BY <3>2, <3>3, <4>1, SubSeqProperties
      <4> QED BY <2>2, <3>3, <4>2
    <3>4. CASE ~(Len(kept) > Ring)
      BY <2>2, <3>1, <3>4
    <3> QED BY <3>3, <3>4
  <2>5. Buffered(c, s \o w)
    BY <1>2, <2>2, <2>4 DEF Judged, Buffered
  <2>6. v.seen > 0 /\ v.seen <= Len(s)
    BY <1>2 DEF Judged, Knows
  <2>7. Len(s) \in Nat /\ Len(w) \in Nat /\ Len(s \o w) = Len(s) + Len(w)
    BY ConcatProperties, LenProperties
  <2>8. SubSeq(s \o w, 1, v.seen) = SubSeq(s, 1, v.seen)
    <3>1. 1 \in 1..Len(s) /\ v.seen \in 1..Len(s)
      BY <2>3, <2>6, <2>7
    <3> QED BY <3>1, SubSeqOfConcat1
  <2>9. Clean(c, s \o w) <=> Clean(v, s)
    BY <2>2, <2>8 DEF Clean
  <2>10. c.seen # 0 /\ c.seen <= Len(s \o w)
    BY <2>2, <2>3, <2>6, <2>7
  <2>11. Knows(c, s \o w)
    BY <1>2, <2>2, <2>9, <2>10 DEF Judged, Knows
  <2> QED BY <1>2, <2>2, <2>5, <2>11 DEF Judged, c
<1>3. CASE v.rules # <<>> /\ w # <<>> /\ ~v.ready
  <2>1. PICK o : c = ConsumeHeld([v EXCEPT !.seen = @ + Len(w)], w, o)
    BY <1>3 DEF Consume
  <2>2. CASE o.overflow
    <3>1. c = [[v EXCEPT !.seen = @ + Len(w)] EXCEPT !.overflow = TRUE, !.pending = <<>>]
      BY <2>1, <2>2 DEF ConsumeHeld
    <3>2. Len(w) \in Nat /\ v.seen \in Nat /\ Len(w) > 0
      BY <1>3, EmptySeq DEF Judged, Buffered
    <3> HIDE DEF c
    <3>3. /\ DOMAIN c = ValidatorFields /\ c.rules = v.rules /\ c.all = v.all /\ c.late = v.late
          /\ c.prefix = v.prefix /\ c.post = v.post /\ c.seen = v.seen + Len(w) /\ c.eligible = v.eligible
          /\ c.overflow /\ c.ready = v.ready
      BY <3>1 DEF Judged, ValidatorFields
    <3>4. c.seen \in Nat /\ c.seen > 0
      BY <3>2, <3>3
    <3>5. Buffered(c, s)
      BY <1>3, <3>3, <3>4 DEF Judged, Buffered
    <3>6. Knows(c, s)
      BY <1>3, <3>3, <3>4 DEF Knows
    <3> QED BY <1>3, <3>3, <3>4, <3>5, <3>6 DEF Judged, c
  <2>3. CASE ~o.overflow
    <3> DEFINE t == Take([v EXCEPT !.seen = @ + Len(w)], w, o)
    <3>1. c = Judge(t, o.candidate)
      BY <2>1, <2>3 DEF ConsumeHeld
    <3>2. /\ Judged(t, s \o w) /\ t.dirty /\ ~t.ready /\ ~t.overflow /\ t.seen > 0
          /\ t.rules = v.rules /\ t.all = v.all /\ t.late = v.late
      BY <1>3, TakeJudged
    <3>3. s \o w \in Seq(Pieces)
      BY ConcatProperties
    <3> HIDE DEF t
    <3>4. StaysJudged(t, c, s \o w)
      BY <1>3, <3>1, <3>2, <3>3, JudgeOnward
    <3> HIDE DEF c
    <3> QED BY <1>3, <3>2, <3>4 DEF StaysJudged, c
  <2> QED BY <2>2, <2>3
<1> QED BY <1>1, <1>2, <1>3

\* The window's end.
LEMMA AfterWindowJudged ==
    ASSUME NEW v, NEW s \in Seq(Pieces), Judged(v, s)
    PROVE  LET c == AfterWindow(v) IN
           /\ Judged(c, s) /\ (c.overflow <=> v.overflow)
           /\ c.rules = v.rules /\ c.all = v.all /\ c.late = v.late /\ c.seen = v.seen
           /\ v.ready => c = v
           /\ ~v.ready /\ c.ready => ~c.dirty /\ ~IsRejected(c.result) /\ ~IsRejected(c.scanned)
<1> DEFINE c == AfterWindow(v)
           u == [v EXCEPT !.elapsed = TRUE]
<1>1. CASE v.overflow \/ IsRejected(v.result) \/ v.ready
  BY <1>1 DEF AfterWindow
<1>2. CASE ~(v.overflow \/ IsRejected(v.result) \/ v.ready)
  <2>1. /\ Judged(u, s) /\ ~u.ready /\ ~u.overflow /\ u.rules # <<>>
        /\ u.rules = v.rules /\ u.all = v.all /\ u.late = v.late /\ u.seen = v.seen
    BY <1>2 DEF Judged, Buffered, Knows, Idle, ValidatorFields
  <2>2. c = Settle(u) \/ c = u
    BY <1>2 DEF AfterWindow
  <2> HIDE DEF c, u
  <2>3. StaysJudged(u, c, s)
    BY <2>1, <2>2, SettleOnward DEF StaysJudged
  <2> QED BY <1>2, <2>1, <2>3 DEF StaysJudged, c
<1> QED BY <1>1, <1>2

\* The forwarder's end.
LEMMA FinalizeJudged ==
    ASSUME NEW v, NEW s \in Seq(Pieces), Judged(v, s)
    PROVE  LET c == Finalize(v) IN
           /\ Judged(c, s) /\ (c.overflow <=> v.overflow)
           /\ c.rules = v.rules /\ c.all = v.all /\ c.late = v.late /\ c.seen = v.seen
           /\ v.ready => c.ready
           /\ ~c.overflow => c.ready \/ IsRejected(c.result)
           /\ v.ready /\ ~v.dirty /\ ~IsRejected(v.result) /\ ~IsRejected(v.scanned) =>
                ~c.dirty /\ ~IsRejected(c.result) /\ ~IsRejected(c.scanned)
           /\ ~v.ready /\ c.ready => ~c.dirty /\ ~IsRejected(c.result) /\ ~IsRejected(c.scanned)
<1> DEFINE c == Finalize(v)
<1>1. CASE v.overflow \/ IsRejected(v.result)
  BY <1>1 DEF Finalize
<1>2. CASE ~(v.overflow \/ IsRejected(v.result)) /\ v.rules = <<>>
  <2>1. Idle(v)
    BY <1>2 DEF Judged
  <2>2. c = [v EXCEPT !.ready = TRUE, !.result = Accepted, !.pending = <<>>]
    BY <1>2, <2>1 DEF Finalize, Settle, SettleScanned, Scan, Accept, Idle
  <2> HIDE DEF c
  <2>3. /\ DOMAIN c = ValidatorFields /\ c.rules = v.rules /\ c.all = v.all /\ c.late = v.late
        /\ c.prefix = v.prefix /\ c.post = v.post /\ c.seen = v.seen /\ c.eligible = v.eligible
        /\ c.overflow = v.overflow /\ c.dirty = v.dirty /\ c.scanned = v.scanned
        /\ c.ready /\ c.result = Accepted
    BY <2>2 DEF Judged, ValidatorFields
  <2>4. Idle(c)
    BY <2>1, <2>3, VerdictsDiffer DEF Idle
  <2>5. Buffered(c, s)
    BY <1>2, <2>3 DEF Judged, Buffered
  <2> QED BY <1>2, <2>1, <2>3, <2>4, <2>5 DEF Judged, Idle, c
<1>3. CASE ~(v.overflow \/ IsRejected(v.result)) /\ v.rules # <<>>
  <2>1. c = Settle(v)
    BY <1>3 DEF Finalize
  <2>2. /\ Judged(c, s) /\ c.rules = v.rules /\ c.all = v.all /\ c.late = v.late
        /\ c.seen = v.seen /\ ~c.overflow /\ ~c.dirty
        /\ ~v.dirty => c.scanned = v.scanned
        /\ \/ IsRejected(c.result) /\ IsRejected(c.scanned) /\ c.ready = v.ready
           \/ c.ready /\ ~IsRejected(c.result) /\ ~IsRejected(c.scanned)
    BY <1>3, <2>1, SettleJudged
  <2> HIDE DEF c
  <2> QED BY <1>3, <2>2 DEF c
<1> QED BY <1>1, <1>2, <1>3

\* The audit only adds to the record.
LEMMA AuditJudged ==
    ASSUME NEW v, NEW s, Judged(v, s)
    PROVE  LET c == Audit(v) IN
           /\ Judged(c, s) /\ c.rules = v.rules /\ c.all = v.all /\ c.seen = v.seen
           /\ c.overflow = v.overflow /\ c.ready = v.ready /\ c.dirty = v.dirty
           /\ c.result = v.result /\ c.scanned = v.scanned
BY DEF Audit, Judged, Buffered, Knows, Idle, Clean, ValidatorFields

\* A commit of what was accepted.
LEMMA CommitJudged ==
    ASSUME NEW v, NEW s, Judged(v, s), v.ready
    PROVE  LET c == Commit(v) IN
           /\ Judged(c, s) /\ c.rules = v.rules /\ c.all = v.all /\ c.seen = v.seen
           /\ c.overflow = v.overflow /\ c.ready /\ c.late = v.late
           /\ ~IsRejected(v.result) => ~IsRejected(c.result)
BY VerdictsDiffer DEF Commit, Judged, Buffered, Knows, Idle, Clean, ValidatorFields

-----------------------------------------------------------------------------
(* The gate                                                                *)

\* What a verdict on record, or none, does to the gate.
GateMoves(g, h) ==
    /\ DOMAIN h = GateFields
    /\ h.decided = g.decided /\ h.buffer = g.buffer /\ h.after = g.after
    /\ h.timer = g.timer \/ h.timer = "none"
    /\ IsRejected(g.rejection) => IsRejected(h.rejection)
    /\ g.decided = "won" => h.rejection = g.rejection
    /\ h.signal = g.signal \/ (h.signal # <<>> /\ IsRejected(Head(h.signal)))

\* OnRecord is such a move.
LEMMA OnRecordMoves ==
    ASSUME NEW g, DOMAIN g = GateFields, g.decided = gate.decided, NEW match, NEW strict
    PROVE  GateMoves(g, OnRecord(g, match, strict))
<1> DEFINE h == OnRecord(g, match, strict)
<1>1. CASE ~IsRejected(match)
  BY <1>1 DEF OnRecord, GateMoves
<1>2. CASE IsRejected(match) /\ Committed
  <2>1. h = [g EXCEPT !.late = IF strict \/ ~IsRejected(@) THEN [match EXCEPT !.late = TRUE] ELSE @]
    BY <1>2 DEF OnRecord
  <2> HIDE DEF h
  <2> QED BY <2>1 DEF GateMoves, GateFields, h
<1>3. CASE IsRejected(match) /\ ~Committed
  <2> DEFINE k == StopTimer([g EXCEPT !.rejection = match])
  <2>1. /\ DOMAIN k = GateFields /\ k.rejection = match /\ k.decided = g.decided /\ k.buffer = g.buffer
        /\ k.after = g.after /\ k.signal = g.signal /\ (k.timer = g.timer \/ k.timer = "none")
    BY DEF StopTimer, GateFields
  <2>2. h = IF k.signal = <<>> THEN [k EXCEPT !.signal = <<match>>] ELSE k
    BY <1>3 DEF OnRecord, Signal
  <2>3. Head(<<match>>) = match
    OBVIOUS
  <2> HIDE DEF h, k
  <2> QED BY <1>3, <2>1, <2>2, <2>3 DEF GateMoves, GateFields, Committed, h
<1> QED BY <1>1, <1>2, <1>3

\* Two on record.
LEMMA GateMovesOn ==
    ASSUME NEW g, NEW h, NEW k, GateMoves(g, h), GateMoves(h, k)
    PROVE  GateMoves(g, k)
BY DEF GateMoves

\* The forwarder goes on, or stops, with nothing written.
LEMMA ForwarderKeeps ==
    ASSUME GateInv, case.stream, UNCHANGED <<case, validator, runner, sent, got>>,
           forwarder.at \in {"reading", "writing"}, GateMoves(gate, gate'),
           DOMAIN forwarder' = ForwarderFields, forwarder'.at \in {"writing", "finish"},
           forwarder'.write \in Seq(Pieces)
    PROVE  GateInv'
<1> USE DEF GateInv
<1>1. GateTyped' BY DEF GateTyped, GateMoves
<1>2. ValidatorInv' BY DEF ValidatorInv, Judged, Settled, GateMoves
<1>3. ReadyInv' BY DEF ReadyInv, GateMoves
<1>4. ReleaseInv' BY DEF ReleaseInv, GateMoves
<1> QED BY <1>1, <1>2, <1>3, <1>4

\* A stopped forwarder.
LEMMA Stopped ==
    ASSUME NEW f, DOMAIN f = ForwarderFields, NEW why
    PROVE  /\ DOMAIN Stop(f, why) = ForwarderFields /\ Stop(f, why).at = "finish"
           /\ Stop(f, why).end = why /\ Stop(f, why).write = <<>> /\ Stop(f, why).write \in Seq(Pieces)
BY EmptySeq DEF Stop, ForwarderFields

\* An event.
LEMMA ReceiveKeeps ==
    ASSUME GateInv, case.stream, NEW e \in case.events, Receive(e)
    PROVE  GateInv'
<1>1. DOMAIN gate = GateFields /\ DOMAIN forwarder = ForwarderFields /\ e.pieces \in Seq(Pieces)
  BY GateAssumption DEF GateInv, GateTyped
<1>2. forwarder.at = "reading" /\ UNCHANGED <<case, validator, runner, sent, got>>
  BY DEF Receive
<1> DEFINE f == [forwarder EXCEPT !.left = @ - 1, !.over = e.terminal,
                                  !.positive = @ \/ e.positive,
                                  !.last = IF e.declares = "none" THEN @ ELSE e.declares]
<1>3. DOMAIN f = ForwarderFields
  BY <1>1 DEF ForwarderFields
<1>4. PICK byModel, byUsage, byRules, why :
        \/ gate' = OnRecord(gate, byRules, FALSE) /\ forwarder' = Stop(f, why)
        \/ gate' = OnRecord(gate, byModel, FALSE) /\ forwarder' = Stop(f, why)
        \/ /\ gate' = OnRecord(OnRecord(gate, byModel, FALSE), byUsage, TRUE)
           /\ forwarder' = Stop(f, why) \/ forwarder' = [f EXCEPT !.at = "writing", !.write = e.pieces]
  BY DEF Receive
<1>5. GateMoves(gate, gate')
  <2>1. \A m, strict : GateMoves(gate, OnRecord(gate, m, strict))
    BY <1>1, OnRecordMoves
  <2>2. GateMoves(OnRecord(gate, byModel, FALSE), OnRecord(OnRecord(gate, byModel, FALSE), byUsage, TRUE))
    BY <2>1, OnRecordMoves DEF GateMoves
  <2>3. GateMoves(gate, OnRecord(OnRecord(gate, byModel, FALSE), byUsage, TRUE))
    BY <2>1, <2>2, GateMovesOn
  <2> QED BY <1>4, <2>1, <2>3
<1>6. /\ DOMAIN forwarder' = ForwarderFields /\ forwarder'.at \in {"writing", "finish"}
      /\ forwarder'.write \in Seq(Pieces)
  <2> HIDE DEF f
  <2>1. CASE forwarder' = Stop(f, why)
    BY <1>3, <2>1, Stopped
  <2>2. CASE forwarder' = [f EXCEPT !.at = "writing", !.write = e.pieces]
    BY <1>1, <1>3, <2>2 DEF ForwarderFields
  <2> QED BY <1>4, <2>1, <2>2
<1> QED BY <1>2, <1>5, <1>6, ForwarderKeeps

\* The upstream's end.
LEMMA EndOfFileKeeps ==
    ASSUME GateInv, case.stream, EndOfFile
    PROVE  GateInv'
<1>1. DOMAIN gate = GateFields /\ DOMAIN forwarder = ForwarderFields
  BY DEF GateInv, GateTyped
<1>2. forwarder.at = "reading" /\ UNCHANGED <<case, validator, runner, sent, got>>
  BY DEF EndOfFile
<1>3. PICK byUsage, why : gate' = OnRecord(gate, byUsage, TRUE) /\ forwarder' = Stop(forwarder, why)
  BY DEF EndOfFile
<1>4. GateMoves(gate, gate')
  BY <1>1, <1>3, OnRecordMoves
<1>5. DOMAIN forwarder' = ForwarderFields /\ forwarder'.at = "finish" /\ forwarder'.write \in Seq(Pieces)
  BY <1>1, <1>3, Stopped
<1> QED BY <1>2, <1>4, <1>5, ForwarderKeeps

\* The context is cancelled, or the gate has lost.
LEMMA StopKeeps ==
    ASSUME GateInv, case.stream, ReadCanceled \/ WriteLost
    PROVE  GateInv'
<1>1. DOMAIN gate = GateFields /\ DOMAIN forwarder = ForwarderFields
  BY DEF GateInv, GateTyped
<1>2. PICK why : /\ forwarder.at \in {"reading", "writing"} /\ forwarder' = Stop(forwarder, why)
                 /\ UNCHANGED <<case, validator, gate, runner, sent, got>>
  BY DEF ReadCanceled, WriteLost
<1>3. GateMoves(gate, gate')
  BY <1>1, <1>2 DEF GateMoves
<1>4. DOMAIN forwarder' = ForwarderFields /\ forwarder'.at = "finish" /\ forwarder'.write \in Seq(Pieces)
  BY <1>1, <1>2, Stopped
<1> QED BY <1>2, <1>3, <1>4, ForwarderKeeps

\* What a Write finds.
LEMMA WritingFinds ==
    ASSUME GateInv, case.stream, forwarder.at = "writing"
    PROVE  /\ sent \in Seq(Pieces) /\ forwarder.write \in Seq(Pieces)
           /\ Judged(validator, sent) /\ ~validator.overflow /\ ~IsRejected(validator.late)
           /\ validator.ready => validator.rules = <<>> \/ validator.seen > 0
BY DEF GateInv, GateTyped, ValidatorInv, Judged, Buffered

\* A Write on a committed gate.
LEMMA WriteThroughKeeps ==
    ASSUME GateInv, case.stream, WriteThrough
    PROVE  GateInv'
<1> DEFINE v == validator
           c == Consume(validator, forwarder.write)
           s == IF c.overflow THEN sent ELSE sent \o forwarder.write
<1>1. forwarder.at = "writing" /\ gate.decided = "won" /\ case' = case /\ runner' = runner /\ validator' = c
  BY DEF WriteThrough, Committed
<1>2. v.ready /\ ~IsRejected(v.result) /\ got = sent /\ gate.after <= 1 /\ ~IsRejected(gate.rejection)
  BY <1>1 DEF GateInv, ReleaseInv
<1>3. /\ c.rules = v.rules /\ c.all = v.all /\ c.late = v.late /\ Judged(c, s)
      /\ ~c.overflow /\ c.ready /\ c.result = v.result /\ c.seen = v.seen
  BY <1>1, <1>2, WritingFinds, ConsumeJudged
<1>4. /\ DOMAIN gate' = GateFields /\ gate'.decided = gate.decided /\ gate'.rejection = gate.rejection
      /\ gate'.buffer = gate.buffer /\ gate'.signal = gate.signal /\ gate'.timer = gate.timer
      /\ gate'.after = gate.after
  BY DEF WriteThrough, GateInv, GateTyped, GateFields
<1>5. /\ DOMAIN forwarder' = ForwarderFields /\ forwarder'.at = "reading" /\ forwarder'.write = <<>>
      /\ forwarder'.end = forwarder.end
  BY DEF WriteThrough, GateInv, GateTyped, ForwarderFields
<1>6. got' = got \o forwarder.write /\ sent' = sent \o forwarder.write
  BY DEF WriteThrough
<1>7. got' = sent' /\ sent' \in Seq(Pieces) /\ Judged(validator', sent')
  <2>1. sent \o forwarder.write \in Seq(Pieces)
    BY <1>1, WritingFinds, ConcatProperties
  <2> QED BY <1>1, <1>2, <1>3, <1>6, <2>1
<1> HIDE DEF c, s
<1>8. GateTyped'
  BY <1>1, <1>4, <1>5, <1>7, EmptySeq DEF GateInv, GateTyped
<1>9. ValidatorInv'
  <2>1. c.rules = <<>> \/ c.seen # 0
    BY <1>1, <1>2, <1>3, WritingFinds
  <2>2. gate.timer \in {"armed", "firing"} => c.seen > 0
    BY <1>3 DEF GateInv, ValidatorInv
  <2>3. ~IsRejected(c.late)
    BY <1>1, <1>3, WritingFinds
  <2> QED BY <1>1, <1>3, <1>4, <1>5, <1>7, <2>1, <2>2, <2>3 DEF ValidatorInv
<1>10. ReadyInv'
  BY <1>1, <1>3, <1>4, <1>5 DEF GateInv, ReadyInv
<1>11. ReleaseInv'
  BY <1>1, <1>2, <1>3, <1>4, <1>7 DEF ReleaseInv
<1> QED BY <1>1, <1>8, <1>9, <1>10, <1>11 DEF GateInv

\* A Write that does not fit.
LEMMA WriteOverLimitKeeps ==
    ASSUME GateInv, case.stream, WriteOverLimit
    PROVE  GateInv'
<1> DEFINE v == validator
           c == validator'
<1>1. /\ forwarder.at = "writing" /\ gate.decided \in {"no", "failed"}
      /\ UNCHANGED <<case, runner, sent, got>>
  BY DEF WriteOverLimit
<1>2. /\ c.rules = v.rules /\ c.all = v.all /\ c.late = v.late /\ Judged(c, sent)
      /\ c.overflow \/ c = v
      /\ (c.ready <=> v.ready) /\ (v.seen > 0 => c.seen > 0)
  <2>1. CASE validator' = validator
    BY <1>1, <2>1, WritingFinds
  <2>2. CASE validator' = Consume(validator, forwarder.write) /\ validator'.overflow
    <3>1. /\ c.rules = v.rules /\ c.all = v.all /\ c.late = v.late /\ Judged(c, sent) /\ ~v.ready
          /\ v.seen > 0 => c.seen > 0
      BY <1>1, <2>2, WritingFinds, ConsumeJudged
    <3>2. ~c.ready
      BY <2>2, <3>1 DEF Judged, Buffered
    <3> QED BY <2>2, <3>1, <3>2
  <2> QED BY <2>1, <2>2 DEF WriteOverLimit
<1>3. /\ DOMAIN gate' = GateFields /\ gate'.decided = gate.decided /\ gate'.rejection = gate.rejection
      /\ gate'.buffer = gate.buffer /\ gate'.signal = gate.signal /\ gate'.after = gate.after
      /\ gate'.timer \in {"armed", "firing"} => gate.timer \in {"armed", "firing"}
  BY DEF WriteOverLimit, StopTimer, GateInv, GateTyped, GateFields
<1>4. /\ DOMAIN forwarder' = ForwarderFields /\ forwarder'.at = "finish" /\ forwarder'.end = "error"
      /\ forwarder'.write \in Seq(Pieces)
  BY Stopped DEF WriteOverLimit, GateInv, GateTyped
<1>5. GateTyped'
  BY <1>1, <1>3, <1>4 DEF GateInv, GateTyped
<1>6. ValidatorInv'
  <2>1. gate.decided = "no" => Settled(validator', "finish")
    BY <1>1, <1>2, WritingFinds DEF GateInv, ValidatorInv, Settled, Judged, Buffered
  <2>2. ~(c.rules # <<>> /\ c.ready /\ c.seen = 0)
    BY <1>1, <1>2, WritingFinds DEF Judged, Buffered
  <2> QED BY <1>1, <1>2, <1>3, <1>4, <2>1, <2>2, WritingFinds DEF GateInv, ValidatorInv
<1>7. ReadyInv'
  BY <1>1, <1>2, <1>3, <1>4 DEF GateInv, ReadyInv
<1>8. ReleaseInv'
  BY <1>1, <1>3, <1>4 DEF GateInv, ReleaseInv
<1> QED BY <1>1, <1>5, <1>6, <1>7, <1>8 DEF GateInv

\* The verdict of a validator whose audit is still to come.
LEMMA VerdictNow ==
    ASSUME NEW c, ~IsRejected(c.late)
    PROVE  Current(c) = IF IsRejected(c.result) THEN c.result ELSE IF c.ready THEN Accepted ELSE Pending
BY DEF Current

\* A verdict is signalled once.
LEMMA Signals ==
    ASSUME NEW g, DOMAIN g = GateFields, NEW r
    PROVE  LET h == Signal(StopTimer(g), r) IN
           /\ DOMAIN h = GateFields /\ h.decided = g.decided /\ h.rejection = g.rejection
           /\ h.buffer = g.buffer /\ h.after = g.after
           /\ h.timer \in {"armed", "firing"} => g.timer \in {"armed", "firing"}
           /\ h.signal # <<>>
           /\ g.signal # <<>> => h.signal = g.signal
           /\ g.signal = <<>> => Head(h.signal) = r
<1> DEFINE k == StopTimer(g)
           h == Signal(k, r)
<1>1. /\ DOMAIN k = GateFields /\ k.decided = g.decided /\ k.rejection = g.rejection /\ k.buffer = g.buffer
      /\ k.after = g.after /\ k.signal = g.signal
      /\ k.timer \in {"armed", "firing"} => g.timer \in {"armed", "firing"}
  BY DEF StopTimer, GateFields
<1>2. h = IF k.signal = <<>> THEN [k EXCEPT !.signal = <<r>>] ELSE k
  BY DEF Signal
<1>3. <<r>> # <<>> /\ Head(<<r>>) = r
  OBVIOUS
<1> HIDE DEF h, k
<1> QED BY <1>1, <1>2, <1>3 DEF GateFields, h, k

\* A Write before the decision.
LEMMA WriteHeldKeeps ==
    ASSUME GateInv, case.stream, WriteHeld
    PROVE  GateInv'
<1> DEFINE v == validator
           c == Consume(validator, forwarder.write)
           held == [gate EXCEPT !.buffer = @ \o forwarder.write,
                                !.after = @ + (IF validator.ready THEN 1 ELSE 0)]
           s == sent \o forwarder.write
<1>1. /\ forwarder.at = "writing" /\ gate.decided \in {"no", "failed"} /\ ~c.overflow
      /\ validator' = c /\ sent' = s /\ UNCHANGED <<case, runner, got>>
  BY DEF WriteHeld
<1>2. \/ /\ IsRejected(Current(c)) /\ ~Current(c).late
         /\ gate' = Signal(StopTimer([gate EXCEPT !.rejection = Current(c)]), Current(c))
         /\ forwarder' = Stop(forwarder, "rejected")
      \/ /\ ~IsRejected(Current(c)) /\ c.ready
         /\ gate' = Signal(StopTimer(held), Accepted)
         /\ forwarder' = [forwarder EXCEPT !.at = "parked", !.write = <<>>]
      \/ /\ ~IsRejected(Current(c)) /\ ~c.ready
         /\ gate' = StartTimer(held, c, forwarder.write)
         /\ forwarder' = [forwarder EXCEPT !.at = "reading", !.write = <<>>]
  BY DEF WriteHeld
<1>3. /\ c.rules = v.rules /\ c.all = v.all /\ c.late = v.late /\ Judged(c, s)
      /\ v.ready => c.ready /\ c.result = v.result /\ c.scanned = v.scanned /\ c.seen = v.seen
      /\ v.seen > 0 => c.seen > 0
      /\ ~v.ready /\ c.ready =>
           c.seen > 0 /\ ~c.dirty /\ ~IsRejected(c.result) /\ ~IsRejected(c.scanned)
  BY <1>1, WritingFinds, ConsumeJudged
<1>4. /\ DOMAIN gate = GateFields /\ DOMAIN forwarder = ForwarderFields /\ gate.buffer \in Seq(Pieces)
      /\ gate.after \in Nat /\ case \in GateScenarios /\ got \in Seq(Pieces)
  BY DEF GateInv, GateTyped
<1>5. s \in Seq(Pieces)
  BY <1>1, WritingFinds, ConcatProperties
<1>6. /\ c.ready /\ gate.decided = "no" =>
           ~IsRejected(c.result) /\ (~c.dirty => ~IsRejected(c.scanned))
      /\ c.ready /\ c.seen = 0 => c.rules = <<>>
      /\ gate.timer \in {"armed", "firing"} => c.seen > 0
      /\ ~IsRejected(c.late)
  <2>1. v.ready /\ gate.decided = "no" => ~IsRejected(v.result) /\ ~v.dirty /\ ~IsRejected(v.scanned)
    BY <1>1 DEF GateInv, ValidatorInv, Settled
  <2>2. v.ready /\ v.seen = 0 => v.rules = <<>>
    BY <1>1 DEF GateInv, ValidatorInv
  <2>3. gate.timer \in {"armed", "firing"} => v.seen > 0
    BY DEF GateInv, ValidatorInv
  <2>4. ~IsRejected(v.late)
    BY <1>1, WritingFinds
  <2> HIDE DEF c
  <2>5. c.ready /\ c.seen = 0 => c.rules = <<>>
    <3>1. CASE v.ready BY <1>3, <2>2, <3>1
    <3>2. CASE ~v.ready BY <1>3, <3>2
    <3> QED BY <3>1, <3>2
  <2> QED BY <1>3, <2>1, <2>3, <2>4, <2>5
<1>7. Current(c) = IF IsRejected(c.result) THEN c.result ELSE IF c.ready THEN Accepted ELSE Pending
  BY <1>6, VerdictNow
<1>8. gate.decided = "no" => got = <<>> /\ gate.after = 0 /\ (~IsRejected(gate.rejection) => gate.buffer = sent)
  BY <1>1 DEF GateInv, ReleaseInv
<1>9. gate.decided # "won" /\ got = <<>>
  BY <1>1 DEF GateInv, ReleaseInv
<1>10. /\ DOMAIN held = GateFields /\ held.buffer = gate.buffer \o forwarder.write /\ held.buffer \in Seq(Pieces)
       /\ held.after = gate.after + (IF v.ready THEN 1 ELSE 0) /\ held.after \in Nat
       /\ held.decided = gate.decided /\ held.rejection = gate.rejection /\ held.signal = gate.signal
       /\ held.timer = gate.timer
  <2>1. gate.buffer \o forwarder.write \in Seq(Pieces)
    BY <1>1, <1>4, WritingFinds, ConcatProperties
  <2> QED BY <1>4, <2>1 DEF GateFields
<1>11. gate.signal # <<>> => IsRejected(Head(gate.signal)) \/ c.ready
  BY <1>1, <1>3 DEF GateInv, ReadyInv
<1>12. runner = "ready" => c.ready \/ gate.decided # "no"
  BY <1>3 DEF GateInv, ReadyInv
<1> HIDE DEF c, held, s
<1>13. ASSUME IsRejected(Current(c)),
              gate' = Signal(StopTimer([gate EXCEPT !.rejection = Current(c)]), Current(c)),
              forwarder' = Stop(forwarder, "rejected")
       PROVE  GateInv'
  <2> DEFINE g == [gate EXCEPT !.rejection = Current(c)]
  <2>1. /\ DOMAIN g = GateFields /\ g.rejection = Current(c) /\ g.decided = gate.decided /\ g.timer = gate.timer
        /\ g.buffer = gate.buffer /\ g.after = gate.after /\ g.signal = gate.signal
    BY <1>4 DEF GateFields
  <2>2. gate' = Signal(StopTimer(g), Current(c))
    BY <1>13
  <2> HIDE DEF g
  <2>3. /\ DOMAIN gate' = GateFields /\ gate'.decided = gate.decided /\ gate'.rejection = Current(c)
        /\ gate'.buffer = gate.buffer /\ gate'.after = gate.after
        /\ gate'.timer \in {"armed", "firing"} => gate.timer \in {"armed", "firing"}
        /\ IsRejected(Head(gate'.signal)) \/ c.ready
    BY <1>11, <1>13, <2>1, <2>2, Signals
  <2>4. DOMAIN forwarder' = ForwarderFields /\ forwarder'.at = "finish" /\ forwarder'.write \in Seq(Pieces)
    BY <1>4, <1>13, Stopped
  <2>5. IsRejected(c.result)
    BY <1>7, <1>13, VerdictsDiffer
  <2>6. GateTyped'
    BY <1>1, <1>4, <1>5, <2>3, <2>4 DEF GateTyped
  <2>7. ValidatorInv'
    <3>1. gate.decided = "no" => ~c.ready
      BY <1>6, <2>5
    <3> QED BY <1>1, <1>3, <1>6, <2>3, <2>4, <3>1 DEF ValidatorInv, Settled
  <2>8. ReadyInv'
    BY <1>1, <1>12, <2>3, <2>4 DEF ReadyInv
  <2>9. ReleaseInv'
    BY <1>1, <1>8, <1>9, <1>13, <2>3, <2>4 DEF ReleaseInv
  <2> QED BY <1>1, <2>6, <2>7, <2>8, <2>9 DEF GateInv
<1>14. ASSUME ~IsRejected(Current(c)), c.ready,
              gate' = Signal(StopTimer(held), Accepted),
              forwarder' = [forwarder EXCEPT !.at = "parked", !.write = <<>>]
       PROVE  GateInv'
  <2>3. /\ DOMAIN gate' = GateFields /\ gate'.decided = gate.decided /\ gate'.rejection = gate.rejection
        /\ gate'.buffer = held.buffer /\ gate'.after = held.after
        /\ gate'.timer \in {"armed", "firing"} => gate.timer \in {"armed", "firing"}
    <3>1. /\ DOMAIN held = GateFields /\ held.decided = gate.decided /\ held.rejection = gate.rejection
          /\ held.timer = gate.timer
      BY <1>10
    <3>2. gate' = Signal(StopTimer(held), Accepted)
      BY <1>14
    <3> QED BY <3>1, <3>2, Signals
  <2>4. DOMAIN forwarder' = ForwarderFields /\ forwarder'.at = "parked" /\ forwarder'.write \in Seq(Pieces)
    BY <1>4, <1>14, EmptySeq DEF ForwarderFields
  <2>6. GateTyped'
    BY <1>1, <1>4, <1>5, <1>10, <2>3, <2>4 DEF GateTyped
  <2>7. ValidatorInv'
    BY <1>1, <1>3, <1>6, <2>3, <2>4 DEF ValidatorInv, Settled
  <2>8. ReadyInv'
    BY <1>1, <1>14, <2>3, <2>4 DEF ReadyInv
  <2>9. ReleaseInv'
    <3>1. gate.decided = "no" => held.after \in {0, 1} /\ (~IsRejected(gate.rejection) => held.buffer = s)
      <4>1. gate.decided = "no" => held.after = IF v.ready THEN 1 ELSE 0
        BY <1>4, <1>8, <1>10
      <4>2. gate.decided = "no" /\ ~IsRejected(gate.rejection) => held.buffer = s
        BY <1>8, <1>10 DEF s
      <4> QED BY <4>1, <4>2
    <3> QED BY <1>1, <1>8, <1>9, <2>3, <2>4, <3>1 DEF ReleaseInv
  <2> QED BY <1>1, <2>6, <2>7, <2>8, <2>9 DEF GateInv
<1>15. ASSUME ~IsRejected(Current(c)), ~c.ready,
              gate' = StartTimer(held, c, forwarder.write),
              forwarder' = [forwarder EXCEPT !.at = "reading", !.write = <<>>]
       PROVE  GateInv'
  <2>1. ~v.ready
    BY <1>3, <1>15
  <2>2. c.eligible => c.seen > 0
    BY <1>3 DEF Judged, Buffered
  <2>3. /\ DOMAIN gate' = GateFields /\ gate'.decided = gate.decided /\ gate'.rejection = gate.rejection
        /\ gate'.buffer = held.buffer /\ gate'.after = gate.after /\ gate'.signal = gate.signal
        /\ gate'.timer \in {"armed", "firing"} => gate.timer \in {"armed", "firing"} \/ c.seen > 0
    <3>1. held.after = gate.after
      BY <1>4, <1>10, <2>1
    <3>2. CASE gate' = [held EXCEPT !.timer = "armed"] /\ c.eligible
      BY <1>10, <2>2, <3>1, <3>2 DEF GateFields
    <3>3. CASE gate' = held
      BY <1>10, <3>1, <3>3
    <3> QED BY <1>15, <3>2, <3>3 DEF StartTimer
  <2>4. DOMAIN forwarder' = ForwarderFields /\ forwarder'.at = "reading" /\ forwarder'.write \in Seq(Pieces)
    BY <1>4, <1>15, EmptySeq DEF ForwarderFields
  <2>6. GateTyped'
    BY <1>1, <1>4, <1>5, <1>10, <2>3, <2>4 DEF GateTyped
  <2>7. ValidatorInv'
    BY <1>1, <1>3, <1>6, <1>15, <2>3, <2>4 DEF ValidatorInv, Settled
  <2>8. ReadyInv'
    BY <1>1, <1>11, <1>12, <1>15, <2>3, <2>4 DEF ReadyInv
  <2>9. ReleaseInv'
    <3>1. gate.decided = "no" => (~IsRejected(gate.rejection) => held.buffer = s)
      BY <1>8, <1>10 DEF s
    <3> QED BY <1>1, <1>8, <1>9, <2>3, <2>4, <3>1 DEF ReleaseInv
  <2> QED BY <1>1, <2>6, <2>7, <2>8, <2>9 DEF GateInv
<1> QED BY <1>2, <1>13, <1>14, <1>15

\* The parked Write goes on.
LEMMA UnparkKeeps ==
    ASSUME GateInv, case.stream, Unpark
    PROVE  GateInv'
<1>1. /\ forwarder.at = "parked" /\ gate.decided # "no"
      /\ UNCHANGED <<case, validator, gate, runner, sent, got>>
  BY DEF Unpark
<1>2. /\ DOMAIN forwarder' = ForwarderFields /\ forwarder'.at \in {"reading", "finish"}
      /\ forwarder'.write \in Seq(Pieces)
  <2>1. DOMAIN forwarder = ForwarderFields /\ forwarder.write \in Seq(Pieces)
    BY DEF GateInv, GateTyped
  <2>2. PICK why : forwarder' = [forwarder EXCEPT !.at = "reading"] \/ forwarder' = Stop(forwarder, why)
    BY DEF Unpark
  <2>3. CASE forwarder' = [forwarder EXCEPT !.at = "reading"]
    BY <2>1, <2>3 DEF ForwarderFields
  <2>4. CASE forwarder' = Stop(forwarder, why)
    BY <2>1, <2>4, Stopped
  <2> QED BY <2>2, <2>3, <2>4
<1>3. GateTyped' BY <1>1, <1>2 DEF GateInv, GateTyped
<1>4. ValidatorInv' BY <1>1, <1>2 DEF GateInv, ValidatorInv, Judged
<1>5. ReadyInv' BY <1>1, <1>2 DEF GateInv, ReadyInv
<1>6. ReleaseInv' BY <1>1, <1>2 DEF GateInv, ReleaseInv
<1> QED BY <1>1, <1>3, <1>4, <1>5, <1>6 DEF GateInv

\* What Finish does, with the validator settled and audited and the verdict.
Finishes(settled, audited, verdict, late) ==
    /\ settled = IF IsRejected(gate.rejection) \/ Committed THEN validator ELSE Finalize(validator)
    /\ audited = IF IsRejected(gate.rejection) THEN settled ELSE Audit(settled)
    /\ verdict = IF settled.overflow THEN Pending ELSE Current(settled)
    /\ validator' = audited
    /\ \/ IsRejected(gate.rejection) /\ gate' = gate
       \/ ~IsRejected(gate.rejection) /\ Committed /\ gate' = [gate EXCEPT !.late = late]
       \/ /\ ~IsRejected(gate.rejection) /\ ~Committed
          /\ gate' = Signal(StopTimer([gate EXCEPT !.late = late,
                         !.rejection = IF IsRejected(verdict) THEN verdict ELSE @]), verdict)
    /\ forwarder' = [forwarder EXCEPT !.at = "done",
                         !.end = IF IsRejected(gate'.rejection) THEN "rejected" ELSE @]

\* The last look and the audit.
LEMMA FinishKeeps ==
    ASSUME GateInv, case.stream, Finish
    PROVE  GateInv'
<1> DEFINE v == validator
           skip == IsRejected(gate.rejection)
<1>1. /\ forwarder.at = "finish" /\ UNCHANGED <<case, runner, sent, got>>
  BY DEF Finish
<1>2. \E settled, audited, verdict, late : Finishes(settled, audited, verdict, late)
  <2>1. PICK settled \in {IF skip \/ Committed THEN v ELSE Finalize(v)} :
        \E audited \in {IF IsRejected(gate.rejection) THEN settled ELSE Audit(settled)},
           verdict \in {IF settled.overflow THEN Pending ELSE Current(settled)} :
        LET late == IF IsRejected(audited.late) THEN audited.late ELSE gate.late
        IN /\ validator' = audited
           /\ gate' = CASE IsRejected(gate.rejection) -> gate
                        [] ~IsRejected(gate.rejection) /\ Committed -> [gate EXCEPT !.late = late]
                        [] OTHER -> Signal(StopTimer([gate EXCEPT !.late = late,
                                        !.rejection = IF IsRejected(verdict) THEN verdict ELSE @]), verdict)
           /\ forwarder' = [forwarder EXCEPT !.at = "done",
                              !.end = IF IsRejected(gate'.rejection) THEN "rejected" ELSE @]
    BY DEF Finish
  <2>2. PICK audited, verdict, late :
           /\ audited = IF skip THEN settled ELSE Audit(settled)
           /\ verdict = IF settled.overflow THEN Pending ELSE Current(settled)
           /\ validator' = audited
           /\ gate' = CASE skip -> gate
                        [] ~skip /\ Committed -> [gate EXCEPT !.late = late]
                        [] OTHER -> Signal(StopTimer([gate EXCEPT !.late = late,
                                        !.rejection = IF IsRejected(verdict) THEN verdict ELSE @]), verdict)
           /\ forwarder' = [forwarder EXCEPT !.at = "done",
                              !.end = IF IsRejected(gate'.rejection) THEN "rejected" ELSE @]
    BY <2>1
  <2>3. \/ skip /\ gate' = gate
        \/ ~skip /\ Committed /\ gate' = [gate EXCEPT !.late = late]
        \/ /\ ~skip /\ ~Committed
           /\ gate' = Signal(StopTimer([gate EXCEPT !.late = late,
                          !.rejection = IF IsRejected(verdict) THEN verdict ELSE @]), verdict)
    BY <2>2
  <2> QED BY <2>1, <2>2, <2>3 DEF Finishes
<1>2a. PICK settled, audited, verdict, late : Finishes(settled, audited, verdict, late)
  BY <1>2
<1>3. /\ DOMAIN gate = GateFields /\ DOMAIN forwarder = ForwarderFields /\ forwarder.write \in Seq(Pieces)
      /\ sent \in Seq(Pieces)
  BY DEF GateInv, GateTyped
<1>4. /\ Judged(v, sent) /\ ~IsRejected(v.late) /\ (v.overflow => forwarder.end \in {"error", "rejected"})
      /\ gate.decided = "no" /\ v.ready =>
           ~v.dirty /\ ~IsRejected(v.result) /\ ~IsRejected(v.scanned)
      /\ gate.timer \in {"armed", "firing"} => v.seen > 0
  BY <1>1 DEF GateInv, ValidatorInv, Settled
<1>5. /\ Judged(settled, sent) /\ (settled.overflow <=> v.overflow) /\ settled.seen = v.seen
      /\ settled.late = v.late /\ (v.ready => settled.ready)
      /\ skip \/ Committed => settled = v
      /\ ~skip /\ ~Committed /\ ~settled.overflow => settled.ready \/ IsRejected(settled.result)
      /\ gate.decided = "no" /\ settled.ready =>
           ~settled.dirty /\ ~IsRejected(settled.result) /\ ~IsRejected(settled.scanned)
  <2>1. CASE skip \/ Committed
    BY <1>2a, <1>4, <2>1 DEF Finishes
  <2>2. CASE ~(skip \/ Committed)
    <3>1. settled = Finalize(v)
      BY <1>2a, <2>2 DEF Finishes
    <3> QED BY <1>3, <1>4, <2>2, <3>1, FinalizeJudged
  <2> QED BY <2>1, <2>2
<1>6. /\ Judged(audited, sent) /\ audited.overflow = settled.overflow /\ audited.seen = settled.seen
      /\ audited.ready = settled.ready /\ audited.dirty = settled.dirty
      /\ audited.result = settled.result /\ audited.scanned = settled.scanned
  BY <1>2a, <1>5, AuditJudged DEF Finishes
<1>7. gate.decided = "no" \/ Committed \/ skip \/ gate.decided # "no"
  OBVIOUS
<1>8. /\ DOMAIN gate' = GateFields /\ gate'.decided = gate.decided
      /\ gate'.buffer = gate.buffer /\ gate'.after = gate.after
      /\ gate'.timer \in {"armed", "firing"} => gate.timer \in {"armed", "firing"}
      /\ skip \/ Committed => gate'.rejection = gate.rejection /\ gate'.signal = gate.signal
      /\ ~skip /\ ~Committed =>
           /\ IsRejected(verdict) => gate'.rejection = verdict
           /\ gate'.signal # <<>>
           /\ gate.signal # <<>> => gate'.signal = gate.signal
           /\ gate.signal = <<>> => Head(gate'.signal) = verdict
  <2>1. CASE skip
    BY <1>2a, <1>3, <2>1 DEF Finishes
  <2>2. CASE ~skip /\ Committed
    BY <1>2a, <1>3, <2>2 DEF GateFields, Finishes
  <2>3. CASE ~skip /\ ~Committed
    <3> DEFINE g == [gate EXCEPT !.late = late, !.rejection = IF IsRejected(verdict) THEN verdict ELSE @]
    <3>1. /\ DOMAIN g = GateFields /\ g.rejection = (IF IsRejected(verdict) THEN verdict ELSE gate.rejection)
          /\ g.decided = gate.decided /\ g.timer = gate.timer
          /\ g.buffer = gate.buffer /\ g.after = gate.after /\ g.signal = gate.signal
      BY <1>3 DEF GateFields
    <3>2. gate' = Signal(StopTimer(g), verdict)
      BY <1>2a, <2>3 DEF Finishes
    <3> HIDE DEF g
    <3> QED BY <2>3, <3>1, <3>2, Signals
  <2> QED BY <2>1, <2>2, <2>3
<1>9. /\ DOMAIN forwarder' = ForwarderFields /\ forwarder'.at = "done" /\ forwarder'.write = forwarder.write
      /\ IsRejected(gate'.rejection) => forwarder'.end = "rejected"
      /\ forwarder'.end = forwarder.end \/ forwarder'.end = "rejected"
  BY <1>2a, <1>3 DEF ForwarderFields, Finishes
<1>10. verdict = IF settled.overflow THEN Pending
                 ELSE IF IsRejected(settled.result) THEN settled.result
                 ELSE IF settled.ready THEN Accepted ELSE Pending
  BY <1>2a, <1>4, <1>5, VerdictNow DEF Finishes
<1>11. gate.signal # <<>> => IsRejected(Head(gate.signal)) \/ v.ready
  BY <1>1 DEF GateInv, ReadyInv
<1> HIDE DEF v, skip
<1>12. GateTyped'
  BY <1>1, <1>3, <1>8, <1>9 DEF GateInv, GateTyped
<1>13. validator' = audited
  BY <1>2a DEF Finishes
<1>14. ValidatorInv'
  BY <1>1, <1>4, <1>5, <1>6, <1>8, <1>9, <1>13 DEF ValidatorInv, Settled
<1>15. ReadyInv'
  <2>1. gate'.signal # <<>> =>
          \/ IsRejected(Head(gate'.signal)) \/ audited.ready
          \/ forwarder'.end \in {"error", "rejected"}
    BY <1>4, <1>5, <1>6, <1>8, <1>9, <1>10, <1>11
  <2>2. runner = "ready" => audited.ready \/ gate.decided # "no"
    BY <1>5, <1>6 DEF GateInv, ReadyInv, v
  <2>3. gate.decided = "no" => forwarder'.end \in {"error", "rejected"} \/ audited.ready
    BY <1>4, <1>5, <1>6, <1>8, <1>9, <1>10 DEF Committed, skip
  <2> QED BY <1>1, <1>8, <1>9, <1>13, <2>1, <2>2, <2>3 DEF ReadyInv
<1>16. ReleaseInv'
  <2>1. gate.decided = "won" => ~skip /\ audited.ready /\ ~IsRejected(audited.result)
    BY <1>5, <1>6 DEF GateInv, ReleaseInv, Committed, skip, v
  <2>2. ~IsRejected(gate'.rejection) => ~skip
    BY <1>8 DEF skip
  <2> QED BY <1>1, <1>8, <1>9, <1>13, <2>1, <2>2 DEF GateInv, ReleaseInv, Committed, skip
<1> QED BY <1>1, <1>12, <1>14, <1>15, <1>16 DEF GateInv

-----------------------------------------------------------------------------
(* The timer                                                               *)

\* The window passes.
LEMMA WindowPassesKeeps ==
    ASSUME GateInv, case.stream, WindowPasses
    PROVE  GateInv'
<1>1. UNCHANGED <<case, validator, forwarder, runner, sent, got>> /\ gate.timer = "armed"
  BY DEF WindowPasses
<1>2. /\ DOMAIN gate' = GateFields /\ gate'.decided = gate.decided /\ gate'.rejection = gate.rejection
      /\ gate'.buffer = gate.buffer /\ gate'.signal = gate.signal /\ gate'.after = gate.after
  BY DEF WindowPasses, GateInv, GateTyped, GateFields
<1>3. GateTyped' BY <1>1, <1>2 DEF GateInv, GateTyped
<1>4. ValidatorInv' BY <1>1, <1>2 DEF GateInv, ValidatorInv, Judged
<1>5. ReadyInv' BY <1>1, <1>2 DEF GateInv, ReadyInv
<1>6. ReleaseInv' BY <1>1, <1>2 DEF GateInv, ReleaseInv
<1> QED BY <1>1, <1>3, <1>4, <1>5, <1>6 DEF GateInv

\* What the timer does when it has the mutex, with the verdict r.
Fires(idle, v, r) ==
    /\ gate.timer = "firing"
    /\ idle = (gate.decided # "no" \/ IsRejected(gate.rejection))
    /\ v = IF idle THEN validator ELSE AfterWindow(validator)
    /\ r = IF v.overflow THEN Pending ELSE Current(v)
    /\ validator' = v
    /\ \/ (idle \/ r = Pending) /\ gate' = [gate EXCEPT !.timer = "fired"]
       \/ /\ ~idle /\ r # Pending
          /\ gate' = Signal([gate EXCEPT !.timer = "fired",
                                         !.rejection = IF IsRejected(r) THEN r ELSE @], r)

\* The timer fires.
LEMMA TimerFiresKeeps ==
    ASSUME GateInv, case.stream, TimerFires
    PROVE  GateInv'
<1>1. UNCHANGED <<case, forwarder, runner, sent, got>>
  BY DEF TimerFires
<1>2. \E idle, v, r : Fires(idle, v, r)
  BY DEF TimerFires, Fires
<1>3. PICK idle, v, r : Fires(idle, v, r)
  BY <1>2
<1>4. /\ DOMAIN gate = GateFields /\ sent \in Seq(Pieces)
      /\ Judged(validator, sent) /\ validator.seen > 0
      /\ gate.decided = "no" => Settled(validator, forwarder.at)
  BY <1>3 DEF GateInv, GateTyped, ValidatorInv, Fires
<1>5. /\ Judged(v, sent) /\ (v.overflow <=> validator.overflow)
      /\ v.seen = validator.seen /\ v.late = validator.late /\ v.rules = validator.rules
      /\ validator.ready => v = validator
      /\ idle => v = validator
      /\ ~validator.ready /\ v.ready => ~v.dirty /\ ~IsRejected(v.result) /\ ~IsRejected(v.scanned)
  <2>1. CASE idle
    BY <1>3, <1>4, <2>1 DEF Fires
  <2>2. CASE ~idle
    BY <1>3, <1>4, <2>2, AfterWindowJudged DEF Fires
  <2> QED BY <2>1, <2>2
<1>6. gate.decided = "no" => Settled(v, forwarder.at)
  BY <1>4, <1>5 DEF Settled
<1>7. r = Pending \/ IsRejected(r) \/ v.ready
  BY <1>3 DEF Fires, Current
<1>8. /\ DOMAIN gate' = GateFields /\ gate'.decided = gate.decided
      /\ gate'.buffer = gate.buffer /\ gate'.after = gate.after /\ gate'.timer = "fired"
      /\ gate'.rejection = gate.rejection \/ (IsRejected(gate'.rejection) /\ gate.decided = "no")
      /\ IsRejected(gate.rejection) => gate'.rejection = gate.rejection
      /\ gate'.signal = gate.signal \/ (gate'.signal # <<>> /\ Head(gate'.signal) = r /\ r # Pending)
  <2>1. CASE idle \/ r = Pending
    BY <1>3, <1>4, <2>1 DEF Fires, GateFields
  <2>2. CASE ~(idle \/ r = Pending)
    <3> DEFINE g == [gate EXCEPT !.timer = "fired", !.rejection = IF IsRejected(r) THEN r ELSE @]
    <3>1. /\ DOMAIN g = GateFields /\ g.decided = gate.decided /\ g.timer = "fired"
          /\ g.rejection = (IF IsRejected(r) THEN r ELSE gate.rejection)
          /\ g.buffer = gate.buffer /\ g.after = gate.after /\ g.signal = gate.signal
      BY <1>4 DEF GateFields
    <3>2. gate' = Signal(g, r) /\ gate.decided = "no" /\ ~IsRejected(gate.rejection)
      BY <1>3, <2>2 DEF Fires
    <3> HIDE DEF g
    <3>3. CASE g.signal = <<>>
      BY <3>1, <3>2, <3>3, <2>2 DEF Signal, GateFields
    <3>4. CASE g.signal # <<>>
      BY <3>1, <3>2, <3>4 DEF Signal
    <3> QED BY <3>3, <3>4
  <2> QED BY <2>1, <2>2
<1>9. validator' = v BY <1>3 DEF Fires
<1>10. GateTyped' BY <1>1, <1>8 DEF GateInv, GateTyped
<1>11. ValidatorInv'
  BY <1>1, <1>4, <1>5, <1>6, <1>8, <1>9 DEF GateInv, ValidatorInv
<1>12. ReadyInv'
  BY <1>1, <1>5, <1>7, <1>8, <1>9 DEF GateInv, ReadyInv
<1>13. ReleaseInv'
  BY <1>1, <1>5, <1>8, <1>9 DEF GateInv, ReleaseInv
<1> QED BY <1>1, <1>10, <1>11, <1>12, <1>13 DEF GateInv

-----------------------------------------------------------------------------
(* The runner and the coordinator                                          *)

\* A verdict or a result is taken.
LEMMA TakeKeeps ==
    ASSUME GateInv, case.stream, TakeSignal \/ TakeResult
    PROVE  GateInv'
<1>1. UNCHANGED <<case, validator, forwarder, sent, got>>
  BY DEF TakeSignal, TakeResult
<1>2. gate' = gate \/ gate' = [gate EXCEPT !.signal = <<>>]
  BY DEF TakeSignal, TakeResult
<1>3. /\ DOMAIN gate' = GateFields /\ gate'.decided = gate.decided /\ gate'.rejection = gate.rejection
      /\ gate'.buffer = gate.buffer /\ gate'.after = gate.after /\ gate'.timer = gate.timer
      /\ gate'.signal = gate.signal \/ gate'.signal = <<>>
  BY <1>2 DEF GateInv, GateTyped, GateFields
<1>4. runner' = "ready" => validator.ready \/ gate.decided # "no"
  <2>1. CASE TakeSignal
    <3>1. runner' = "ready" => gate.signal # <<>> /\ ~IsRejected(Head(gate.signal))
                               /\ ~(Published /\ forwarder.end \in {"error", "rejected"})
      BY <2>1 DEF TakeSignal
    <3> QED BY <3>1 DEF GateInv, ReadyInv, Published
  <2>2. CASE TakeResult
    <3>1. runner' = "ready" => forwarder.at = "done" /\ forwarder.end \notin {"error", "rejected"}
      BY <2>2 DEF TakeResult
    <3> QED BY <3>1 DEF GateInv, ReadyInv
  <2> QED BY <2>1, <2>2
<1>5. GateTyped' BY <1>1, <1>3 DEF GateInv, GateTyped
<1>6. ValidatorInv' BY <1>1, <1>3 DEF GateInv, ValidatorInv, Judged
<1>7. ReadyInv' BY <1>1, <1>3, <1>4 DEF GateInv, ReadyInv
<1>8. ReleaseInv' BY <1>1, <1>3 DEF GateInv, ReleaseInv
<1> QED BY <1>1, <1>5, <1>6, <1>7, <1>8 DEF GateInv

\* The coordinator's choice.
LEMMA WinKeeps ==
    ASSUME GateInv, case.stream, Win
    PROVE  GateInv'
<1>1. UNCHANGED <<case, forwarder, sent>> /\ runner = "ready" /\ gate.decided = "no" /\ runner' # "ready"
  BY DEF Win
<1>2. /\ DOMAIN gate = GateFields /\ gate.buffer \in Seq(Pieces) /\ sent \in Seq(Pieces)
      /\ Judged(validator, sent) /\ validator.ready /\ ~IsRejected(validator.result) /\ got = <<>>
  BY <1>1 DEF GateInv, GateTyped, ValidatorInv, ReadyInv, ReleaseInv, Settled
<1>3. CASE IsRejected(gate.rejection) /\ UNCHANGED <<gate, got, validator>>
  <2>1. GateTyped' BY <1>1, <1>3 DEF GateInv, GateTyped
  <2>2. ValidatorInv' BY <1>1, <1>3 DEF GateInv, ValidatorInv, Judged
  <2>3. ReadyInv' BY <1>1, <1>3 DEF GateInv, ReadyInv
  <2>4. ReleaseInv' BY <1>1, <1>3 DEF GateInv, ReleaseInv
  <2> QED BY <1>1, <2>1, <2>2, <2>3, <2>4 DEF GateInv
<1>4. ASSUME NEW d \in {"won", "failed"}, ~IsRejected(gate.rejection),
             gate' = [StopTimer(gate) EXCEPT !.decided = d, !.buffer = <<>>],
             got' = IF d = "won" THEN got \o gate.buffer ELSE got,
             validator' = Commit(validator)
      PROVE  GateInv'
  <2> DEFINE c == Commit(validator)
  <2>1. /\ Judged(c, sent) /\ c.rules = validator.rules /\ c.seen = validator.seen
        /\ c.overflow = validator.overflow /\ c.ready /\ c.late = validator.late /\ ~IsRejected(c.result)
    BY <1>2, CommitJudged
  <2>2. /\ DOMAIN gate' = GateFields /\ gate'.decided = d /\ gate'.rejection = gate.rejection
        /\ gate'.buffer = <<>> /\ gate'.after = gate.after /\ gate'.signal = gate.signal
        /\ gate'.timer \in {"armed", "firing"} => gate.timer \in {"armed", "firing"}
    BY <1>2, <1>4 DEF StopTimer, GateFields
  <2>3. got' = IF d = "won" THEN sent ELSE <<>>
    BY <1>1, <1>2, <1>4 DEF GateInv, ReleaseInv
  <2> HIDE DEF c
  <2>4. validator' = c BY <1>4 DEF c
  <2>5. GateTyped' BY <1>1, <1>2, <2>2, <2>3, EmptySeq DEF GateInv, GateTyped
  <2>6. ValidatorInv' BY <1>1, <1>2, <1>4, <2>1, <2>2, <2>4 DEF GateInv, ValidatorInv
  <2>7. ReadyInv' BY <1>1, <1>4, <2>1, <2>2, <2>4 DEF GateInv, ReadyInv
  <2>8. ReleaseInv' BY <1>1, <1>4, <2>1, <2>2, <2>3, <2>4 DEF GateInv, ReleaseInv
  <2> QED BY <1>1, <2>5, <2>6, <2>7, <2>8 DEF GateInv
<1>5. \/ IsRejected(gate.rejection) /\ UNCHANGED <<gate, got, validator>>
      \/ \E d \in {"won", "failed"} :
           /\ ~IsRejected(gate.rejection)
           /\ gate' = [StopTimer(gate) EXCEPT !.decided = d, !.buffer = <<>>]
           /\ got' = IF d = "won" THEN got \o gate.buffer ELSE got
           /\ validator' = Commit(validator)
  BY DEF Win
<1> QED BY <1>3, <1>4, <1>5

\* The attempt loses.
LEMMA LoseKeeps ==
    ASSUME GateInv, case.stream, Lose
    PROVE  GateInv'
<1>1. UNCHANGED <<case, validator, forwarder, sent, got>> /\ gate.decided = "no"
  BY DEF Lose
<1>2. /\ DOMAIN gate' = GateFields /\ gate'.decided = "lost" /\ gate'.rejection = gate.rejection
      /\ gate'.buffer = <<>> /\ gate'.after = gate.after /\ gate'.signal = gate.signal
      /\ gate'.timer \in {"armed", "firing"} => gate.timer \in {"armed", "firing"}
  BY DEF Lose, GateInv, GateTyped, StopTimer, GateFields
<1>3. GateTyped' BY <1>1, <1>2, EmptySeq DEF GateInv, GateTyped
<1>4. ValidatorInv' BY <1>1, <1>2 DEF GateInv, ValidatorInv, Judged
<1>5. ReadyInv' BY <1>1, <1>2 DEF GateInv, ReadyInv
<1>6. ReleaseInv' BY <1>1, <1>2 DEF GateInv, ReleaseInv
<1> QED BY <1>1, <1>3, <1>4, <1>5, <1>6 DEF GateInv

-----------------------------------------------------------------------------
(* Every step                                                              *)

\* An answer that does not stream is judged whole.
LEMMA WholeKeeps ==
    ASSUME GateInv, ~case.stream, GateNext
    PROVE  GateInv'
<1>1. /\ gate.decided = "no" /\ gate.timer = "none" /\ gate.signal = <<>>
      /\ forwarder.at \in {"reading", "done"} /\ runner \in {"wait", "refused", "won"}
      /\ runner # "wait" => forwarder.at = "done"
  BY DEF GateInv, WholeInv
<1>2. ASSUME NEW e \in case.events, JudgeAnswer(e)
      PROVE  GateInv'
  <2>1. /\ runner = "wait" /\ ~IsRejected(gate.rejection) /\ UNCHANGED <<case, validator>>
        /\ e.pieces \in Seq(Pieces) /\ sent' = e.pieces
    BY <1>2, GateAssumption DEF JudgeAnswer, GateInv, GateTyped, WholeInv
  <2>2. PICK verdict :
          /\ gate' = [gate EXCEPT !.rejection = IF IsRejected(verdict) THEN verdict ELSE @]
          /\ runner' = IF IsRejected(verdict) THEN "refused" ELSE "won"
          /\ got' = IF IsRejected(verdict) THEN <<>> ELSE e.pieces
          /\ forwarder' = [forwarder EXCEPT !.at = "done"]
    BY <1>2 DEF JudgeAnswer
  <2>3. /\ DOMAIN gate' = GateFields /\ gate'.decided = "no" /\ gate'.timer = "none"
        /\ gate'.signal = <<>> /\ gate'.buffer = gate.buffer /\ gate'.after = gate.after
        /\ gate'.rejection = IF IsRejected(verdict) THEN verdict ELSE gate.rejection
    BY <1>1, <2>2 DEF GateInv, GateTyped, GateFields
  <2>4. DOMAIN forwarder' = ForwarderFields /\ forwarder'.at = "done" /\ forwarder'.write = forwarder.write
    BY <2>2 DEF GateInv, GateTyped, ForwarderFields
  <2>5. GateTyped' BY <2>1, <2>2, <2>3, <2>4, EmptySeq DEF GateInv, GateTyped
  <2>6. WholeInv' BY <2>1, <2>2, <2>3, <2>4 DEF WholeInv
  <2> QED BY <2>1, <2>5, <2>6 DEF GateInv
<1>3. CASE UNCHANGED gateVars
  BY <1>3 DEF gateVars, GateInv, GateTyped, WholeInv
<1>4. ~(EndOfFile /\ case.stream) /\ ~GateWrite /\ ~Unpark /\ ~Finish /\ ~WindowPasses /\ ~TimerFires
  BY <1>1 DEF GateWrite, WriteLost, WriteThrough, WriteOverLimit, WriteHeld, Unpark, Finish, WindowPasses,
              TimerFires
<1>5. ~TakeSignal /\ ~TakeResult /\ ~ReadCanceled /\ ~Win /\ ~Lose
  BY <1>1 DEF TakeSignal, TakeResult, ReadCanceled, Win, Lose
<1> QED BY <1>2, <1>3, <1>4, <1>5 DEF GateNext, AttemptOver

\* Each action keeps the invariant.
LEMMA StreamKeeps ==
    ASSUME GateInv, case.stream, GateNext
    PROVE  GateInv'
<1>1. CASE \E e \in case.events : case.stream /\ Receive(e)
  BY <1>1, ReceiveKeeps
<1>2. CASE EndOfFile
  BY <1>2, EndOfFileKeeps
<1>3. CASE GateWrite
  BY <1>3, StopKeeps, WriteThroughKeeps, WriteOverLimitKeeps, WriteHeldKeeps DEF GateWrite
<1>4. CASE Unpark \/ Finish
  BY <1>4, UnparkKeeps, FinishKeeps
<1>5. CASE WindowPasses \/ TimerFires
  BY <1>5, WindowPassesKeeps, TimerFiresKeeps
<1>6. CASE TakeSignal \/ TakeResult \/ ReadCanceled
  BY <1>6, TakeKeeps, StopKeeps
<1>7. CASE Win \/ Lose
  BY <1>7, WinKeeps, LoseKeeps
<1>8. CASE AttemptOver
  BY <1>8 DEF AttemptOver, gateVars, GateInv, GateTyped, ValidatorInv, Judged, ReadyInv, ReleaseInv
<1>9. ~(\E e \in case.events : JudgeAnswer(e))
  BY DEF JudgeAnswer
<1> QED BY <1>1, <1>2, <1>3, <1>4, <1>5, <1>6, <1>7, <1>8, <1>9 DEF GateNext

\* An attempt starts with nothing seen, held or told.
LEMMA GateStarts == GateInit => GateInv
<1> SUFFICES ASSUME GateInit PROVE GateInv
  OBVIOUS
<1>1. PICK c \in GateScenarios :
        /\ case = c /\ validator = NewStreamValidator(c.rows, c.protocol, c.model)
        /\ gate = NewGate /\ forwarder = NewForwarder(c.length)
        /\ runner = "wait" /\ sent = <<>> /\ got = <<>>
  BY DEF GateInit
<1>2. /\ Judged(validator, <<>>) /\ ~validator.overflow /\ ~validator.dirty /\ validator.seen = 0
      /\ (validator.ready => validator.rules = <<>>)
      /\ ~IsRejected(validator.late) /\ ~IsRejected(validator.scanned) /\ ~IsRejected(validator.result)
  BY <1>1, NewJudged
<1>3. /\ DOMAIN gate = GateFields /\ gate.decided = "no" /\ gate.rejection = Pending
      /\ gate.buffer = <<>> /\ gate.signal = <<>> /\ gate.timer = "none" /\ gate.after = 0
  BY <1>1 DEF NewGate, GateFields
<1>4. DOMAIN forwarder = ForwarderFields /\ forwarder.at = "reading" /\ forwarder.write = <<>>
  BY <1>1 DEF NewForwarder, ForwarderFields
<1>5. GateTyped BY <1>1, <1>3, <1>4, EmptySeq DEF GateTyped
<1>6. WholeInv BY <1>1, <1>3, <1>4, VerdictsDiffer DEF WholeInv
<1>7. ValidatorInv
  <2>1. validator.rules # <<>> => ~validator.ready BY <1>2
  <2> QED BY <1>1, <1>2, <1>3, <1>4, <2>1 DEF ValidatorInv, Settled
<1>8. ReadyInv BY <1>1, <1>3, <1>4 DEF ReadyInv
<1>9. ReleaseInv BY <1>1, <1>3, <1>4 DEF ReleaseInv
<1> QED BY <1>5, <1>6, <1>7, <1>8, <1>9 DEF GateInv

\* Of every attempt under every set of rules, every limit and every cut of the
\* stream into pieces: until it accepts, the validator knows all that came; an
\* accepted prefix is clean, nobody is told of a stream before that, and the
\* client has nothing before the choice and all that came after it.
THEOREM GateInvariant == GateSpec => []GateInv
<1>1. GateInit => GateInv
  BY GateStarts
<1>2. GateInv /\ [GateNext]_gateVars => GateInv'
  <2> SUFFICES ASSUME GateInv, [GateNext]_gateVars PROVE GateInv'
    OBVIOUS
  <2>1. CASE GateNext /\ case.stream BY <2>1, StreamKeeps
  <2>2. CASE GateNext /\ ~case.stream BY <2>2, WholeKeeps
  <2>3. CASE UNCHANGED gateVars
    BY <2>3 DEF gateVars, GateInv, GateTyped, WholeInv, ValidatorInv, Judged, ReadyInv, ReleaseInv
  <2> QED BY <2>1, <2>2, <2>3
<1> QED BY <1>1, <1>2, PTL DEF GateSpec

\* What the invariant says of a client.
LEMMA ReleasedByInvariant == GateInv => ReleasedIsJudged
<1> SUFFICES ASSUME GateInv PROVE ReleasedIsJudged
  OBVIOUS
<1>1. /\ sent \in Seq(Pieces) /\ got \in Seq(Pieces)
      /\ got = <<>> \/ got = sent
      /\ IsRejected(gate.rejection) => got = <<>>
  BY DEF GateInv, GateTyped, WholeInv, ReleaseInv
<1>2. IsPrefix(got, sent)
  BY <1>1 DEF IsPrefix
<1>3. ASSUME Committed, validator.rules # <<>>, sent # <<>>
      PROVE  /\ gate.after <= 1 /\ validator.seen > 0
             /\ validator.seen <= PrefixBytes + Ring =>
                    Match(validator.all, validator.rules, SubSeq(sent, 1, validator.seen), FALSE) = Accepted
  <2>1. case.stream
    BY <1>3 DEF GateInv, WholeInv, Committed
  <2>2. gate.after <= 1 /\ validator.ready /\ ~IsRejected(validator.result)
    BY <1>3, <2>1 DEF GateInv, ReleaseInv, Committed
  <2>3. Buffered(validator, sent) /\ Knows(validator, sent)
    BY <1>3, <2>1 DEF GateInv, ValidatorInv, Judged
  <2>4. validator.seen \in Nat /\ validator.seen # 0
    BY <1>3, <2>2, <2>3 DEF Buffered, Knows
  <2>5. validator.seen > 0
    BY <2>4
  <2>6. validator.seen <= PrefixBytes + Ring => Clean(validator, sent)
    BY <2>2, <2>3, <2>5 DEF Knows
  <2> QED BY <2>2, <2>5, <2>6 DEF Clean
<1> QED BY <1>1, <1>2, <1>3 DEF ReleasedIsJudged, AcceptedIsJudged, RejectedStaysHidden

\* What a client has was let out by the rules: no rule matches the accepted
\* prefix, as far as the buffers reach, at most one Write slipped in between
\* the timer and the choice, and nothing of a refused attempt is ever out.
THEOREM NothingUnjudgedIsReleased == GateSpec => []ReleasedIsJudged
BY GateInvariant, ReleasedByInvariant, PTL
=============================================================================
