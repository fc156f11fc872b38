------------------------- MODULE Settlement_proofs -------------------------
(***************************************************************************)
(* Settlement is right for any requests, editors, prices, quota and        *)
(* bounds: a key pays once for a delivered request and never for another,  *)
(* the rows keep winner and losers apart, and a charge is its row's cost.  *)
(*                                                                         *)
(* The invariant follows one request through the tables.  What makes it    *)
(* charged at most once is that a charged request that may still settle    *)
(* finds its finalization, or no longer finds its row; what lets the       *)
(* repricing worker run beside it is that a request with a finalization    *)
(* will not be charged any more.                                           *)
(***************************************************************************)
EXTENDS Settlement, TLAPS

(***************************************************************************)
(* The invariant, with a handler h of request r wherever an action needs   *)
(* to say what the handler will be.                                        *)
(***************************************************************************)

\* A handler's row is its own, and has the cost that was read from it; only
\* the audit and Record name a row.
IdSound(r, h) ==
  /\ h.id < nextId
  /\ h.id \in DOMAIN log => log[h.id].req = r
  /\ h.pc = "commit" =>
       h.cost \in Prices /\ (h.id \in DOMAIN log => log[h.id].cost = h.cost)
  /\ h.pc \in {"new", "refused", "trying", "record"} => h.id = 0 /\ ~h.won
  /\ h.pc = "audit" /\ ~h.won => h.id = 0

\* Who may be served and charged, by the place of the handler.
ChargeSound(r, h) ==
  /\ r \in charged => h.served /\ h.pc \in {"settle", "done"}
  /\ r \in charged /\ h.pc = "settle" => fin[r] = "delivered" \/ h.id \notin DOMAIN log
  /\ h.pc \in {"record", "settle", "commit"} => h.served
  /\ h.pc \in {"new", "refused", "trying", "audit"} => ~h.served

\* A delivered request whose charge is not to come has its excuse.
ExcuseSound(r, h) ==
  /\ h.pc = "audit" /\ h.won /\ h.id = 0 => h.excused
  /\ h.pc = "failing" /\ h.served => h.excused
  /\ h.pc = "done" /\ h.served /\ ~h.excused => r \in charged

HandlerSound(r, h) == IdSound(r, h) /\ ChargeSound(r, h) /\ ExcuseSound(r, h)

FinSound(r) ==
  /\ fin[r] = "delivered" => r \in charged
  /\ fin[r] = "failed" => req[r].pc = "done"

\* A row's winner flag and extra cost, by the state of its request.
RowSound(i) ==
  LET r == log[i].req IN
  /\ log[i].cost \in Prices
  /\ log[i].winner => fin[r] = "delivered"
  /\ r \in charged => log[i].extra = IF log[i].winner THEN 0 ELSE log[i].cost
  /\ r \notin charged /\ req[r].pc # "done" /\ i # req[r].id => log[i].extra = log[i].cost

OneWinner(r) == \A i, j \in DOMAIN log :
  log[i].winner /\ log[j].winner /\ log[i].req = r /\ log[j].req = r => i = j

\* The requests of a batch are settled for good, and its winners are the rows' own.
JobSound ==
  /\ \A i \in job.page : i < nextId
  /\ job.st = "loaded" =>
       /\ \A r \in job.finals : r \in charged \/ req[r].pc = "done"
       /\ \A i \in job.page \cap DOMAIN log :
            log[i].req \in job.finals => (i \in job.winners <=> log[i].winner)

HandlersSound == \A r \in Requests : HandlerSound(r, req[r])
FinsSound == \A r \in Requests : FinSound(r)
RowsSound == \A i \in DOMAIN log : RowSound(i)
WinnersSound == \A r \in Requests : OneWinner(r)

IInv == /\ TypeOK /\ HandlersSound /\ FinsSound /\ RowsSound /\ WinnersSound
        /\ JobSound /\ QuotaExact

----------------------------------------------------------------------------
\* Records.

USE SizesSound DEF Closed

\* A handler with one field changed is a handler.
LEMMA FieldSet ==
  ASSUME NEW q \in Request
  PROVE  /\ \A pc \in PCs : [q EXCEPT !.pc = pc] \in Request
         /\ \A n \in Nat : [q EXCEPT !.tries = n] \in Request
         /\ \A n \in Nat : [q EXCEPT !.id = n] \in Request
         /\ \A n \in Nat : [q EXCEPT !.cost = n] \in Request
         /\ \A b \in BOOLEAN : [q EXCEPT !.won = b] \in Request
         /\ \A b \in BOOLEAN : [q EXCEPT !.virtual = b] \in Request
         /\ \A b \in BOOLEAN : [q EXCEPT !.served = b] \in Request
         /\ \A b \in BOOLEAN : [q EXCEPT !.excused = b] \in Request
  BY DEF Request

\* A request that has ended.
LEMMA EndedForm ==
  ASSUME NEW r \in Requests, TypeOK, NEW excused \in BOOLEAN
  PROVE  /\ Ended(r, excused) \in Request
         /\ Ended(r, excused).pc = "done" /\ Ended(r, excused).id = 0
         /\ Ended(r, excused).served = req[r].served
         /\ Ended(r, excused).excused = (req[r].served /\ (req[r].excused \/ excused))
  BY DEF Ended, Fresh, Request, TypeOK, PCs

Bounds == [{"upsets", "changes"} -> Nat]

\* What is spent is a number.
LEMMA SpentTyped ==
  ASSUME TypeOK, NoUpset \/ Upset \/ Spend("changes", MaxChanges)
  PROVE  spent' \in Bounds
  BY DEF TypeOK, NoUpset, Upset, Spend, Bounds

\* The invariant holds initially.
LEMMA InitSound == Init => IInv
<1> SUFFICES ASSUME Init PROVE IInv
    OBVIOUS
<1> USE DEF Init
<1>1. Fresh \in Request
    BY DEF Fresh, Request, PCs
<1>2. Idle \in Job
    BY DEF Idle, Job
<1>3. req \in [Requests -> Request] /\ job \in Job
    BY <1>1, <1>2
<1>4. DOMAIN log = {}
    OBVIOUS
<1>5. spent \in [{"upsets", "changes"} -> Nat]
    OBVIOUS
<1>6. fin \in [Requests -> {"none", "failed", "delivered"}]
    OBVIOUS
<1>7. form \in [Editors -> Nat \cup {Closed}]
    OBVIOUS
<1>8. DOMAIN log \subseteq 1..(nextId - 1) /\ nextId \in Nat \ {0} /\ used \in Nat /\ owed \in Nat
    BY <1>4
<1>9. charged \subseteq Requests /\ price \in Prices /\ clobbered \in BOOLEAN
    OBVIOUS
<1>10. TypeOK
    BY <1>3, <1>4, <1>5, <1>6, <1>7, <1>8, <1>9, Zenon DEF TypeOK
<1>11. HandlersSound
    BY <1>4 DEF HandlersSound, HandlerSound, IdSound, ChargeSound, ExcuseSound, Fresh
<1>12. FinsSound /\ RowsSound /\ WinnersSound
    BY <1>4 DEF FinsSound, FinSound, RowsSound, WinnersSound, OneWinner
<1>13. JobSound /\ QuotaExact
    BY DEF JobSound, Idle, QuotaExact
<1> QED
    BY <1>10, <1>11, <1>12, <1>13 DEF IInv

----------------------------------------------------------------------------
(***************************************************************************)
(* A step of one handler that leaves the tables alone.                     *)
(***************************************************************************)
LEMMA MoveSound ==
  ASSUME IInv, NEW r \in Requests, NEW h \in Request,
         req' = [req EXCEPT ![r] = h], req[r].pc # "done",
         h.pc # "done" => h.id = req[r].id, HandlerSound(r, h),
         UNCHANGED <<log, nextId, fin, used, owed, charged, clobbered, form, price, job>>,
         spent' \in Bounds
  PROVE  IInv'
<1>1. TypeOK'
    BY DEF IInv, TypeOK, Bounds
<1>2. req \in [Requests -> Request] /\ req'[r] = h
    BY DEF IInv, TypeOK
<1>3. HandlersSound'
  <2> SUFFICES ASSUME NEW s \in Requests PROVE HandlerSound(s, req[s])'
      BY DEF HandlersSound
  <2>1. CASE s = r
      BY <2>1, <1>2 DEF HandlerSound, IdSound, ChargeSound, ExcuseSound
  <2>2. CASE s # r
    <3>1. req'[s] = req[s] /\ HandlerSound(s, req[s])
        BY <2>2, <1>2 DEF IInv, HandlersSound
    <3> QED
        BY <3>1 DEF HandlerSound, IdSound, ChargeSound, ExcuseSound
  <2> QED
      BY <2>1, <2>2
<1>4. FinsSound'
    BY <1>2 DEF IInv, FinsSound, FinSound
<1>5. RowsSound'
  <2> SUFFICES ASSUME NEW i \in DOMAIN log PROVE RowSound(i)'
      BY DEF RowsSound
  <2>1. log[i] \in Row /\ log[i].req \in Requests /\ RowSound(i)
      BY DEF IInv, TypeOK, RowsSound, Row
  <2> QED
      BY <2>1, <1>2 DEF RowSound
<1>6. WinnersSound'
    BY DEF IInv, WinnersSound, OneWinner
<1>7. JobSound'
    BY <1>2 DEF IInv, JobSound, TypeOK, Job
<1>8. QuotaExact'
    BY DEF IInv, QuotaExact
<1> QED
    BY <1>1, <1>3, <1>4, <1>5, <1>6, <1>7, <1>8 DEF IInv

(***************************************************************************)
(* A handler writes a usage row.                                           *)
(***************************************************************************)
LEMMA StoreSound ==
  ASSUME IInv, NEW r \in Requests, NEW h \in Request, NEW extra \in Nat,
         req' = [req EXCEPT ![r] = h], Store(r, extra),
         req[r].pc \in {"trying", "record", "audit"}, h.pc \notin {"done", "commit"},
         (h.id = req[r].id /\ extra = price) \/ (h.id = nextId /\ req[r].id = 0),
         h.pc \in {"new", "refused", "trying", "record"} => h.id = 0 /\ ~h.won,
         h.pc = "audit" /\ ~h.won => h.id = 0,
         ChargeSound(r, h), ExcuseSound(r, h),
         UNCHANGED <<fin, used, owed, charged, clobbered, form, price, job>>
  PROVE  IInv'
<1> DEFINE row == [req |-> r, winner |-> FALSE, extra |-> extra, cost |-> price]
<1>0. /\ req \in [Requests -> Request] /\ req'[r] = h /\ nextId \in Nat \ {0}
      /\ DOMAIN log \subseteq 1..(nextId - 1) /\ price \in Prices /\ r \notin charged
    BY DEF IInv, TypeOK, HandlersSound, HandlerSound, ChargeSound
<1>1. /\ DOMAIN log' = DOMAIN log \cup {nextId} /\ nextId' = nextId + 1 /\ spent' = spent
      /\ \A i \in DOMAIN log : log'[i] = log[i]
      /\ log'[nextId] = row
    BY <1>0 DEF Store, NoUpset
<1>2. row \in Row
    BY <1>0 DEF Row
<1>3. TypeOK'
  <2>1. req' \in [Requests -> Request]
      BY <1>0
  <2>2. DOMAIN log' \subseteq 1..(nextId' - 1) /\ nextId' \in Nat \ {0}
      BY <1>0, <1>1
  <2>3. \A i \in DOMAIN log' : log'[i] \in Row
      BY <1>1, <1>2 DEF IInv, TypeOK
  <2> QED
      BY <1>1, <2>1, <2>2, <2>3 DEF IInv, TypeOK
<1>4. HandlersSound'
  <2> SUFFICES ASSUME NEW s \in Requests PROVE HandlerSound(s, req[s])'
      BY DEF HandlersSound
  <2>1. CASE s = r
    <3>1. HandlerSound(r, req[r]) /\ req[r].id \in Nat
        BY <1>0 DEF IInv, HandlersSound, Request
    <3>2. IdSound(r, req[r])'
        BY <3>1, <1>0, <1>1 DEF HandlerSound, IdSound
    <3>3. ChargeSound(r, req[r])' /\ ExcuseSound(r, req[r])'
        BY <1>0 DEF ChargeSound, ExcuseSound
    <3> QED
        BY <2>1, <3>2, <3>3 DEF HandlerSound
  <2>2. CASE s # r
    <3>1. req'[s] = req[s] /\ HandlerSound(s, req[s]) /\ req[s].id \in Nat
        BY <2>2, <1>0 DEF IInv, HandlersSound, Request
    <3> QED
        BY <3>1, <1>0, <1>1 DEF HandlerSound, IdSound, ChargeSound, ExcuseSound
  <2> QED
      BY <2>1, <2>2
<1>5. FinsSound'
    BY <1>0 DEF IInv, FinsSound, FinSound
<1>6. RowsSound'
  <2> SUFFICES ASSUME NEW i \in DOMAIN log' PROVE RowSound(i)'
      BY DEF RowsSound
  <2>1. CASE i = nextId
      BY <2>1, <1>0, <1>1 DEF RowSound
  <2>2. CASE i \in DOMAIN log
    <3>1. log'[i] = log[i] /\ log[i].req \in Requests /\ RowSound(i) /\ i # nextId
        BY <2>2, <1>0, <1>1 DEF IInv, TypeOK, RowsSound, Row
    <3>2. req[r].id = 0 => i # req[r].id
        BY <2>2, <1>0
    <3> QED
        BY <3>1, <3>2, <1>0 DEF RowSound
  <2> QED
      BY <1>1, <2>1, <2>2
<1>7. WinnersSound'
    BY <1>1 DEF IInv, WinnersSound, OneWinner
<1>8. JobSound'
  <2>1. \A i \in job.page : i < nextId /\ i \in Nat
      BY DEF IInv, TypeOK, Job, JobSound
  <2>2. \A i \in job.page \cap DOMAIN log' : i \in DOMAIN log /\ log'[i] = log[i]
      BY <1>0, <1>1, <2>1
  <2>3. \A s \in Requests : req[s].pc = "done" => req'[s].pc = "done"
      BY <1>0
  <2>4. job.finals \subseteq Requests
      BY DEF IInv, TypeOK, Job
  <2> QED
      BY <2>1, <2>2, <2>3, <2>4, <1>0, <1>1 DEF IInv, JobSound
<1>9. QuotaExact'
    BY DEF IInv, QuotaExact
<1> QED
    BY <1>3, <1>4, <1>5, <1>6, <1>7, <1>8, <1>9 DEF IInv

(***************************************************************************)
(* A settlement commits.                                                   *)
(***************************************************************************)
LEMMA BillTyped ==
  ASSUME IInv, NEW r \in Requests, req[r].pc = "commit"
  PROVE  Bill(r, req[r].cost) \in Nat
<1>1. req[r].cost \in Prices
    BY DEF IInv, HandlersSound, HandlerSound, IdSound
<1>2. req[r].cost \in Nat /\ Discount \in Nat /\ Discount < req[r].cost
    BY <1>1
<1>3. req[r].cost - Discount \in Nat
    BY <1>2
<1> QED
    BY <1>2, <1>3, Zenon DEF Bill

\* A charge keeps the invariant.
LEMMA ChargedSound ==
  ASSUME IInv, NEW r \in Requests, NEW h \in Request,
         req[r].pc = "commit", req' = [req EXCEPT ![r] = h], Charge(r), h.served,
         (h.pc = "settle" /\ h.id = req[r].id) \/ (h.pc = "done" /\ h.id = 0),
         spent' \in Bounds
  PROVE  IInv'
<1> DEFINE bill == Bill(r, req[r].cost)
<1>0. /\ req \in [Requests -> Request] /\ req'[r] = h /\ fin \in [Requests -> {"none", "failed", "delivered"}]
      /\ DOMAIN log \subseteq 1..(nextId - 1) /\ nextId \in Nat \ {0} /\ r \notin charged /\ fin[r] = "none"
    BY DEF IInv, TypeOK, HandlersSound, HandlerSound, ChargeSound, FinsSound, FinSound
<1>1. bill \in Nat
    BY BillTyped
<1>2. /\ used' = used + bill /\ owed' = owed + bill /\ charged' = charged \cup {r}
      /\ fin' = [fin EXCEPT ![r] = "delivered"] /\ DOMAIN log' = DOMAIN log
      /\ UNCHANGED <<nextId, form, clobbered, price, job>>
    BY <1>0 DEF Charge, prices
<1>3. ASSUME NEW i \in DOMAIN log
      PROVE  /\ log[i] \in Row /\ log'[i] \in Row
             /\ log'[i].req = log[i].req /\ log'[i].cost = log[i].cost
             /\ i = req[r].id => log[i].req = r /\ log'[i].winner /\ log'[i].extra = 0
             /\ i # req[r].id /\ log[i].req = r => ~log'[i].winner /\ log'[i].extra = log[i].extra
             /\ i # req[r].id /\ log[i].req # r => log'[i] = log[i]
  <2>1. log[i] \in Row /\ (i = req[r].id => log[i].req = r)
      BY DEF IInv, TypeOK, HandlersSound, HandlerSound, IdSound
  <2>2. log'[i] = IF i = req[r].id THEN [log[i] EXCEPT !.winner = TRUE, !.extra = 0]
                  ELSE IF log[i].req = r THEN [log[i] EXCEPT !.winner = FALSE]
                  ELSE log[i]
      BY DEF Charge
  <2>3. [log[i] EXCEPT !.winner = TRUE, !.extra = 0] \in Row /\ [log[i] EXCEPT !.winner = FALSE] \in Row
      BY <2>1 DEF Row
  <2> QED
      BY <2>1, <2>2, <2>3 DEF Row
<1>4. TypeOK'
  <2>1. req' \in [Requests -> Request] /\ fin' \in [Requests -> {"none", "failed", "delivered"}]
      BY <1>0, <1>2
  <2>2. \A i \in DOMAIN log' : log'[i] \in Row
      BY <1>2, <1>3
  <2>3. used' \in Nat /\ owed' \in Nat /\ charged' \subseteq Requests
      BY <1>1, <1>2 DEF IInv, TypeOK
  <2> QED
      BY <1>2, <2>1, <2>2, <2>3 DEF IInv, TypeOK, Bounds
<1>5. HandlersSound'
  <2> SUFFICES ASSUME NEW s \in Requests PROVE HandlerSound(s, req[s])'
      BY DEF HandlersSound
  <2>1. CASE s = r
    <3>1. HandlerSound(r, req[r])
        BY DEF IInv, HandlersSound
    <3>2. IdSound(r, req[r])'
        BY <3>1, <1>0, <1>2, <1>3 DEF HandlerSound, IdSound
    <3>3. ChargeSound(r, req[r])' /\ ExcuseSound(r, req[r])'
        BY <1>0, <1>2 DEF ChargeSound, ExcuseSound
    <3> QED
        BY <2>1, <3>2, <3>3 DEF HandlerSound
  <2>2. CASE s # r
    <3>1. req'[s] = req[s] /\ HandlerSound(s, req[s]) /\ (s \in charged' <=> s \in charged) /\ fin'[s] = fin[s]
        BY <2>2, <1>0, <1>2 DEF IInv, HandlersSound
    <3>2. IdSound(s, req[s])'
        BY <3>1, <1>2, <1>3 DEF HandlerSound, IdSound
    <3> QED
        BY <3>1, <3>2, <1>2 DEF HandlerSound, ChargeSound, ExcuseSound
  <2> QED
      BY <2>1, <2>2
<1>6. FinsSound'
    BY <1>0, <1>2 DEF IInv, FinsSound, FinSound
<1>7. RowsSound'
  <2> SUFFICES ASSUME NEW i \in DOMAIN log PROVE RowSound(i)'
      BY <1>2 DEF RowsSound
  <2>1. RowSound(i) /\ log[i].req \in Requests
      BY <1>3 DEF IInv, RowsSound, Row
  <2>2. CASE log[i].req = r
      BY <2>1, <2>2, <1>0, <1>2, <1>3 DEF RowSound
  <2>3. CASE log[i].req # r
    <3>1. log'[i] = log[i]
        BY <2>3, <1>3
    <3> QED
        BY <2>1, <2>3, <3>1, <1>0, <1>2 DEF RowSound
  <2> QED
      BY <2>2, <2>3
<1>8. WinnersSound'
  <2> SUFFICES ASSUME NEW s \in Requests, NEW i \in DOMAIN log, NEW j \in DOMAIN log,
                      log'[i].winner, log'[j].winner, log'[i].req = s, log'[j].req = s
               PROVE  i = j
      BY <1>2 DEF WinnersSound, OneWinner
  <2>1. CASE s = r
      BY <2>1, <1>3
  <2>2. CASE s # r
      BY <2>2, <1>3 DEF IInv, WinnersSound, OneWinner
  <2> QED
      BY <2>1, <2>2
<1>9. JobSound'
  <2>1. job.finals \subseteq Requests
      BY DEF IInv, TypeOK, Job
  <2>2. job.st = "loaded" => r \notin job.finals
      BY <1>0 DEF IInv, JobSound
  <2>3. \A s \in Requests : req[s].pc = "done" => req'[s].pc = "done"
      BY <1>0
  <2> QED
      BY <2>1, <2>2, <2>3, <1>2, <1>3 DEF IInv, JobSound
<1>10. QuotaExact'
    BY <1>1, <1>2 DEF IInv, QuotaExact, TypeOK
<1> QED
    BY <1>4, <1>5, <1>6, <1>7, <1>8, <1>9, <1>10 DEF IInv

(***************************************************************************)
(* A failed request is finalized.                                          *)
(***************************************************************************)
LEMMA FailedSound ==
  ASSUME IInv, NEW r \in Requests, Failed(r)
  PROVE  IInv'
<1> DEFINE h == Ended(r, FALSE)
<1>0. /\ req \in [Requests -> Request] /\ fin \in [Requests -> {"none", "failed", "delivered"}]
      /\ req[r].pc = "failing" /\ req' = [req EXCEPT ![r] = h]
      /\ UNCHANGED <<log, nextId, used, owed, charged, clobbered, form, price, job>>
    BY DEF IInv, TypeOK, Failed, table, key, prices
<1>1. /\ h \in Request /\ h.pc = "done" /\ h.id = 0 /\ h.served = req[r].served
      /\ h.excused = (req[r].served /\ (req[r].excused \/ FALSE))
    BY EndedForm DEF IInv
<1>2. nextId \in Nat \ {0} /\ DOMAIN log \subseteq 1..(nextId - 1)
    BY DEF IInv, TypeOK
<1>3. HandlerSound(r, h) /\ r \notin charged
  <2>1. HandlerSound(r, req[r])
      BY DEF IInv, HandlersSound
  <2>2. r \notin charged /\ (h.served => h.excused)
      BY <2>1, <1>0, <1>1 DEF HandlerSound, ChargeSound, ExcuseSound
  <2> HIDE DEF h
  <2>3. IdSound(r, h)
      BY <1>1, <1>2 DEF IdSound
  <2>4. ChargeSound(r, h)
      BY <2>2, <1>1 DEF ChargeSound
  <2>5. ExcuseSound(r, h)
      BY <2>2, <1>1 DEF ExcuseSound
  <2> QED
      BY <2>2, <2>3, <2>4, <2>5 DEF HandlerSound
<1>4. spent' \in Bounds
    BY SpentTyped DEF Failed, IInv
<1>5. CASE UNCHANGED fin
    BY <1>0, <1>1, <1>3, <1>4, <1>5, MoveSound
<1>6. CASE fin' = [fin EXCEPT ![r] = IF @ = "none" THEN "failed" ELSE @]
  <2>1. TypeOK'
    <3>1. fin' \in [Requests -> {"none", "failed", "delivered"}] /\ req' \in [Requests -> Request]
        BY <1>0, <1>1, <1>6
    <3> QED
        BY <3>1, <1>0, <1>4 DEF IInv, TypeOK, Bounds
  <2>2. req'[r] = h /\ fin'[r] \in {"failed", "delivered"} /\ fin[r] # "delivered"
      BY <1>0, <1>3, <1>6 DEF IInv, FinsSound, FinSound
  <2>3. HandlersSound'
    <3> SUFFICES ASSUME NEW s \in Requests PROVE HandlerSound(s, req[s])'
        BY DEF HandlersSound
    <3>1. CASE s = r
        BY <3>1, <2>2, <1>0, <1>3 DEF HandlerSound, IdSound, ChargeSound, ExcuseSound
    <3>2. CASE s # r
      <4>1. req'[s] = req[s] /\ HandlerSound(s, req[s]) /\ fin'[s] = fin[s]
          BY <3>2, <1>0, <1>6 DEF IInv, HandlersSound
      <4> QED
          BY <4>1, <1>0 DEF HandlerSound, IdSound, ChargeSound, ExcuseSound
    <3> QED
        BY <3>1, <3>2
  <2>4. FinsSound'
      BY <2>2, <1>0, <1>1, <1>6 DEF IInv, FinsSound, FinSound
  <2>5. RowsSound'
    <3> SUFFICES ASSUME NEW i \in DOMAIN log PROVE RowSound(i)'
        BY <1>0 DEF RowsSound
    <3>1. log[i] \in Row /\ log[i].req \in Requests /\ RowSound(i)
        BY DEF IInv, TypeOK, RowsSound, Row
    <3> QED
        BY <3>1, <2>2, <1>0, <1>1, <1>6 DEF RowSound
  <2>6. WinnersSound' /\ QuotaExact'
      BY <1>0 DEF IInv, WinnersSound, OneWinner, QuotaExact
  <2>7. JobSound'
      BY <2>2, <1>0, <1>1 DEF IInv, JobSound, TypeOK, Job
  <2> QED
      BY <2>1, <2>3, <2>4, <2>5, <2>6, <2>7 DEF IInv
<1> QED
    BY <1>5, <1>6 DEF Failed

(***************************************************************************)
(* Rows are deleted, and the finalizations of requests left without one.   *)
(***************************************************************************)
LEMMA DeleteSound ==
  ASSUME IInv, NEW kept \in SUBSET DOMAIN log,
         log' = Restrict(log, kept),
         fin' = [r \in Requests |-> IF Retained(r, kept) THEN fin[r] ELSE "none"],
         UNCHANGED <<req, nextId, key, prices>>, spent' \in Bounds
  PROVE  IInv'
<1>0. /\ fin \in [Requests -> {"none", "failed", "delivered"}]
      /\ UNCHANGED <<used, owed, charged, clobbered, form, price, job>>
    BY DEF IInv, TypeOK, key, prices
<1>1. DOMAIN log' = kept /\ \A i \in kept : log'[i] = log[i] /\ i \in DOMAIN log
    BY DEF Restrict
<1>2. \A r \in Requests : fin'[r] \in {fin[r], "none"}
    BY <1>0
<1>3. \A i \in kept : log[i].req \in Requests /\ fin'[log[i].req] = fin[log[i].req]
    BY <1>1 DEF IInv, TypeOK, Row, Retained
<1>4. TypeOK'
  <2>1. fin' \in [Requests -> {"none", "failed", "delivered"}]
      BY <1>0
  <2>2. DOMAIN log' \subseteq 1..(nextId' - 1) /\ \A i \in DOMAIN log' : log'[i] \in Row
      BY <1>1 DEF IInv, TypeOK
  <2> QED
      BY <2>1, <2>2, <1>0 DEF IInv, TypeOK, Bounds
<1>5. HandlersSound'
  <2> SUFFICES ASSUME NEW r \in Requests PROVE HandlerSound(r, req[r])'
      BY DEF HandlersSound
  <2>1. HandlerSound(r, req[r])
      BY DEF IInv, HandlersSound
  <2>2. IdSound(r, req[r])' /\ ExcuseSound(r, req[r])'
      BY <2>1, <1>0, <1>1 DEF HandlerSound, IdSound, ExcuseSound
  <2>3. r \in charged /\ req[r].pc = "settle"
          => fin'[r] = "delivered" \/ req[r].id \notin DOMAIN log'
      BY <2>1, <1>1, <1>3 DEF HandlerSound, IdSound, ChargeSound
  <2>4. ChargeSound(r, req[r])'
      BY <2>1, <2>3, <1>0 DEF HandlerSound, ChargeSound
  <2> QED
      BY <2>2, <2>4 DEF HandlerSound
<1>6. FinsSound'
    BY <1>0, <1>2 DEF IInv, FinsSound, FinSound
<1>7. RowsSound'
    BY <1>0, <1>1, <1>3 DEF IInv, RowsSound, RowSound
<1>8. WinnersSound'
    BY <1>1 DEF IInv, WinnersSound, OneWinner
<1>9. JobSound'
    BY <1>0, <1>1 DEF IInv, JobSound
<1>10. QuotaExact'
    BY <1>0 DEF IInv, QuotaExact
<1> QED
    BY <1>4, <1>5, <1>6, <1>7, <1>8, <1>9, <1>10 DEF IInv

(***************************************************************************)
(* A step of the repricing job that leaves the rows alone.                 *)
(***************************************************************************)
LEMMA JobMoveSound ==
  ASSUME IInv, job' \in Job, JobSound', price' \in Prices, spent' \in Bounds,
         UNCHANGED <<req, table, fin, key>>
  PROVE  IInv'
<1>0. UNCHANGED <<req, log, nextId, fin, used, form, charged, owed, clobbered>>
    BY DEF table, key
<1>1. TypeOK'
    BY <1>0 DEF IInv, TypeOK, Bounds
<1>2. HandlersSound'
    BY <1>0 DEF IInv, HandlersSound, HandlerSound, IdSound, ChargeSound, ExcuseSound
<1>3. FinsSound' /\ RowsSound' /\ WinnersSound' /\ QuotaExact'
    BY <1>0 DEF IInv, FinsSound, FinSound, RowsSound, RowSound, WinnersSound, OneWinner, QuotaExact
<1> QED
    BY <1>1, <1>2, <1>3 DEF IInv

(***************************************************************************)
(* A batch is written.                                                     *)
(***************************************************************************)
LEMMA SavePageSound ==
  ASSUME IInv, SavePage
  PROVE  IInv'
<1>0. /\ job.st = "loaded" /\ job \in Job /\ price \in Prices /\ price \in Nat
      /\ UNCHANGED <<req, nextId, fin, used, form, charged, owed, clobbered, price, spent>>
    BY DEF SavePage, key, IInv, TypeOK
<1>1. DOMAIN log' = DOMAIN log
    BY DEF SavePage, Reprice
<1>2. ASSUME NEW i \in DOMAIN log
      PROVE  /\ log[i] \in Row /\ log[i].req \in Requests
             /\ log'[i] \in Row /\ log'[i].req = log[i].req /\ log'[i].winner = log[i].winner
             /\ i \notin Priced => log'[i] = log[i]
             /\ i \in Priced => /\ log'[i].cost = price
                                /\ log'[i].extra = IF log[i].winner THEN 0 ELSE price
  <2>1. log[i] \in Row /\ log[i].req \in Requests
      BY DEF IInv, TypeOK, Row
  <2>2. CASE i \notin Priced
      BY <2>1, <2>2 DEF SavePage, Reprice
  <2>3. CASE i \in Priced
    <3>1. i \in job.winners <=> log[i].winner
        BY <2>3, <1>0 DEF Priced, IInv, JobSound
    <3>2. log'[i] = [log[i] EXCEPT !.cost = price, !.extra = IF i \in job.winners THEN 0 ELSE price]
        BY <2>3 DEF SavePage, Reprice
    <3> DEFINE x == IF log[i].winner THEN 0 ELSE price
    <3>3. log'[i] = [log[i] EXCEPT !.cost = price, !.extra = x]
        BY <3>1, <3>2
    <3>4. x \in Nat
        BY <1>0
    <3> HIDE DEF x
    <3>5. /\ log'[i] \in Row /\ log'[i].req = log[i].req /\ log'[i].winner = log[i].winner
          /\ log'[i].cost = price /\ log'[i].extra = x
        BY <2>1, <3>3, <3>4, <1>0 DEF Row
    <3> QED
        BY <2>1, <2>3, <3>5 DEF x
  <2> QED
      BY <2>2, <2>3
<1>3. \A i \in Priced : i \in DOMAIN log /\ (log[i].req \in charged \/ req[log[i].req].pc = "done")
    BY <1>0 DEF Priced, IInv, JobSound
<1>4. job' \in Job /\ job'.page = {} /\ job'.st # "loaded"
  <2>1. Idle \in Job /\ Idle.page = {} /\ Idle.st # "loaded"
      BY DEF Idle, Job
  <2>2. PICK last \in Passed \cup {job.last} :
          job' = IF Cardinality(job.page) < PageSize \/ last >= job.upper THEN Idle
                 ELSE [Idle EXCEPT !.st = "pending", !.last = last, !.upper = job.upper]
      BY DEF SavePage
  <2>3. last \in Nat /\ job.upper \in Nat
      BY <1>0 DEF Passed, Job
  <2>4. [Idle EXCEPT !.st = "pending", !.last = last, !.upper = job.upper] \in Job
      BY <2>3 DEF Idle, Job
  <2> QED
      BY <2>1, <2>2, <2>4 DEF Idle
<1>5. TypeOK'
    BY <1>0, <1>1, <1>2, <1>4 DEF IInv, TypeOK
<1>6. HandlersSound'
  <2> SUFFICES ASSUME NEW r \in Requests PROVE HandlerSound(r, req[r])'
      BY DEF HandlersSound
  <2>1. HandlerSound(r, req[r])
      BY DEF IInv, HandlersSound
  <2>2. req[r].pc = "commit" /\ req[r].id \in DOMAIN log => log'[req[r].id] = log[req[r].id]
      BY <2>1, <1>2, <1>3 DEF HandlerSound, IdSound, ChargeSound
  <2>3. IdSound(r, req[r])'
      BY <2>1, <2>2, <1>0, <1>1, <1>2 DEF HandlerSound, IdSound
  <2> QED
      BY <2>1, <2>3, <1>0, <1>1 DEF HandlerSound, ChargeSound, ExcuseSound
<1>7. FinsSound' /\ QuotaExact'
    BY <1>0 DEF IInv, FinsSound, FinSound, QuotaExact
<1>8. RowsSound'
  <2> SUFFICES ASSUME NEW i \in DOMAIN log PROVE RowSound(i)'
      BY <1>1 DEF RowsSound
  <2>1. RowSound(i)
      BY DEF IInv, RowsSound
  <2>2. CASE i \notin Priced
      BY <2>1, <2>2, <1>0, <1>2 DEF RowSound
  <2>3. CASE i \in Priced
      BY <2>1, <2>3, <1>0, <1>2, <1>3 DEF RowSound
  <2> QED
      BY <2>2, <2>3
<1>9. WinnersSound'
    BY <1>1, <1>2 DEF IInv, WinnersSound, OneWinner
<1>10. JobSound'
    BY <1>4 DEF JobSound
<1> QED
    BY <1>5, <1>6, <1>7, <1>8, <1>9, <1>10 DEF IInv

----------------------------------------------------------------------------
(***************************************************************************)
(* The handler's actions.                                                  *)
(***************************************************************************)

\* Where a handler is before its step.
LEMMA Before ==
  ASSUME IInv, NEW r \in Requests
  PROVE  /\ req \in [Requests -> Request] /\ req[r] \in Request
         /\ IdSound(r, req[r]) /\ ChargeSound(r, req[r]) /\ ExcuseSound(r, req[r])
         /\ FinSound(r) /\ nextId \in Nat \ {0} /\ DOMAIN log \subseteq 1..(nextId - 1)
         /\ price \in Prices /\ price \in Nat
  BY DEF IInv, TypeOK, HandlersSound, HandlerSound, FinsSound

\* Admission keeps it.
LEMMA AdmitSound ==
  ASSUME IInv, NEW r \in Requests, Admit(r)
  PROVE  IInv'
<1> DEFINE next == IF Quota > 0 /\ used >= Quota THEN "refused" ELSE "trying"
           h == [req[r] EXCEPT !.pc = next]
<1>1. /\ req[r].pc = "new" /\ req' = [req EXCEPT ![r] = h] /\ next \in {"refused", "trying"}
      /\ UNCHANGED <<log, nextId, fin, used, owed, charged, clobbered, form, price, job, spent>>
    BY DEF Admit, table, key, prices
<1> HIDE DEF next
<1>2. /\ h \in Request /\ h.pc = next /\ h.id = req[r].id /\ h.won = req[r].won
      /\ h.served = req[r].served
    BY <1>1, Before DEF Request, PCs
<1>3. HandlerSound(r, h)
    BY <1>1, <1>2, Before DEF HandlerSound, IdSound, ChargeSound, ExcuseSound
<1>4. spent' \in Bounds
    BY <1>1 DEF IInv, TypeOK, Bounds
<1> QED
    BY <1>1, <1>2, <1>3, <1>4, MoveSound

\* A failed attempt keeps it.
LEMMA AttemptFailsSound ==
  ASSUME IInv, NEW r \in Requests, AttemptFails(r)
  PROVE  IInv'
<1>1. PICK next \in {"trying", "failing"} :
        req' = [req EXCEPT ![r] = [req[r] EXCEPT !.tries = @ + 1, !.pc = next]]
    BY DEF AttemptFails
<1> DEFINE h == [req[r] EXCEPT !.tries = @ + 1, !.pc = next]
<1>2. /\ req[r].pc = "trying" /\ req' = [req EXCEPT ![r] = h]
      /\ UNCHANGED <<fin, used, owed, charged, clobbered, form, price, job>>
    BY <1>1 DEF AttemptFails, key, prices
<1>3. [req[r] EXCEPT !.tries = @ + 1] \in Request
    BY Before DEF Request
<1>4. /\ h \in Request /\ h.pc = next /\ h.id = req[r].id /\ h.won = req[r].won
      /\ h.served = req[r].served
    BY <1>3, Before DEF Request, PCs
<1> HIDE DEF h
<1>5. IdSound(r, h) /\ ChargeSound(r, h) /\ ExcuseSound(r, h)
    BY <1>2, <1>4, Before DEF IdSound, ChargeSound, ExcuseSound
<1>6. CASE Store(r, price)
    BY <1>2, <1>4, <1>5, <1>6, Before, StoreSound DEF IdSound
<1>7. CASE Lose
  <2>1. UNCHANGED <<log, nextId>> /\ spent' \in Bounds
      BY <1>7, SpentTyped DEF Lose, table, IInv
  <2> QED
      BY <1>2, <1>4, <1>5, <2>1, MoveSound DEF HandlerSound
<1> QED
    BY <1>6, <1>7 DEF AttemptFails

\* Giving up keeps it.
LEMMA GiveUpSound ==
  ASSUME IInv, NEW r \in Requests, GiveUp(r)
  PROVE  IInv'
<1> DEFINE h == [req[r] EXCEPT !.pc = "failing"]
<1>1. /\ req[r].pc = "trying" /\ req' = [req EXCEPT ![r] = h]
      /\ UNCHANGED <<log, nextId, fin, used, owed, charged, clobbered, form, price, job, spent>>
    BY DEF GiveUp, table, key, prices
<1>2. /\ h \in Request /\ h.pc = "failing" /\ h.id = req[r].id /\ h.won = req[r].won
      /\ h.served = req[r].served
    BY <1>1, Before DEF Request, PCs
<1>3. HandlerSound(r, h)
    BY <1>1, <1>2, Before DEF HandlerSound, IdSound, ChargeSound, ExcuseSound
<1>4. spent' \in Bounds
    BY <1>1 DEF IInv, TypeOK, Bounds
<1> QED
    BY <1>1, <1>2, <1>3, <1>4, MoveSound

\* An answer keeps it.
LEMMA ServeSound ==
  ASSUME IInv, NEW r \in Requests, Serve(r)
  PROVE  IInv'
<1> DEFINE g == [req[r] EXCEPT !.pc = "record"]
           h == [req[r] EXCEPT !.pc = "record", !.served = TRUE]
<1>1. /\ req[r].pc = "trying" /\ req' = [req EXCEPT ![r] = h]
      /\ UNCHANGED <<log, nextId, fin, used, owed, charged, clobbered, form, price, job, spent>>
    BY DEF Serve, table, key, prices
<1>2. g \in Request
    BY Before DEF Request, PCs
<1>3. h \in Request
    BY <1>2, FieldSet
<1>4. /\ h.pc = "record" /\ h.id = req[r].id /\ h.won = req[r].won /\ h.served = TRUE
    BY Before DEF Request
<1> HIDE DEF h
<1>5. HandlerSound(r, h)
    BY <1>1, <1>4, Before DEF HandlerSound, IdSound, ChargeSound, ExcuseSound
<1>6. spent' \in Bounds
    BY <1>1 DEF IInv, TypeOK, Bounds
<1> QED
    BY <1>1, <1>3, <1>4, <1>5, <1>6, MoveSound

\* A race keeps it.
LEMMA RaceSound ==
  ASSUME IInv, NEW r \in Requests, Race(r)
  PROVE  IInv'
<1> DEFINE h == [req[r] EXCEPT !.pc = "audit"]
<1>1. /\ req[r].pc = "trying" /\ req' = [req EXCEPT ![r] = h]
      /\ UNCHANGED <<log, nextId, fin, used, owed, charged, clobbered, form, price, job, spent>>
    BY DEF Race, table, key, prices
<1>2. /\ h \in Request /\ h.pc = "audit" /\ h.id = req[r].id /\ h.won = req[r].won
      /\ h.served = req[r].served
    BY <1>1, Before DEF Request, PCs
<1>3. HandlerSound(r, h)
    BY <1>1, <1>2, Before DEF HandlerSound, IdSound, ChargeSound, ExcuseSound
<1>4. spent' \in Bounds
    BY <1>1 DEF IInv, TypeOK, Bounds
<1> QED
    BY <1>1, <1>2, <1>3, <1>4, MoveSound

\* Writing the usage row keeps it.
LEMMA RecordSound ==
  ASSUME IInv, NEW r \in Requests, Record(r)
  PROVE  IInv'
<1>1. /\ req[r].pc = "record" /\ req[r].id = 0 /\ req[r].served /\ r \notin charged
      /\ UNCHANGED <<fin, used, owed, charged, clobbered, form, price, job>>
    BY Before DEF Record, key, prices, IdSound, ChargeSound
<1>2. CASE \E virtual \in BOOLEAN :
             /\ Store(r, IF virtual THEN price ELSE 0)
             /\ req' = [req EXCEPT ![r].pc = "settle", ![r].id = nextId, ![r].virtual = virtual]
  <2>1. PICK virtual \in BOOLEAN :
          /\ Store(r, IF virtual THEN price ELSE 0)
          /\ req' = [req EXCEPT ![r] =
                       [req[r] EXCEPT !.pc = "settle", !.id = nextId, !.virtual = virtual]]
      BY <1>2
  <2> DEFINE extra == IF virtual THEN price ELSE 0
             h == [req[r] EXCEPT !.pc = "settle", !.id = nextId, !.virtual = virtual]
  <2>2. extra \in Nat
      BY Before
  <2>3. [req[r] EXCEPT !.pc = "settle"] \in Request
      BY Before DEF Request, PCs
  <2>4. [req[r] EXCEPT !.pc = "settle", !.id = nextId] \in Request
      BY <2>3, Before, FieldSet
  <2>5. h \in Request
      BY <2>4, FieldSet
  <2>6. h.pc = "settle" /\ h.id = nextId /\ h.served = req[r].served
      BY Before DEF Request
  <2>7. Store(r, extra) /\ req' = [req EXCEPT ![r] = h]
      BY <2>1
  <2> HIDE DEF h, extra
  <2>8. ChargeSound(r, h) /\ ExcuseSound(r, h)
      BY <2>6, <1>1, Before DEF ChargeSound, ExcuseSound
  <2> QED
      BY <1>1, <2>2, <2>5, <2>6, <2>7, <2>8, StoreSound
<1>3. CASE Lose
  <2>1. UNCHANGED <<log, nextId>> /\ spent' \in Bounds
      BY <1>3, SpentTyped DEF Lose, table, IInv
  <2>2. CASE req' = [req EXCEPT ![r].pc = "failing", ![r].excused = TRUE]
    <3> DEFINE h == [req[r] EXCEPT !.pc = "failing", !.excused = TRUE]
    <3>1. [req[r] EXCEPT !.pc = "failing"] \in Request
        BY Before DEF Request, PCs
    <3>2. /\ h \in Request /\ h.pc = "failing" /\ h.id = req[r].id /\ h.excused = TRUE
        BY <3>1, Before, FieldSet DEF Request
    <3>3. req' = [req EXCEPT ![r] = h]
        BY <2>2
    <3> HIDE DEF h
    <3>4. HandlerSound(r, h)
        BY <3>2, <1>1, Before DEF HandlerSound, IdSound, ChargeSound, ExcuseSound
    <3> QED
        BY <1>1, <2>1, <3>2, <3>3, <3>4, MoveSound
  <2>3. CASE req' = [req EXCEPT ![r] = Ended(r, TRUE)]
    <3> DEFINE h == Ended(r, TRUE)
    <3>1. h \in Request /\ h.pc = "done" /\ h.id = 0 /\ h.excused = (req[r].served /\ (req[r].excused \/ TRUE))
        BY EndedForm DEF IInv
    <3> HIDE DEF h
    <3>2. h.excused
        BY <3>1, <1>1
    <3>3. HandlerSound(r, h)
        BY <3>1, <3>2, <1>1, Before DEF HandlerSound, IdSound, ChargeSound, ExcuseSound
    <3> QED
        BY <1>1, <2>1, <2>3, <3>1, <3>3, MoveSound DEF h
  <2> QED
      BY <1>3, <1>2, <2>2, <2>3 DEF Record
<1> QED
    BY <1>2, <1>3 DEF Record

\* The audit keeps it.
LEMMA AuditSound ==
  ASSUME IInv, NEW r \in Requests, Audit(r)
  PROVE  IInv'
<1>1. /\ req[r].pc = "audit" /\ r \notin charged
      /\ UNCHANGED <<fin, used, owed, charged, clobbered, form, price, job>>
    BY Before DEF Audit, key, prices, ChargeSound
<1>2. PICK wins \in BOOLEAN :
        /\ req[r].won => ~wins
        /\ \/ /\ Store(r, price)
              /\ req' = [req EXCEPT ![r].tries = @ + 1, ![r].won = @ \/ wins,
                                    ![r].id = IF wins THEN nextId ELSE @]
           \/ /\ Lose
              /\ req' = [req EXCEPT ![r].tries = @ + 1, ![r].won = @ \/ wins,
                                    ![r].excused = @ \/ wins]
    BY Before DEF Audit
<1> DEFINE won == req[r].won \/ wins
           g == [req[r] EXCEPT !.tries = @ + 1, !.won = won]
<1>3. /\ req[r].tries + 1 \in Nat /\ won \in BOOLEAN
      /\ [req[r] EXCEPT !.tries = @ + 1] \in Request
    BY Before, FieldSet DEF Request
<1>4. g \in Request
    BY <1>3, FieldSet
<1>5. CASE /\ Store(r, price)
           /\ req' = [req EXCEPT ![r].tries = @ + 1, ![r].won = @ \/ wins,
                                 ![r].id = IF wins THEN nextId ELSE @]
  <2> DEFINE id == IF wins THEN nextId ELSE req[r].id
             h == [req[r] EXCEPT !.tries = @ + 1, !.won = won, !.id = id]
  <2>1. id \in Nat
      BY Before DEF Request
  <2>2. h \in Request
      BY <1>4, <2>1, FieldSet
  <2>3. req' = [req EXCEPT ![r] = h]
      BY <1>5
  <2> HIDE DEF id, won
  <2>4. /\ h.pc = "audit" /\ h.id = id /\ h.won = won /\ h.served = req[r].served
      BY <1>1, Before DEF Request
  <2> HIDE DEF h
  <2>5. h.id = req[r].id \/ (h.id = nextId /\ req[r].id = 0)
    <3>1. CASE wins
      <4>1. id = nextId
          BY <3>1 DEF id
      <4>2. ~req[r].won
          BY <3>1, <1>2
      <4>3. req[r].id = 0
          BY <4>2, <1>1, Before DEF IdSound
      <4> QED
          BY <4>1, <4>3, <2>4
    <3>2. CASE ~wins
        BY <3>2, <2>4 DEF id
    <3> QED
        BY <3>1, <3>2
  <2>6. h.pc = "audit" /\ ~h.won => h.id = 0
      BY <2>4, <1>1, <1>2, Before DEF id, won, IdSound
  <2>7. h.won /\ h.id = 0 => req[r].won /\ req[r].id = 0
      BY <2>4, Before DEF id, won
  <2>8. h.excused = req[r].excused
      BY <1>1, Before DEF Request, h
  <2>9. ChargeSound(r, h) /\ ExcuseSound(r, h)
      BY <2>4, <2>7, <2>8, <1>1, Before DEF ChargeSound, ExcuseSound
  <2> QED
      BY <1>1, <1>5, <2>2, <2>3, <2>4, <2>5, <2>6, <2>9, Before, StoreSound
<1>6. CASE /\ Lose
           /\ req' = [req EXCEPT ![r].tries = @ + 1, ![r].won = @ \/ wins,
                                 ![r].excused = @ \/ wins]
  <2> DEFINE excused == req[r].excused \/ wins
             h == [req[r] EXCEPT !.tries = @ + 1, !.won = won, !.excused = excused]
  <2>1. excused \in BOOLEAN
      OBVIOUS
  <2>2. h \in Request
      BY <1>4, <2>1, FieldSet
  <2>3. req' = [req EXCEPT ![r] = h]
      BY <1>6
  <2> HIDE DEF excused, won
  <2>4. /\ h.pc = "audit" /\ h.id = req[r].id /\ h.won = won /\ h.served = req[r].served
        /\ h.excused = excused
      BY <1>1, Before DEF Request
  <2> HIDE DEF h
  <2>5. IdSound(r, h)
      BY <2>4, <1>1, Before DEF IdSound, won
  <2>6. ChargeSound(r, h)
      BY <2>4, <1>1, Before DEF ChargeSound
  <2>7. ExcuseSound(r, h)
      BY <2>4, <1>1, Before DEF ExcuseSound, excused, won
  <2>8. UNCHANGED <<log, nextId>> /\ spent' \in Bounds
      BY <1>6, SpentTyped DEF Lose, table, IInv
  <2> QED
      BY <1>1, <2>2, <2>3, <2>4, <2>5, <2>6, <2>7, <2>8, MoveSound DEF HandlerSound
<1> QED
    BY <1>2, <1>5, <1>6

\* The end of a request keeps it.
LEMMA FinishSound ==
  ASSUME IInv, NEW r \in Requests, Finish(r)
  PROVE  IInv'
<1>1. /\ req[r].pc = "audit" /\ r \notin charged /\ spent' \in Bounds
      /\ UNCHANGED <<log, nextId, fin, used, owed, charged, clobbered, form, price, job>>
    BY Before DEF Finish, table, key, prices, ChargeSound, IInv, TypeOK, Bounds
<1>2. CASE ~req[r].won /\ req' = [req EXCEPT ![r].pc = "failing"]
  <2> DEFINE h == [req[r] EXCEPT !.pc = "failing"]
  <2>1. /\ h \in Request /\ h.pc = "failing" /\ h.id = req[r].id /\ h.served = req[r].served
      BY Before DEF Request, PCs
  <2>2. req' = [req EXCEPT ![r] = h]
      BY <1>2
  <2> HIDE DEF h
  <2>3. HandlerSound(r, h)
      BY <1>1, <2>1, Before DEF HandlerSound, IdSound, ChargeSound, ExcuseSound
  <2> QED
      BY <1>1, <2>1, <2>2, <2>3, MoveSound
<1>3. CASE /\ req[r].won
           /\ \E delivered, virtual \in BOOLEAN :
                LET settles == MaySettle(r, delivered) IN
                req' = [req EXCEPT ![r].served = delivered,
                                   ![r].pc = IF settles THEN "settle" ELSE "failing",
                                   ![r].virtual = settles /\ virtual]
  <2>1. PICK delivered \in BOOLEAN, virtual \in BOOLEAN :
          req' = [req EXCEPT ![r].served = delivered,
                             ![r].pc = IF MaySettle(r, delivered) THEN "settle" ELSE "failing",
                             ![r].virtual = MaySettle(r, delivered) /\ virtual]
      BY <1>3
  <2> DEFINE pc == IF MaySettle(r, delivered) THEN "settle" ELSE "failing"
             claims == MaySettle(r, delivered) /\ virtual
             h == [req[r] EXCEPT !.served = delivered, !.pc = pc, !.virtual = claims]
  <2>2. req' = [req EXCEPT ![r] = h]
      BY <2>1
  <2>3. \/ pc = "settle" /\ delivered /\ req[r].id # 0
        \/ pc = "failing" /\ (~delivered \/ req[r].id = 0)
    <3>1. CASE MaySettle(r, delivered)
      <4>1. pc = "settle"
          BY <3>1 DEF pc
      <4>2. delivered /\ req[r].id # 0
          BY <3>1, Zenon DEF MaySettle
      <4> HIDE DEF pc
      <4> QED
          BY <4>1, <4>2
    <3>2. CASE ~MaySettle(r, delivered)
        BY <3>2 DEF MaySettle
    <3> QED
        BY <3>1, <3>2
  <2>4. claims \in BOOLEAN /\ pc \in PCs
      BY DEF PCs
  <2> HIDE DEF pc, claims
  <2>5. [req[r] EXCEPT !.served = delivered] \in Request
      BY Before, FieldSet
  <2>6. [req[r] EXCEPT !.served = delivered, !.pc = pc] \in Request
      BY <2>4, <2>5, FieldSet
  <2>7. h \in Request
      BY <2>4, <2>6, FieldSet
  <2>8. /\ h.pc = pc /\ h.id = req[r].id /\ h.served = delivered /\ h.excused = req[r].excused
      BY Before DEF Request
  <2> HIDE DEF h
  <2>9. IdSound(r, h)
      BY <1>1, <2>3, <2>8, Before DEF IdSound
  <2>10. ChargeSound(r, h)
      BY <1>1, <2>3, <2>8, Before DEF ChargeSound
  <2>11. ExcuseSound(r, h)
      BY <1>1, <1>3, <2>3, <2>8, Before DEF ExcuseSound
  <2> QED
      BY <1>1, <2>2, <2>3, <2>7, <2>8, <2>9, <2>10, <2>11, MoveSound DEF HandlerSound
<1> QED
    BY <1>2, <1>3 DEF Finish

----------------------------------------------------------------------------
(***************************************************************************)
(* Settling.                                                               *)
(***************************************************************************)

\* A failed settlement is tried again without virtual reads, or ends excused.
LEMMA SettleFailsForm ==
  ASSUME IInv, NEW r \in Requests, req[r].pc \in {"settle", "commit"}, SettleFails(r)
  PROVE  \E h \in Request :
           /\ req' = [req EXCEPT ![r] = h] /\ h.served
           /\ \/ h.pc = "settle" /\ h.id = req[r].id
              \/ h.pc = "done" /\ h.id = 0 /\ h.excused
<1>1. req[r].served
    BY Before DEF ChargeSound
<1>2. CASE req[r].virtual
  <2> DEFINE g == [req[r] EXCEPT !.pc = "settle", !.virtual = FALSE]
             h == [req[r] EXCEPT !.pc = "settle", !.virtual = FALSE, !.cost = 0]
  <2>1. req' = [req EXCEPT ![r] = h]
      BY <1>2 DEF SettleFails
  <2>2. [req[r] EXCEPT !.pc = "settle"] \in Request
      BY Before DEF Request, PCs
  <2>3. g \in Request
      BY <2>2, FieldSet
  <2>4. h \in Request
      BY <2>3, FieldSet
  <2>5. h.served = req[r].served /\ h.pc = "settle" /\ h.id = req[r].id
      BY Before DEF Request
  <2> QED
      BY <1>1, <2>1, <2>4, <2>5
<1>3. CASE ~req[r].virtual
  <2> DEFINE h == Ended(r, TRUE)
  <2>1. req' = [req EXCEPT ![r] = h]
      BY <1>3 DEF SettleFails
  <2>2. /\ h \in Request /\ h.pc = "done" /\ h.id = 0 /\ h.served = req[r].served
        /\ h.excused = (req[r].served /\ (req[r].excused \/ TRUE))
      BY EndedForm DEF IInv
  <2> HIDE DEF h
  <2>3. h.excused
      BY <1>1, <2>2
  <2> QED
      BY <1>1, <2>1, <2>2, <2>3
<1> QED
    BY <1>2, <1>3

\* It leaves the tables alone.
LEMMA SettleFailsSound ==
  ASSUME IInv, NEW r \in Requests, req[r].pc \in {"settle", "commit"}, SettleFails(r),
         UNCHANGED <<log, nextId, fin, used, owed, charged, clobbered, form, price, job>>,
         spent' \in Bounds
  PROVE  IInv'
<1>1. PICK h \in Request :
        /\ req' = [req EXCEPT ![r] = h] /\ h.served
        /\ \/ h.pc = "settle" /\ h.id = req[r].id
           \/ h.pc = "done" /\ h.id = 0 /\ h.excused
    BY SettleFailsForm
<1>2. IdSound(r, h)
    BY <1>1, Before DEF IdSound
<1>3. ChargeSound(r, h)
    BY <1>1, Before DEF ChargeSound
<1>4. ExcuseSound(r, h)
    BY <1>1 DEF ExcuseSound
<1> QED
    BY <1>1, <1>2, <1>3, <1>4, MoveSound DEF HandlerSound

\* A finalization that exists already is that of the request's own charge.
LEMMA ConflictMeansCharged ==
  ASSUME IInv, NEW r \in Requests, req[r].pc = "settle", Conflict(r)
  PROVE  r \in charged
  BY Before DEF Conflict, FinSound, IInv, TypeOK

\* A transaction that begins keeps it.
LEMMA BeginSound ==
  ASSUME IInv, NEW r \in Requests, Begin(r)
  PROVE  IInv'
<1>1. /\ req[r].pc = "settle" /\ spent' \in Bounds
      /\ UNCHANGED <<log, nextId, fin, used, owed, charged, clobbered, form, price, job>>
    BY SpentTyped DEF Begin, table, key, prices, IInv
<1>2. CASE Conflict(r) /\ req' = [req EXCEPT ![r] = Ended(r, FALSE)]
  <2> DEFINE h == Ended(r, FALSE)
  <2>1. h \in Request /\ h.pc = "done" /\ h.id = 0 /\ h.served = req[r].served
      BY EndedForm DEF IInv
  <2>2. req' = [req EXCEPT ![r] = h] /\ r \in charged
      BY <1>1, <1>2, ConflictMeansCharged
  <2> HIDE DEF h
  <2>3. HandlerSound(r, h)
      BY <2>1, <2>2, <1>1, Before DEF HandlerSound, IdSound, ChargeSound, ExcuseSound
  <2> QED
      BY <1>1, <2>1, <2>2, <2>3, MoveSound
<1>3. CASE /\ ~Conflict(r) /\ req[r].id \in DOMAIN log
           /\ req' = [req EXCEPT ![r].pc = "commit", ![r].cost = log[req[r].id].cost]
  <2> DEFINE cost == log[req[r].id].cost
             h == [req[r] EXCEPT !.pc = "commit", !.cost = cost]
  <2>1. cost \in Prices /\ cost \in Nat
      BY <1>3 DEF IInv, RowsSound, RowSound
  <2>2. [req[r] EXCEPT !.pc = "commit"] \in Request
      BY Before DEF Request, PCs
  <2> HIDE DEF cost
  <2>3. h \in Request
      BY <2>1, <2>2, FieldSet
  <2>4. h.pc = "commit" /\ h.cost = cost /\ h.id = req[r].id /\ h.served = req[r].served
      BY Before DEF Request
  <2>5. req' = [req EXCEPT ![r] = h] /\ r \notin charged
      BY <1>1, <1>3, Before DEF ChargeSound, Conflict, cost
  <2> HIDE DEF h
  <2>6. IdSound(r, h)
      BY <2>1, <2>4, <1>3, Before DEF IdSound, cost
  <2>7. ChargeSound(r, h) /\ ExcuseSound(r, h)
      BY <2>4, <2>5, <1>1, Before DEF ChargeSound, ExcuseSound
  <2> QED
      BY <1>1, <2>3, <2>4, <2>5, <2>6, <2>7, MoveSound DEF HandlerSound
<1>4. CASE SettleFails(r)
    BY <1>1, <1>4, SettleFailsSound
<1> QED
    BY <1>2, <1>3, <1>4 DEF Begin

\* A commit keeps it.
LEMMA CommitSound ==
  ASSUME IInv, NEW r \in Requests, Commit(r)
  PROVE  IInv'
<1>1. req[r].pc = "commit" /\ spent' \in Bounds /\ req[r].served
    BY SpentTyped, Before DEF Commit, IInv, ChargeSound
<1>2. CASE Charge(r) /\ req' = [req EXCEPT ![r] = Ended(r, FALSE)]
  <2> DEFINE h == Ended(r, FALSE)
  <2>1. h \in Request /\ h.pc = "done" /\ h.id = 0 /\ h.served = req[r].served
      BY EndedForm DEF IInv
  <2> QED
      BY <1>1, <1>2, <2>1, ChargedSound
<1>3. CASE Charge(r) /\ SettleFails(r)
  <2>1. PICK h \in Request :
          /\ req' = [req EXCEPT ![r] = h] /\ h.served
          /\ \/ h.pc = "settle" /\ h.id = req[r].id
             \/ h.pc = "done" /\ h.id = 0 /\ h.excused
      BY <1>1, <1>3, SettleFailsForm
  <2>2. CASE h.pc = "settle" /\ h.id = req[r].id
      BY <1>1, <1>3, <2>1, <2>2, ChargedSound
  <2>3. CASE h.pc = "done" /\ h.id = 0 /\ h.excused
      BY <1>1, <1>3, <2>1, <2>3, ChargedSound
  <2> QED
      BY <2>1, <2>2, <2>3
<1>4. CASE SettleFails(r) /\ UNCHANGED <<table, fin, key, prices>>
    BY <1>1, <1>4, SettleFailsSound DEF table, key, prices
<1> QED
    BY <1>2, <1>3, <1>4 DEF Commit

----------------------------------------------------------------------------
(***************************************************************************)
(* The administrators.                                                     *)
(***************************************************************************)
LEMMA EditSound ==
  ASSUME IInv, NEW e \in Editors, EditRead(e) \/ EditSave(e)
  PROVE  IInv'
<1>0. /\ UNCHANGED <<req, log, nextId, fin, charged, price, job>> /\ spent' \in Bounds
      /\ form \in [Editors -> Nat \cup {Closed}] /\ used \in Nat /\ owed \in Nat /\ clobbered \in BOOLEAN
    BY SpentTyped DEF EditRead, EditSave, NoUpset, table, prices, IInv, TypeOK
<1>1. /\ form' \in [Editors -> Nat \cup {Closed}] /\ used' \in Nat /\ owed' \in Nat
      /\ clobbered' \in BOOLEAN /\ QuotaExact'
  <2>1. CASE EditRead(e)
      BY <2>1, <1>0 DEF EditRead, IInv, QuotaExact
  <2>2. CASE EditSave(e)
    <3>1. form[e] \in Nat /\ form' = [form EXCEPT ![e] = Closed]
        BY <2>2, <1>0 DEF EditSave, Loaded
    <3>2. form' \in [Editors -> Nat \cup {Closed}]
        BY <3>1, <1>0
    <3>3. CASE used' = 0 /\ owed' = 0 /\ UNCHANGED clobbered
        BY <3>2, <3>3, <1>0 DEF QuotaExact
    <3>4. CASE used' = form[e] /\ clobbered' = (clobbered \/ used # form[e]) /\ UNCHANGED owed
        BY <3>1, <3>2, <3>4, <1>0 DEF IInv, QuotaExact
    <3> QED
        BY <2>2, <3>3, <3>4 DEF EditSave
  <2> QED
      BY <2>1, <2>2
<1>2. TypeOK'
    BY <1>0, <1>1 DEF IInv, TypeOK, Bounds
<1>3. HandlersSound'
    BY <1>0 DEF IInv, HandlersSound, HandlerSound, IdSound, ChargeSound, ExcuseSound
<1>4. FinsSound' /\ RowsSound' /\ WinnersSound' /\ JobSound'
    BY <1>0 DEF IInv, FinsSound, FinSound, RowsSound, RowSound, WinnersSound, OneWinner, JobSound
<1> QED
    BY <1>1, <1>2, <1>3, <1>4 DEF IInv

\* Retention keeps it.
LEMMA RetentionSound ==
  ASSUME IInv, DeleteBefore \/ DeleteAll
  PROVE  IInv'
<1>1. UNCHANGED <<req, nextId, key, prices>> /\ spent' \in Bounds
    BY SpentTyped DEF DeleteBefore, DeleteAll, IInv
<1>2. CASE DeleteBefore
  <2>1. PICK cut \in DOMAIN log :
          LET kept == {i \in DOMAIN log : i > cut} IN
          /\ log' = Restrict(log, kept)
          /\ fin' = [r \in Requests |-> IF Retained(r, kept) THEN fin[r] ELSE "none"]
      BY <1>2 DEF DeleteBefore
  <2> QED
      BY <1>1, <2>1, DeleteSound
<1>3. CASE DeleteAll
  <2>1. log' = Restrict(log, {}) /\ fin' = [r \in Requests |-> "none"]
      BY <1>3 DEF DeleteAll
  <2>2. \A r \in Requests : ~Retained(r, {})
      BY DEF Retained
  <2>3. fin' = [r \in Requests |-> IF Retained(r, {}) THEN fin[r] ELSE "none"]
      BY <2>1, <2>2
  <2> QED
      BY <1>1, <2>1, <2>3, DeleteSound
<1> QED
    BY <1>2, <1>3

\* New prices keep it.
LEMMA ApplyPricesSound ==
  ASSUME IInv, ApplyPrices
  PROVE  IInv'
<1>1. PICK newest \in DOMAIN log \cup {0} :
        job' = [Idle EXCEPT !.st = "pending", !.upper = newest]
    BY DEF ApplyPrices
<1>2. newest \in Nat
    BY <1>1 DEF IInv, TypeOK
<1>3. job' \in Job /\ job'.page = {} /\ job'.st # "loaded"
    BY <1>1, <1>2 DEF Idle, Job
<1>4. JobSound'
    BY <1>3 DEF JobSound
<1>5. spent' \in Bounds
    BY SpentTyped DEF ApplyPrices, IInv
<1> QED
    BY <1>3, <1>4, <1>5, JobMoveSound DEF ApplyPrices

\* A page of the repricing keeps it.
LEMMA ReadPageSound ==
  ASSUME IInv, ReadPage
  PROVE  IInv'
<1> DEFINE page == FirstOf(InRange)
           winners == {i \in page : log[i].winner}
<1>1. job' = [job EXCEPT !.st = "paged", !.page = page, !.winners = winners]
    BY DEF ReadPage
<1>2. page \subseteq DOMAIN log /\ page \subseteq Nat
    BY DEF FirstOf, InRange, IInv, TypeOK
<1>3. winners \subseteq Nat /\ job \in Job
    BY <1>2 DEF IInv, TypeOK
<1> HIDE DEF page, winners
<1>4. job' \in Job /\ job'.page = page /\ job'.st = "paged"
    BY <1>1, <1>2, <1>3 DEF Job
<1>5. UNCHANGED nextId /\ \A i \in page : i < nextId
    BY <1>2 DEF ReadPage, table, IInv, TypeOK
<1>6. JobSound'
    BY <1>4, <1>5 DEF JobSound
<1>7. spent' \in Bounds /\ price' \in Prices
    BY DEF ReadPage, IInv, TypeOK, Bounds
<1> QED
    BY <1>4, <1>6, <1>7, JobMoveSound DEF ReadPage

\* Reading the final attempts keeps it.
LEMMA ReadFinalsSound ==
  ASSUME IInv, ReadFinals
  PROVE  IInv'
<1> DEFINE seen == {r \in Requests : fin[r] # "none" /\
                      \E i \in job.page \cap DOMAIN log : log[i].req = r}
<1>1. job' = [job EXCEPT !.st = "loaded", !.finals = seen, !.winners = Winners(seen)]
    BY DEF ReadFinals
<1>2. seen \subseteq Requests /\ Winners(seen) \subseteq Nat /\ job \in Job
    BY DEF Winners, IInv, TypeOK, Job
<1>3. \A r \in seen : r \in charged \/ req[r].pc = "done"
    BY DEF IInv, FinsSound, FinSound, TypeOK
<1> HIDE DEF seen
<1>4. /\ job' \in Job /\ job'.page = job.page /\ job'.finals = seen /\ job'.st = "loaded"
      /\ job'.winners = Winners(seen)
    BY <1>1, <1>2 DEF Job
<1>5. UNCHANGED <<req, log, nextId, charged>>
    BY DEF ReadFinals, table, key
<1>6. JobSound'
  <2>1. \A i \in job.page \cap DOMAIN log :
          log[i].req \in seen => (i \in Winners(seen) <=> log[i].winner)
      BY DEF Winners
  <2> QED
      BY <1>3, <1>4, <1>5, <2>1 DEF JobSound, IInv
<1>7. spent' \in Bounds /\ price' \in Prices
    BY DEF ReadFinals, IInv, TypeOK, Bounds
<1> QED
    BY <1>4, <1>6, <1>7, JobMoveSound DEF ReadFinals

\* A page that fails keeps it.
LEMMA PageFailsSound ==
  ASSUME IInv, PageFails
  PROVE  IInv'
<1>1. job' = [Idle EXCEPT !.st = "pending", !.last = job.last, !.upper = job.upper]
    BY DEF PageFails
<1>2. job.last \in Nat /\ job.upper \in Nat
    BY DEF IInv, TypeOK, Job
<1>3. job' \in Job /\ job'.page = {} /\ job'.st # "loaded"
    BY <1>1, <1>2 DEF Idle, Job
<1>4. JobSound'
    BY <1>3 DEF JobSound
<1>5. spent' \in Bounds /\ price' \in Prices
    BY SpentTyped DEF PageFails, IInv, TypeOK
<1> QED
    BY <1>3, <1>4, <1>5, JobMoveSound DEF PageFails

\* A repricing at its end keeps it.
LEMMA IdleSound ==
  ASSUME IInv, UNCHANGED vars
  PROVE  IInv'
<1>1. TypeOK' /\ JobSound' /\ QuotaExact'
    BY DEF vars, IInv, TypeOK, JobSound, QuotaExact
<1>2. HandlersSound'
    BY DEF vars, IInv, HandlersSound, HandlerSound, IdSound, ChargeSound, ExcuseSound
<1>3. FinsSound' /\ RowsSound' /\ WinnersSound'
    BY DEF vars, IInv, FinsSound, FinSound, RowsSound, RowSound, WinnersSound, OneWinner
<1> QED
    BY <1>1, <1>2, <1>3 DEF IInv

----------------------------------------------------------------------------

\* Every step keeps the invariant.
LEMMA StepSound ==
  ASSUME IInv, [Next]_vars
  PROVE  IInv'
<1>1. ASSUME NEW r \in Requests, Handler(r) PROVE IInv'
    BY <1>1, AdmitSound, AttemptFailsSound, GiveUpSound, ServeSound, RecordSound, RaceSound,
       AuditSound, FinishSound, BeginSound, CommitSound, FailedSound DEF Handler
<1>2. ASSUME NEW e \in Editors, EditRead(e) \/ EditSave(e) PROVE IInv'
    BY <1>2, EditSound
<1>3. CASE DeleteBefore \/ DeleteAll
    BY <1>3, RetentionSound
<1>4. CASE ApplyPrices
    BY <1>4, ApplyPricesSound
<1>5. CASE Worker
    BY <1>5, ReadPageSound, ReadFinalsSound, SavePageSound, PageFailsSound DEF Worker
<1>6. CASE UNCHANGED vars
    BY <1>6, IdleSound
<1> QED
    BY <1>1, <1>2, <1>3, <1>4, <1>5, <1>6 DEF Next

\* The invariant holds in every reachable state.
THEOREM SettlementInvariant == Spec => []IInv
<1>1. Init => IInv
    BY InitSound
<1>2. IInv /\ [Next]_vars => IInv'
    BY StepSound
<1> QED
    BY <1>1, <1>2, PTL DEF Spec

\* The tables, the handlers and the job stay well typed, and no charge or
\* bill is ever negative.
THEOREM TypeCorrect == Spec => []TypeOK
<1>1. IInv => TypeOK
    BY DEF IInv
<1> QED
    BY <1>1, SettlementInvariant, PTL

\* quota_used is the sum of the bills since the last reset, each request
\* counted once, unless a form opened before a charge was saved after it.
THEOREM QuotaIsExact == Spec => []QuotaExact
<1>1. IInv => QuotaExact
    BY DEF IInv
<1> QED
    BY <1>1, SettlementInvariant, PTL

\* Who was not served does not pay.
THEOREM NobodyPaysForNothing == Spec => []UndeliveredIsFree
<1>1. IInv => UndeliveredIsFree
    BY DEF IInv, TypeOK, HandlersSound, HandlerSound, ChargeSound, UndeliveredIsFree
<1> QED
    BY <1>1, SettlementInvariant, PTL

\* Who was served pays, but for the failures that the code only logs.
THEOREM ServedPay == Spec => []DeliveredIsCharged
<1>1. IInv => DeliveredIsCharged
    BY DEF IInv, HandlersSound, HandlerSound, ExcuseSound, DeliveredIsCharged
<1> QED
    BY <1>1, SettlementInvariant, PTL

\* The rows of a delivered request split into a winner that costs nothing
\* extra and losers that cost what they cost.
THEOREM ExtraCostIsLosers == Spec => []ExtraIsLosers
<1>1. IInv => ExtraIsLosers
    BY DEF IInv, TypeOK, Row, FinsSound, FinSound, RowsSound, RowSound, ExtraIsLosers
<1> QED
    BY <1>1, SettlementInvariant, PTL

\* A winner's row has its settlement, and a request one winner.
THEOREM WinnersAreSettled == Spec => []WinnersSettled
<1>1. IInv => WinnersSettled
    BY DEF IInv, TypeOK, Row, RowsSound, RowSound, WinnersSound, OneWinner, WinnersSettled
<1> QED
    BY <1>1, SettlementInvariant, PTL

(***************************************************************************)
(* What a settlement charges.                                              *)
(***************************************************************************)
\* Only the commit of its own handler makes a request a delivered one.
LEMMA OnlyCommitSettles ==
  ASSUME IInv, Next, NEW r \in Requests, Settles(r)
  PROVE  req[r].pc = "commit" /\ Charge(r)
<1>0. fin \in [Requests -> {"none", "failed", "delivered"}] /\ fin[r] # fin'[r]
    BY DEF IInv, TypeOK, Settles
<1>1. ASSUME NEW s \in Requests, Commit(s) PROVE req[r].pc = "commit" /\ Charge(r)
  <2>1. CASE Charge(s)
    <3>1. s = r
        BY <2>1, <1>0 DEF Charge
    <3> QED
        BY <3>1, <2>1, <1>1 DEF Commit
  <2>2. CASE UNCHANGED fin
      BY <2>2, <1>0
  <2> QED
      BY <2>1, <2>2, <1>1 DEF Commit
<1>2. ASSUME NEW s \in Requests, Handler(s), ~Commit(s) PROVE FALSE
  <2>1. CASE Failed(s)
    <3>1. fin' = [fin EXCEPT ![s] = IF @ = "none" THEN "failed" ELSE @] \/ UNCHANGED fin
        BY <2>1 DEF Failed
    <3> QED
        BY <3>1, <1>0 DEF Settles
  <2>2. CASE ~Failed(s)
    <3>1. UNCHANGED fin
        BY <2>2, <1>2 DEF Handler, Admit, AttemptFails, GiveUp, Serve, Record, Race, Audit,
                          Finish, Begin
    <3> QED
        BY <3>1, <1>0
  <2> QED
      BY <2>1, <2>2
<1>3. ASSUME NEW e \in Editors, EditRead(e) \/ EditSave(e) PROVE FALSE
    BY <1>3, <1>0 DEF EditRead, EditSave
<1>4. CASE DeleteBefore
  <2>1. fin'[r] = fin[r] \/ fin'[r] = "none"
      BY <1>4 DEF DeleteBefore
  <2> QED
      BY <2>1, <1>0 DEF Settles
<1>5. CASE DeleteAll
    BY <1>5 DEF DeleteAll, Settles
<1>6. CASE ApplyPrices \/ Worker
    BY <1>6, <1>0 DEF ApplyPrices, Worker, ReadPage, ReadFinals, SavePage, PageFails
<1> QED
    BY <1>1, <1>2, <1>3, <1>4, <1>5, <1>6 DEF Next

\* A charge is the cost on its winner's row at that moment, less what virtual
\* cache reads take off: the row's cost cannot have changed since it was read.
THEOREM ChargesMatchRows == Spec => ChargeMatchesRow
<1> DEFINE Matches == \A r \in Requests : Settles(r) =>
       \A i \in DOMAIN log :
         log'[i].req = r /\ log'[i].winner => used' - used = Bill(r, log[i].cost)
<1>1. ASSUME IInv, Next PROVE Matches
  <2> SUFFICES ASSUME NEW r \in Requests, Settles(r),
                      NEW i \in DOMAIN log, log'[i].req = r, log'[i].winner
               PROVE  used' - used = Bill(r, log[i].cost)
      OBVIOUS
  <2>1. req[r].pc = "commit" /\ Charge(r) /\ log[i] \in Row
      BY <1>1, OnlyCommitSettles DEF IInv, TypeOK
  <2>2. i = req[r].id
      BY <2>1 DEF Charge, Row
  <2>3. log[i].cost = req[r].cost
      BY <1>1, <2>1, <2>2 DEF IInv, HandlersSound, HandlerSound, IdSound
  <2>4. Bill(r, req[r].cost) \in Nat /\ used \in Nat /\ used' = used + Bill(r, req[r].cost)
      BY <1>1, <2>1, BillTyped DEF IInv, TypeOK, Charge
  <2> QED
      BY <2>3, <2>4
<1>2. IInv /\ [Next]_vars => [Matches]_vars
    BY <1>1
<1> QED
    BY <1>2, SettlementInvariant, PTL DEF Spec, ChargeMatchesRow
=============================================================================
