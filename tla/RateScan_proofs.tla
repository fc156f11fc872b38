--------------------------- MODULE RateScan_proofs ---------------------------
(***************************************************************************)
(* The sessions of a channel and its scans, for any jobs, subscribers,     *)
(* groups and scenarios: the credential of a channel in token mode is kept *)
(* as long as nothing loses it, no session outlives its credential, and    *)
(* nobody is told of one thing twice.                                      *)
(*                                                                         *)
(* The invariant follows the tokens.  One that is about to be saved is in  *)
(* the hands of one job alone and can still be refreshed (FreshIsOwn), and *)
(* no token is a pasted credential here and a session there (ChainsApart): *)
(* so a refresh spends the token of the row only in a job that saves its   *)
(* successor to the row.  A message is carried by one scan, and what one   *)
(* carries has not been told (CarriedOnce).                                *)
(***************************************************************************)
EXTENDS RateScan, TLAPS

Real == [acct : Accounts, n : 1..issued]
Held == Real \cup {NoToken}

\* A channel in password mode has no pasted token.
Rows == {r \in [live : BOOLEAN, mode : Modes, acct : Accounts, tok : Held] :
           r.mode = "password" => r.tok = NoToken}

SessionPcs == {"auth", "login", "refresh", "recheck", "persist", "ready"}
ScanPcs == {"list", "upsert", "write", "remove", "tell", "announce", "post", "tell news", "claim", "insert", "tell low"}

\* A job that is getting hold of its session.
InSession(j) == job[j].pc \in SessionPcs
Pasted(j) == InSession(j) /\ job[j].row.mode = "token"

JobRec == [pc : {"idle"} \cup SessionPcs \cup ScanPcs, row : Rows \cup {<<>>}, tok : Held]
OpRec == [pc : {"idle", "drop", "save"}, kind : Operations \cup {""}, copy : Rows \cup {<<>>}]

SessionShape ==
  /\ issued \in Nat \ {0}
  /\ row \in Rows /\ session \in Held
  /\ valid \subseteq Real /\ spendable \subseteq Real
  /\ job \in [Jobs -> JobRec]
  /\ \A j \in Jobs : InSession(j) => job[j].row \in Rows
  /\ op \in OpRec
  /\ op.pc # "idle" => op.kind \in Operations /\ op.copy \in Rows
  /\ plan \in Scenarios /\ budget \in Nat /\ lost \in BOOLEAN /\ late \in BOOLEAN

\* Only a channel in token mode checks a refreshed token, and only one in password
\* mode logs in; what is refreshed is a token.
ModesFit ==
  \A j \in Jobs :
    /\ job[j].pc = "recheck" => job[j].row.mode = "token"
    /\ job[j].pc = "login" => job[j].row.mode = "password"
    /\ job[j].pc = "refresh" => job[j].tok \in Real

\* Where pasted tokens are, and sessions.
IsPasted(t) ==
  \/ t = row.tok
  \/ op.pc # "idle" /\ t = op.copy.tok
  \/ \E j \in Jobs : InSession(j) /\ t = job[j].row.tok
  \/ \E j \in Jobs : Pasted(j) /\ t = job[j].tok
IsSession(t) ==
  \/ t = session
  \/ \E j \in Jobs : InSession(j) /\ ~Pasted(j) /\ t = job[j].tok

ChainsApart == \A t \in Real : ~(IsPasted(t) /\ IsSession(t))

\* A token about to be saved can be refreshed, and nobody else has it.
Fresh(j) == job[j].pc \in {"recheck", "persist"}
FreshIsOwn ==
  \A j \in Jobs : Fresh(j) =>
    /\ job[j].tok \in spendable
    /\ job[j].tok \notin {row.tok, session}
    /\ op.pc # "idle" => job[j].tok # op.copy.tok
    /\ \A k \in Jobs \ {j} : InSession(k) => job[j].tok \notin {job[k].tok, job[k].row.tok}

\* CredentialKept, with the job that will save the token to the row.
ChainKept ==
  row.mode = "token" /\ row.tok # NoToken /\ ~lost =>
    row.tok \in spendable \/ \E j \in Jobs : Fresh(j) /\ Pasted(j)

\* SessionBelongs, of a deleted channel too; and the operator's copy of the row.
Belongs == session # NoToken /\ ~late => row.mode = "password" /\ session.acct = row.acct
CopyFits ==
  /\ op.pc = "save" /\ DropsSession(op.kind) => session = NoToken \/ late
  /\ op.pc # "idle" /\ row.mode = "password" => op.copy.mode = "password" /\ op.copy.acct = row.acct

SessionInv == SessionShape /\ ModesFit /\ ChainsApart /\ FreshIsOwn /\ ChainKept /\ Belongs /\ CopyFits

-----------------------------------------------------------------------------
(* The scans. *)

Vals == Ratios \cup {Absent}
Items == [ev : {"changed", "added", "removed"}, group : Groups, old : Vals, new : Vals]
Mails == [to : Subscribers, what : (SUBSET Items) \cup (SUBSET Alerts)]
ScanRec == [results : RatesOf, existing : RatesOf, keys : SUBSET Groups, todo : SUBSET (Groups \cup Notices),
            at : {<<>>} \cup (Groups \X Vals), report : SUBSET Items, news : SUBSET Notices, quiet : BOOLEAN,
            outbox : SUBSET Mails, alone : BOOLEAN, overtaken : BOOLEAN]

ScanShape ==
  /\ offered \in RatesOf /\ snap \in RatesOf /\ logged \in RatesOf
  /\ listed \subseteq Notices /\ posts \subseteq Notices
  /\ cooldown \in {"none", "running", "over"} /\ window \in 1..Windows
  /\ told \in [Subscribers -> [Alerts -> Nat]]
  /\ scan \in [Jobs -> ScanRec]

\* What a scan works through is groups, and later announcements; a message is
\* about one alert of the cooldown's windows, or one announcement.
Notes == [to : Subscribers, what : {{k} : k \in Notices}]
LowMails == [to : Subscribers, what : {{w} : w \in 1..Windows}]
SoundAt(j) ==
  /\ job[j].pc \in {"upsert", "write", "remove"} => scan[j].todo \subseteq Groups
  /\ job[j].pc = "write" => scan[j].at \in Groups \X Vals
  /\ job[j].pc = "announce" => scan[j].news = {}
  /\ job[j].pc = "post" => scan[j].todo \subseteq Notices
  /\ job[j].pc = "tell news" => scan[j].outbox \subseteq Notes
  /\ job[j].pc = "tell low" => scan[j].outbox \subseteq LowMails
ScansSound == \A j \in Jobs : SoundAt(j)

\* What scan j is about to tell subscriber s: it has found the announcement new,
\* or has the message ready.
Brings(j, s, a) ==
  /\ ~scan[j].overtaken
  /\ \/ job[j].pc = "post" /\ a \in scan[j].news
     \/ /\ job[j].pc \in {"tell news", "tell low"}
        /\ \E m \in scan[j].outbox : m.to = s /\ m.what = {a}

CarriedOnce ==
  \A s \in Subscribers, a \in Alerts :
    /\ told[s][a] <= 1
    /\ \A j \in Jobs : Brings(j, s, a) =>
         told[s][a] = 0 /\ \A k \in Jobs \ {j} : ~Brings(k, s, a)

\* An announcement without a row, a window without a claim: nobody was told.
Unclaimed(a) ==
  \/ a \in Notices \ posts
  \/ a \in 1..Windows /\ (a > window \/ (a = window /\ cooldown # "running"))
UnclaimedIsUntold ==
  \A s \in Subscribers, a \in Alerts :
    Unclaimed(a) => told[s][a] = 0 /\ \A j \in Jobs : ~Brings(j, s, a)

MailInv == CarriedOnce /\ UnclaimedIsUntold

\* Nobody scans the rates beside a scan that is alone.
Rating(j) == plan.kind[j] = "rates" /\ job[j].pc # "idle"
Lone(j) == Rating(j) /\ scan[j].alone
LoneIsAlone == \A j \in Jobs : Lone(j) => \A k \in Jobs \ {j} : ~Rating(k)

\* What a scan has still to write, what the written and removed groups add to its
\* report, and a group that is as it should be.
Pending(j) == scan[j].todo \cup (IF job[j].pc = "write" THEN {scan[j].at[1]} ELSE {})
Removal(c, g) == Item("removed", g, c.existing[g], Absent)
ReportOf(c, written, removed) ==
  {i \in Items : \/ \E g \in written : i \in Noted(c, g, c.existing[g])
                \/ \E g \in removed : g \in c.keys /\ i = Removal(c, g)}
LoggedWell(c, g) == c.existing[g] \notin {Absent, c.results[g]} => logged[g] = c.results[g]

Writing(j) ==
  LET c == scan[j] IN
    /\ c.todo \subseteq Named(c.results)
    /\ job[j].pc = "write" => c.at[1] \in Named(c.results) \ c.todo /\ c.at[2] = c.existing[c.at[1]]
    /\ \A g \in Groups \ (Named(c.results) \ Pending(j)) : snap[g] = c.existing[g]
    /\ \A g \in Named(c.results) \ Pending(j) : snap[g] = c.results[g] /\ LoggedWell(c, g)
    /\ c.report = ReportOf(c, Named(c.results) \ Pending(j), {})
Removing(j) ==
  LET c == scan[j] IN
    /\ c.todo \subseteq Gone(c)
    /\ \A g \in Groups \ c.todo : snap[g] = c.results[g]
    /\ \A g \in Named(c.results) : LoggedWell(c, g)
    /\ c.report = ReportOf(c, Named(c.results), Gone(c) \ c.todo)
Telling(j) ==
  LET c == scan[j] IN
    /\ snap = c.results
    /\ \A g \in Named(c.results) : LoggedWell(c, g)
    /\ c.outbox = Messages(Difference(c))

ExactAt(j) ==
  /\ job[j].pc \in SessionPcs \cup {"list"} => scan[j].report = {}
  /\ job[j].pc \in {"upsert", "write"} => Writing(j)
  /\ job[j].pc = "remove" => Removing(j)
  /\ job[j].pc = "tell" => Telling(j)
LoneIsExact == \A j \in Jobs : Lone(j) => ExactAt(j)

ScanInv == ScanShape /\ ScansSound /\ MailInv /\ LoneIsAlone /\ LoneIsExact

IInv == SessionInv /\ ScanInv

-----------------------------------------------------------------------------
(* Tokens and records as the upstream hands out more of them. *)

\* No token is none of the real ones.
LEMMA NoTokenIsNotReal == SessionShape => NoToken \notin Real /\ NoToken \in Held
BY DEF Real, Held, NoToken

\* A new token is none of those there are.
LEMMA NewIsReal ==
  ASSUME SessionShape, NEW a \in Accounts, issued' = issued + 1
  PROVE  New(a) \in Real' /\ New(a) \notin Held
<1>1. issued \in Nat \ {0}
      BY DEF SessionShape
<1>2. New(a) \in Real'
      BY <1>1 DEF New, Real
<1>3. New(a) \notin Real /\ New(a) # NoToken
  <2>1. New(a).n = issued + 1 /\ NoToken.n = 0
        BY DEF New, NoToken
  <2>2. \A t \in Real : t.n \in 1..issued
        BY DEF Real
  <2>3. issued + 1 \notin 1..issued /\ issued + 1 # 0
        BY <1>1
  <2> QED
      BY <2>1, <2>2, <2>3
<1> QED
    BY <1>2, <1>3 DEF Held

\* What was a token, a row or a job stays one.
LEMMA Grows ==
  ASSUME SessionShape, issued' = issued \/ issued' = issued + 1
  PROVE  /\ issued' \in Nat \ {0}
         /\ Real \subseteq Real' /\ Held \subseteq Held' /\ Rows \subseteq Rows'
         /\ JobRec \subseteq JobRec' /\ OpRec \subseteq OpRec'
<1>1. issued \in Nat \ {0} /\ issued' \in Nat \ {0}
      BY DEF SessionShape
<1>2. 1..issued \subseteq 1..(issued')
      BY <1>1
<1>3. Real \subseteq Real'
      BY <1>2 DEF Real
<1>4. Held \subseteq Held'
      BY <1>3 DEF Held
<1>5. Rows \subseteq Rows'
      BY <1>4 DEF Rows
<1>6. Rows \cup {<<>>} \subseteq Rows' \cup {<<>>}
      BY <1>5
<1>7. JobRec \subseteq JobRec'
      BY <1>4, <1>6 DEF JobRec
<1>8. OpRec \subseteq OpRec'
      BY <1>6 DEF OpRec
<1> QED
    BY <1>1, <1>3, <1>4, <1>5, <1>7, <1>8

\* What the ways to go on make of a job.
LEMMA JobMoves ==
  ASSUME SessionShape, NEW j \in Jobs
  PROVE  /\ \A pc : Goto(j, pc) =>
              /\ job'[j].pc = pc /\ job'[j].row = job[j].row /\ job'[j].tok = job[j].tok
              /\ \A k \in Jobs \ {j} : job'[k] = job[k]
         /\ \A pc, t : Holding(j, pc, t) =>
              /\ job'[j].pc = pc /\ job'[j].row = job[j].row /\ job'[j].tok = t
              /\ \A k \in Jobs \ {j} : job'[k] = job[k]
         /\ Leave(j) =>
              /\ job'[j].pc = "idle"
              /\ \A k \in Jobs \ {j} : job'[k] = job[k]
         /\ \A pc : Step(j, pc) =>
              /\ job'[j].pc = pc
              /\ \A k \in Jobs \ {j} : job'[k] = job[k]
<1>1. job \in [Jobs -> JobRec] /\ job[j] \in JobRec
      BY DEF SessionShape
<1>2. ASSUME NEW pc, Goto(j, pc)
      PROVE  /\ job'[j].pc = pc /\ job'[j].row = job[j].row /\ job'[j].tok = job[j].tok
             /\ \A k \in Jobs \ {j} : job'[k] = job[k]
  <2>1. job'[j] = [job[j] EXCEPT !.pc = pc] /\ \A k \in Jobs \ {j} : job'[k] = job[k]
        BY <1>1, <1>2 DEF Goto
  <2> QED
      BY <1>1, <2>1 DEF JobRec
<1>3. ASSUME NEW pc, NEW t, Holding(j, pc, t)
      PROVE  /\ job'[j].pc = pc /\ job'[j].row = job[j].row /\ job'[j].tok = t
             /\ \A k \in Jobs \ {j} : job'[k] = job[k]
  <2>1. job' = [job EXCEPT ![j].pc = pc, ![j].tok = t]
        BY <1>3 DEF Holding
  <2>2. job'[j] = [job[j] EXCEPT !.pc = pc, !.tok = t]
        BY <1>1, <2>1
  <2>3. \A k \in Jobs \ {j} : job'[k] = job[k]
        BY <1>1, <2>1
  <2> QED
      BY <1>1, <2>2, <2>3 DEF JobRec
<1>4. ASSUME Leave(j) PROVE job'[j].pc = "idle" /\ \A k \in Jobs \ {j} : job'[k] = job[k]
      BY <1>1, <1>4 DEF Leave, Idle
<1>5. ASSUME NEW pc, Step(j, pc) PROVE job'[j].pc = pc /\ \A k \in Jobs \ {j} : job'[k] = job[k]
      BY <1>1, <1>5 DEF Step, Idle
<1> QED
    BY <1>2, <1>3, <1>4, <1>5

\* A job's own copy and token, and what it would ask the upstream about.
LEMMA JobHolds ==
  ASSUME SessionShape, NEW j \in Jobs, InSession(j)
  PROVE  /\ job[j].row \in Rows /\ job[j].tok \in Held
         /\ HeldToken(j) \in Held /\ job[j].row.mode \in {"password", "token"} /\ job[j].row.acct \in Accounts
         /\ job[j].row.tok \in Held
<1>1. job[j] \in JobRec /\ session \in Held /\ job[j].row \in Rows
      BY DEF SessionShape
<1>2. job[j].tok \in Held
      BY <1>1 DEF JobRec
<1>3. job[j].row.tok \in Held /\ job[j].row.mode \in {"password", "token"} /\ job[j].row.acct \in Accounts
      BY <1>1 DEF Rows, Modes
<1> QED
    BY <1>1, <1>2, <1>3 DEF HeldToken
Pcs == {"idle"} \cup SessionPcs \cup ScanPcs

\* A job that moves stays well typed.
LEMMA JobTyped ==
  ASSUME SessionShape, issued' = issued \/ issued' = issued + 1,
         NEW j \in Jobs, NEW pc \in Pcs, NEW t \in Held',
         Goto(j, pc) \/ Holding(j, pc, t) \/ Leave(j) \/ Step(j, pc)
  PROVE  job' \in [Jobs -> JobRec']
<1>1. job \in [Jobs -> JobRec'] /\ job[j] \in JobRec'
      BY Grows DEF SessionShape
<1>2. NoToken \in Held'
      BY DEF Held
<1>3. CASE Goto(j, pc)
  <2>1. [job[j] EXCEPT !.pc = pc] \in JobRec'
        BY <1>1 DEF JobRec, Pcs
  <2>2. job' = [job EXCEPT ![j] = [job[j] EXCEPT !.pc = pc]]
        BY <1>3 DEF Goto
  <2> QED
      BY <1>1, <2>1, <2>2
<1>4. CASE Holding(j, pc, t)
  <2>1. [job[j] EXCEPT !.pc = pc, !.tok = t] \in JobRec'
        BY <1>1 DEF JobRec, Pcs
  <2>2. job' = [job EXCEPT ![j] = [job[j] EXCEPT !.pc = pc, !.tok = t]]
        BY <1>1, <1>4 DEF Holding
  <2> QED
      BY <1>1, <2>1, <2>2
<1>5. CASE Leave(j) \/ Step(j, pc)
  <2>1. [pc |-> pc, row |-> <<>>, tok |-> NoToken] \in JobRec' /\ Idle \in JobRec'
        BY <1>2 DEF JobRec, Pcs, Idle
  <2>2. [Idle EXCEPT !.pc = pc] = [pc |-> pc, row |-> <<>>, tok |-> NoToken]
        BY DEF Idle
  <2> QED
      BY <1>1, <1>5, <2>1, <2>2 DEF Leave, Step
<1> QED
    BY <1>3, <1>4, <1>5

-----------------------------------------------------------------------------
(* What a step does to a job, its tokens and its channel. *)

Others(j) == \A k \in Jobs \ {j} : job'[k] = job[k]
Kept == row' = row /\ session' = session /\ op' = op /\ late' = late
TokensKept == issued' = issued /\ spendable' = spendable

Starts(j) ==
  /\ job[j].pc = "idle" /\ job'[j].pc \in {"auth", "login"}
  /\ job'[j].row = row /\ job'[j].tok = NoToken
  /\ job'[j].pc = "login" => row.mode = "password"
  /\ Others(j) /\ Kept /\ TokensKept /\ lost' = lost

\* Nothing is issued, or the token being refreshed is spent and the answer lost.
MaySpend(j) ==
  \/ TokensKept /\ lost' = lost
  \/ /\ job[j].pc = "refresh" /\ Issue(New(job[j].tok.acct), {job[j].tok})
     /\ lost' = (lost \/ job[j].row.mode = "token")

Moves(j) ==
  /\ InSession(j) /\ ~Fresh(j) /\ job'[j].pc \in {"login", "refresh", "ready"}
  /\ job'[j].row = job[j].row /\ job'[j].tok \in {job[j].tok, HeldToken(j), NoToken}
  /\ job'[j].pc = "login" => job[j].row.mode = "password"
  /\ job'[j].pc = "refresh" => job'[j].tok # NoToken
  /\ Others(j) /\ Kept /\ MaySpend(j)

Quits(j) ==
  /\ job'[j].pc \in {"idle"} \cup ScanPcs
  /\ Others(j) /\ row' = row /\ op' = op
  /\ (session' = session /\ late' = late) \/ (session' = NoToken /\ late' = FALSE)
  /\ MaySpend(j) \/ (TokensKept /\ lost' = TRUE)
  /\ Fresh(j) => TokensKept /\ lost' = TRUE

Renews(j) ==
  /\ job[j].pc = "refresh" /\ job[j].tok \in spendable
  /\ Issue(New(job[j].tok.acct), {job[j].tok})
  /\ job'[j].pc = IF job[j].row.mode = "token" THEN "recheck" ELSE "persist"
  /\ job'[j].row = job[j].row /\ job'[j].tok = New(job[j].tok.acct)
  /\ Others(j) /\ Kept /\ lost' = lost

Checks(j) ==
  /\ job[j].pc = "recheck" /\ job'[j].pc = "persist"
  /\ job'[j].row = job[j].row /\ job'[j].tok = job[j].tok
  /\ Others(j) /\ Kept /\ TokensKept /\ lost' = lost

LogsIn(j) ==
  /\ job[j].pc = "login" /\ job'[j].pc = "persist"
  /\ Issue(New(job[j].row.acct), {})
  /\ job'[j].row = job[j].row /\ job'[j].tok = New(job[j].row.acct)
  /\ Others(j) /\ Kept /\ lost' = lost

Persists(j) ==
  /\ Persist(j)
  /\ job'[j].pc = "ready" /\ job'[j].tok = job[j].tok
  /\ job'[j].row = IF job[j].row.mode = "token" THEN Persisted(j) ELSE job[j].row
  /\ Others(j) /\ TokensKept

JobForm(j) ==
  Starts(j) \/ Moves(j) \/ Quits(j) \/ Renews(j) \/ Checks(j) \/ LogsIn(j) \/ Persists(j)

\* The step of a scan that has its session, or nothing of the session at all.
ScanForm(j) ==
  \E pc \in {"idle"} \cup ScanPcs : job[j].pc \in {"ready"} \cup ScanPcs /\ Step(j, pc)

\* A refused refresh is a move or an end.
LEMMA RefusedForm ==
  ASSUME SessionShape, NEW j \in Jobs, job[j].pc = "refresh", Refused(j), row' = row, session' = session,
         op' = op, late' = late, MaySpend(j)
  PROVE  Moves(j) \/ Quits(j)
<1>1. InSession(j) /\ ~Fresh(j)
      BY DEF InSession, Fresh, SessionPcs
<1>2. job[j].row.mode \in {"password", "token"}
      BY <1>1, JobHolds
<1>3. CASE job[j].row.mode = "token"
      BY <1>1, <1>3, JobMoves DEF Refused, Quits, Others
<1>4. CASE job[j].row.mode = "password"
  <2>1. Holding(j, "login", NoToken)
        BY <1>4 DEF Refused
  <2>2. job'[j].pc = "login" /\ job'[j].row = job[j].row /\ job'[j].tok = NoToken /\ Others(j)
        BY <2>1, JobMoves DEF Others
  <2> QED
      BY <1>1, <1>4, <2>2 DEF Moves, Kept
<1> QED
    BY <1>2, <1>3, <1>4

\* Every step of a job has one of these forms.
LEMMA JobForms ==
  ASSUME SessionShape, ModesFit, NEW j \in Jobs,
         Begin(j) \/ SessionStep(j) \/ CheckFails(j) \/ RefreshLost(j) \/ ScanForm(j)
  PROVE  JobForm(j)
<1>0. job \in [Jobs -> JobRec] /\ job[j] \in JobRec
      BY DEF SessionShape
<1>1. CASE Begin(j)
  <2>1. job'[j] = [pc |-> IF plan.kind[j] = "test" /\ row.mode = "password" THEN "login" ELSE "auth",
                   row |-> row, tok |-> NoToken]
        BY <1>0, <1>1 DEF Begin
  <2>2. Others(j)
        BY <1>0, <1>1 DEF Begin, Others
  <2>3. /\ job'[j].pc = IF plan.kind[j] = "test" /\ row.mode = "password" THEN "login" ELSE "auth"
        /\ job'[j].row = row /\ job'[j].tok = NoToken
        BY <2>1
  <2>4. Kept /\ TokensKept /\ lost' = lost /\ job[j].pc = "idle"
        BY <1>1 DEF Begin, Kept, TokensKept, tokens
  <2> QED
      BY <2>2, <2>3, <2>4 DEF Starts, JobForm
<1>2. CASE EnsureSession(j)
  <2>1. InSession(j) /\ ~Fresh(j) /\ MaySpend(j) /\ Kept
        BY <1>2 DEF EnsureSession, InSession, Fresh, SessionPcs, MaySpend, TokensKept, tokens, Kept
  <2>2. job[j].row.mode \in {"password", "token"}
        BY <2>1, JobHolds
  <2>3. CASE Leave(j)
        BY <2>1, <2>3, JobMoves DEF Kept, Quits, Others, JobForm
  <2>4. CASE Goto(j, "login") /\ job[j].row.mode # "token"
        BY <2>1, <2>2, <2>4, JobMoves DEF Moves, Others, JobForm
  <2>5. CASE Holding(j, "ready", HeldToken(j))
        BY <2>1, <2>5, JobMoves DEF Moves, Others, JobForm
  <2>6. CASE Holding(j, "refresh", HeldToken(j)) /\ HeldToken(j) # NoToken
        BY <2>1, <2>6, JobMoves DEF Moves, Others, JobForm
  <2> QED
      BY <1>2, <2>3, <2>4, <2>5, <2>6 DEF EnsureSession
<1>3. CASE CheckFails(j)
  <2>1. InSession(j) /\ ~Fresh(j) /\ MaySpend(j) /\ Kept
        BY <1>3 DEF CheckFails, InSession, Fresh, SessionPcs, MaySpend, TokensKept, tokens, Kept
  <2> QED
      BY <1>3, <2>1, JobMoves DEF CheckFails, Moves, Others, JobForm
<1>4. CASE refreshSession(j)
  <2>1. Kept /\ lost' = lost /\ job[j].pc = "refresh"
        BY <1>4 DEF refreshSession, Kept
  <2>2. CASE Refused(j) /\ UNCHANGED tokens
        BY <2>1, <2>2, RefusedForm DEF Kept, MaySpend, TokensKept, tokens, JobForm
  <2>3. CASE job[j].tok \in spendable /\ Issue(New(job[j].tok.acct), {job[j].tok})
             /\ Holding(j, IF job[j].row.mode = "token" THEN "recheck" ELSE "persist", New(job[j].tok.acct))
        BY <2>1, <2>3, JobMoves DEF Renews, Others, JobForm
  <2> QED
      BY <1>4, <2>2, <2>3 DEF refreshSession
<1>5. CASE RefreshLost(j)
  <2>1. Kept /\ job[j].pc = "refresh" /\ Refused(j) /\ MaySpend(j)
        BY <1>5 DEF RefreshLost, Kept, MaySpend, TokensKept, tokens
  <2> QED
      BY <2>1, RefusedForm DEF Kept, JobForm
<1>6. CASE CheckRefreshed(j)
  <2>1. Kept /\ TokensKept /\ job[j].pc = "recheck"
        BY <1>6 DEF CheckRefreshed, Kept, TokensKept, tokens
  <2>2. CASE Leave(j) /\ lost' = TRUE
        BY <2>1, <2>2, JobMoves DEF Quits, Others, Kept, JobForm
  <2>3. CASE Goto(j, "persist") /\ lost' = lost
        BY <2>1, <2>3, JobMoves DEF Checks, Others, JobForm
  <2> QED
      BY <1>6, <2>2, <2>3 DEF CheckRefreshed
<1>7. CASE Persist(j)
  <2>1. /\ job[j].pc = "persist" /\ TokensKept
        /\ job'[j] = [job[j] EXCEPT !.pc = "ready", !.row = IF @.mode = "token" THEN Persisted(j) ELSE @]
        /\ Others(j)
        BY <1>0, <1>7 DEF Persist, TokensKept, tokens, Others
  <2>2. job'[j].pc = "ready" /\ job'[j].tok = job[j].tok
        /\ job'[j].row = IF job[j].row.mode = "token" THEN Persisted(j) ELSE job[j].row
        BY <1>0, <2>1 DEF JobRec
  <2> QED
      BY <1>7, <2>1, <2>2 DEF Persists, JobForm
<1>8. CASE login(j)
  <2>1. row' = row /\ op' = op /\ lost' = lost /\ job[j].pc = "login"
        BY <1>8 DEF login
  <2>2. CASE session' = NoToken /\ late' = FALSE /\ Leave(j) /\ UNCHANGED tokens
        BY <2>1, <2>2, JobMoves DEF Quits, Others, MaySpend, TokensKept, tokens, Fresh, JobForm
  <2>3. CASE Issue(New(job[j].row.acct), {}) /\ Holding(j, "persist", New(job[j].row.acct))
             /\ session' = session /\ late' = late
        BY <2>1, <2>3, JobMoves DEF LogsIn, Others, Kept, JobForm
  <2> QED
      BY <1>8, <2>2, <2>3 DEF login
<1>9. CASE CallDone(j)
      BY <1>9, JobMoves DEF CallDone, Quits, Others, MaySpend, TokensKept, tokens, Fresh, JobForm
<1>10. CASE ScanForm(j)
  <2>1. PICK pc \in {"idle"} \cup ScanPcs : job[j].pc \in {"ready"} \cup ScanPcs /\ Step(j, pc)
        BY <1>10 DEF ScanForm
  <2>2. ~Fresh(j)
        BY <2>1 DEF Fresh, ScanPcs
  <2>3. job'[j].pc = pc /\ Others(j)
        BY <2>1, JobMoves DEF Others
  <2> QED
      BY <2>1, <2>2, <2>3 DEF Step, Quits, MaySpend, TokensKept, tokens, JobForm
<1> QED
    BY <1>1, <1>2, <1>3, <1>4, <1>5, <1>6, <1>7, <1>8, <1>9, <1>10 DEF SessionStep
JobStep(j) == Begin(j) \/ SessionStep(j) \/ CheckFails(j) \/ RefreshLost(j) \/ ScanForm(j)
Operates == (\E kind \in Operations : Ask(kind)) \/ Drop \/ Save
Rests == UNCHANGED <<row, session, issued, spendable, job, op, lost, late>> /\ valid' \subseteq valid

\* Every step is one of a job, one of the operator, or leaves sessions alone.
LEMMA SessionNext ==
  ASSUME [Next]_vars
  PROVE  (\E j \in Jobs : JobStep(j)) \/ Operates \/ Rests
<1>1. ASSUME NEW j \in Jobs, Start(j) \/ Prepare(j) PROVE JobStep(j)
      BY <1>1 DEF Start, Prepare, JobStep
<1>2. ASSUME NEW j \in Jobs, ScanStep(j), ~Prepare(j) PROVE JobStep(j)
  <2>1. ASSUME NEW pc \in {"idle"} \cup ScanPcs, job[j].pc \in {"ready"} \cup ScanPcs, Step(j, pc)
        PROVE  JobStep(j)
        BY <2>1 DEF JobStep, ScanForm
  <2>2. {"idle", "list", "upsert", "write", "remove", "tell", "announce", "post", "tell news", "claim",
         "insert", "tell low"} \subseteq {"idle"} \cup ScanPcs
        BY DEF ScanPcs
  <2>3. CASE GetRates(j) \/ ListByChannel(j) \/ UpsertRead(j) \/ UpsertWrite(j)
        BY <2>1, <2>2, <2>3 DEF GetRates, ListByChannel, UpsertRead, UpsertWrite, Is
  <2>4. CASE Written(j) \/ DeleteSnapshot(j) \/ Report(j) \/ SendRates(j)
        BY <2>1, <2>2, <2>4 DEF Written, DeleteSnapshot, Report, SendRates, Is
  <2>5. CASE Send(j) \/ Sent(j)
        BY <2>1, <2>2, <2>5 DEF Send, Sent
  <2>6. CASE GetAnnouncements(j) \/ SyncAnnouncement(j) \/ Announce(j)
    <3>1. job[j].pc \in {"announce", "post"}
          BY <2>6 DEF GetAnnouncements, SyncAnnouncement, Announce, Is
    <3>2. Step(j, "idle") \/ Step(j, "post") \/ Step(j, "tell news")
          BY <2>6 DEF GetAnnouncements, SyncAnnouncement, Announce
    <3> QED
        BY <2>1, <2>2, <3>1, <3>2
  <2>7. CASE GetBalance(j) \/ ClaimExpired(j) \/ InsertClaim(j) \/ ClaimFails(j)
        BY <2>1, <2>2, <2>7 DEF GetBalance, ClaimExpired, InsertClaim, ClaimFails, Is
  <2> QED
      BY <1>2, <2>3, <2>4, <2>5, <2>6, <2>7 DEF ScanStep
<1>3. CASE Operate
      BY <1>3 DEF Operate, Operates
<1>4. CASE WindowEnds \/ Reoffer \/ Publish \/ Retain
      BY <1>4 DEF WindowEnds, Reoffer, Publish, Retain, sessionVars, tokens, Rests
<1>5. CASE Expire
      BY <1>5 DEF Expire, Rests
<1>6. CASE UNCHANGED vars
      BY <1>6 DEF vars, sessionVars, Rests
<1> QED
    BY <1>1, <1>2, <1>3, <1>4, <1>5, <1>6 DEF Next

\* The scenario stays, and its budget is not overdrawn.
LEMMA BudgetStep ==
  ASSUME SessionShape, [Next]_vars
  PROVE  plan' = plan /\ budget' \in Nat
<1>1. budget \in Nat
      BY DEF SessionShape
<1>2. \A event : Happens(event) => plan' = plan /\ budget' \in Nat
      BY <1>1 DEF Happens
<1>3. UNCHANGED rest => plan' = plan /\ budget' \in Nat
      BY <1>1 DEF rest
<1>4. ASSUME NEW j \in Jobs, Start(j) \/ Prepare(j) PROVE plan' = plan /\ budget' \in Nat
      BY <1>2, <1>3, <1>4 DEF Start, Begin, Prepare, SessionStep, EnsureSession, CheckFails, refreshSession,
         RefreshLost, CheckRefreshed, Persist, login, CallDone, Fault
<1>5. ASSUME NEW j \in Jobs, ScanStep(j), ~Prepare(j) PROVE plan' = plan /\ budget' \in Nat
  <2>1. CASE GetRates(j) \/ ListByChannel(j) \/ UpsertRead(j) \/ UpsertWrite(j) \/ Written(j)
        BY <1>2, <1>3, <2>1 DEF GetRates, ListByChannel, UpsertRead, UpsertWrite, Written, Fault
  <2>2. CASE DeleteSnapshot(j) \/ Report(j) \/ SendRates(j) \/ Send(j) \/ Sent(j)
        BY <1>2, <1>3, <2>2 DEF DeleteSnapshot, Report, SendRates, Send, Sent, Fault
  <2>3. CASE GetAnnouncements(j)
        BY <1>2, <1>3, <2>3 DEF GetAnnouncements, Fault
  <2>4. CASE SyncAnnouncement(j) \/ Announce(j) \/ ClaimExpired(j) \/ InsertClaim(j)
        BY <1>3, <2>4 DEF SyncAnnouncement, Announce, ClaimExpired, InsertClaim
  <2>5. CASE GetBalance(j) \/ ClaimFails(j)
        BY <1>2, <1>3, <2>5 DEF GetBalance, ClaimFails, Fault
  <2> QED
      BY <1>5, <2>1, <2>2, <2>3, <2>4, <2>5 DEF ScanStep
<1>6. CASE Operate
      BY <1>2, <1>3, <1>6 DEF Operate, Ask, Drop, Save
<1>7. CASE WindowEnds \/ Reoffer \/ Publish \/ Retain \/ Expire
      BY <1>1, <1>2, <1>7 DEF WindowEnds, Reoffer, Publish, Retain, Expire, sessionVars
<1>8. CASE UNCHANGED vars
      BY <1>1, <1>8 DEF vars, sessionVars
<1> QED
    BY <1>4, <1>5, <1>6, <1>7, <1>8 DEF Next

-----------------------------------------------------------------------------
(* Types. *)

\* A token is handed out.
LEMMA IssueTyped ==
  ASSUME SessionShape, NEW a \in Accounts, NEW spent, Issue(New(a), spent)
  PROVE  /\ issued' = issued + 1 /\ valid' \subseteq Real' /\ spendable' \subseteq Real'
         /\ New(a) \in Real' /\ New(a) \notin Held
<1>1. issued' = issued + 1 /\ valid' = valid \cup {New(a)} /\ spendable' = (spendable \ spent) \cup {New(a)}
      BY DEF Issue
<1>2. valid \subseteq Real' /\ spendable \subseteq Real' /\ New(a) \in Real' /\ New(a) \notin Held
      BY <1>1, Grows, NewIsReal DEF SessionShape
<1> QED
    BY <1>1, <1>2

TokensTyped ==
  (issued' = issued \/ issued' = issued + 1) /\ valid' \subseteq Real' /\ spendable' \subseteq Real'

\* Where nothing is handed out, tokens stay well typed.
LEMMA TokensUnchanged ==
  ASSUME SessionShape, issued' = issued, spendable' = spendable, valid' \subseteq valid
  PROVE  TokensTyped
<1>1. Real' = Real
      BY DEF Real
<1> QED
    BY <1>1 DEF TokensTyped, SessionShape

\* The row that a job saves is a row.
LEMMA PersistedTyped ==
  ASSUME SessionShape, FreshIsOwn, issued' = issued \/ issued' = issued + 1, NEW j \in Jobs, Persist(j)
  PROVE  /\ job[j].row \in Rows'
         /\ job[j].row.mode = "token" => Persisted(j) \in Rows'
<1>1. InSession(j)
      BY DEF Persist, InSession, SessionPcs
<1>2. job[j].row \in Rows' /\ job[j].tok \in Held /\ job[j].tok \in Held'
      BY <1>1, JobHolds, Grows
<1>3. job[j].tok.acct \in Accounts
      BY DEF Persist, Fresh, FreshIsOwn, SessionShape, Real
<1>4. ASSUME job[j].row.mode = "token" PROVE Persisted(j) \in Rows'
  <2>1. Persisted(j).mode = "token"
        BY <1>2, <1>4 DEF Persisted, Rows
  <2>2. Persisted(j) \in [live : BOOLEAN, mode : Modes, acct : Accounts, tok : Held']
        BY <1>2, <1>3 DEF Persisted, Rows
  <2> QED
      BY <2>1, <2>2 DEF Rows
<1> QED
    BY <1>2, <1>4

\* A step of a job keeps the shape of sessions.
LEMMA JobStepTyped ==
  ASSUME SessionShape, ModesFit, FreshIsOwn, NEW j \in Jobs, JobStep(j)
  PROVE  /\ TokensTyped /\ job' \in [Jobs -> JobRec'] /\ row' \in Rows' /\ session' \in Held'
         /\ lost' \in BOOLEAN /\ late' \in BOOLEAN
<1>0. /\ row \in Rows /\ session \in Held /\ valid \subseteq Real /\ spendable \subseteq Real
      /\ lost \in BOOLEAN /\ late \in BOOLEAN /\ NoToken \in Held' /\ NoToken \in Held
      BY DEF SessionShape, Held
<1>1. TokensTyped
  <2>1. CASE UNCHANGED tokens
        BY <2>1, TokensUnchanged DEF tokens
  <2>2. ASSUME job[j].pc = "refresh", Issue(New(job[j].tok.acct), {job[j].tok}) PROVE TokensTyped
    <3>1. job[j].tok.acct \in Accounts
          BY <2>2 DEF ModesFit, Real
    <3> QED
        BY <2>2, <3>1, IssueTyped DEF TokensTyped
  <2>3. ASSUME job[j].pc = "login", Issue(New(job[j].row.acct), {}) PROVE TokensTyped
    <3>1. job[j].row.acct \in Accounts
          BY <2>3, JobHolds DEF InSession, SessionPcs
    <3> QED
        BY <2>3, <3>1, IssueTyped DEF TokensTyped
  <2> QED
      BY <2>1, <2>2, <2>3 DEF JobStep, ScanForm, Step, Begin, SessionStep, EnsureSession, CheckFails, refreshSession,
         RefreshLost, CheckRefreshed, Persist, login, CallDone
<1>2. /\ row \in Rows' /\ session \in Held'
      /\ issued' = issued \/ issued' = issued + 1
      /\ job \in [Jobs -> JobRec']
      BY <1>0, <1>1, Grows DEF TokensTyped, SessionShape
<1>3. job[j] \in JobRec /\ job[j] \in JobRec' /\ job[j].tok \in Held'
      BY <1>2 DEF SessionShape, JobRec
<1>4. job' \in [Jobs -> JobRec']
  <2>1. \A pc \in Pcs, t \in Held' :
          Goto(j, pc) \/ Holding(j, pc, t) \/ Leave(j) \/ Step(j, pc) => job' \in [Jobs -> JobRec']
        BY <1>2, JobTyped
  <2>2. {"idle", "auth", "login", "refresh", "recheck", "persist", "ready"} \subseteq Pcs
        BY DEF Pcs, SessionPcs
  <2>3. Refused(j) => job' \in [Jobs -> JobRec']
        BY <1>0, <2>1, <2>2 DEF Refused
  <2>4. CASE Begin(j)
    <3>1. PICK pc \in {"login", "auth"} : job' = [job EXCEPT ![j] = [pc |-> pc, row |-> row, tok |-> NoToken]]
          BY <2>4 DEF Begin
    <3>2. row \in Rows' \cup {<<>>} /\ pc \in {"idle"} \cup SessionPcs \cup ScanPcs
          BY <1>2 DEF SessionPcs
    <3>3. [pc |-> pc, row |-> row, tok |-> NoToken] \in JobRec'
          BY <1>0, <3>2 DEF JobRec
    <3> QED
        BY <1>2, <3>1, <3>3
  <2>5. CASE EnsureSession(j) \/ CheckFails(j)
    <3>1. HeldToken(j) \in Held'
      <4>1. InSession(j)
            BY <2>5 DEF EnsureSession, CheckFails, InSession, SessionPcs
      <4> QED
          BY <1>2, <4>1, JobHolds, Grows
    <3> QED
        BY <2>1, <2>2, <2>5, <3>1 DEF EnsureSession, CheckFails
  <2>6. CASE refreshSession(j)
    <3>1. CASE Refused(j)
          BY <2>3, <3>1
    <3>2. CASE Issue(New(job[j].tok.acct), {job[j].tok}) /\
               Holding(j, IF job[j].row.mode = "token" THEN "recheck" ELSE "persist", New(job[j].tok.acct))
      <4>1. job[j].tok.acct \in Accounts
            BY <2>6 DEF refreshSession, ModesFit, Real
      <4>2. New(job[j].tok.acct) \in Held'
            BY <3>2, <4>1, IssueTyped DEF Held
      <4> QED
          BY <2>1, <2>2, <3>2, <4>2
    <3> QED
        BY <2>6, <3>1, <3>2 DEF refreshSession
  <2>7. CASE RefreshLost(j) \/ CheckRefreshed(j) \/ CallDone(j)
        BY <2>1, <2>2, <2>3, <2>7, <1>0 DEF RefreshLost, CheckRefreshed, CallDone
  <2>8. CASE Persist(j)
    <3>1. (IF job[j].row.mode = "token" THEN Persisted(j) ELSE job[j].row) \in Rows'
          BY <1>2, <2>8, PersistedTyped
    <3>2. \A r \in Rows' : [job[j] EXCEPT !.pc = "ready", !.row = r] \in JobRec'
          BY <1>3 DEF JobRec, SessionPcs
    <3>3. [job[j] EXCEPT !.pc = "ready", !.row = IF @.mode = "token" THEN Persisted(j) ELSE @] \in JobRec'
          BY <3>1, <3>2
    <3> QED
        BY <1>2, <2>8, <3>3 DEF Persist
  <2>9. CASE login(j)
    <3>1. CASE Leave(j)
          BY <1>0, <2>1, <2>2, <3>1
    <3>2. CASE Issue(New(job[j].row.acct), {}) /\ Holding(j, "persist", New(job[j].row.acct))
      <4>1. job[j].row.acct \in Accounts
            BY <2>9, JobHolds DEF login, InSession, SessionPcs
      <4>2. New(job[j].row.acct) \in Held'
            BY <3>2, <4>1, IssueTyped DEF Held
      <4> QED
          BY <2>1, <2>2, <3>2, <4>2
    <3> QED
        BY <2>9, <3>1, <3>2 DEF login
  <2>10. CASE ScanForm(j)
        BY <1>0, <2>1, <2>10 DEF ScanForm, Pcs
  <2> QED
      BY <2>4, <2>5, <2>6, <2>7, <2>8, <2>9, <2>10 DEF JobStep, SessionStep
<1>5. CASE Persist(j)
  <2>1. job[j].row.mode = "token" => Persisted(j) \in Rows'
        BY <1>2, <1>5, PersistedTyped
  <2>2. late' \in BOOLEAN /\ lost' \in BOOLEAN
        BY <1>0, <1>5 DEF Persist
  <2>3. row' \in Rows'
        BY <1>2, <1>5, <2>1 DEF Persist
  <2>4. session' \in Held'
        BY <1>2, <1>3, <1>5 DEF Persist
  <2> QED
      BY <1>1, <1>4, <2>2, <2>3, <2>4
<1>6. CASE ~Persist(j)
  <2>1. row' = row /\ session' \in {session, NoToken}
        BY <1>6 DEF JobStep, ScanForm, Step, Begin, SessionStep, EnsureSession, CheckFails, refreshSession,
           RefreshLost, CheckRefreshed, login, CallDone
  <2>2. late' \in {late, FALSE}
        BY <1>6 DEF JobStep, ScanForm, Step, Begin, SessionStep, EnsureSession, CheckFails, refreshSession,
           RefreshLost, CheckRefreshed, login, CallDone
  <2>3. lost' \in {lost, TRUE, lost \/ job[j].row.mode = "token"}
        BY <1>6 DEF JobStep, ScanForm, Step, Begin, SessionStep, EnsureSession, CheckFails, refreshSession,
           RefreshLost, CheckRefreshed, login, CallDone
  <2>4. lost' \in BOOLEAN /\ late' \in BOOLEAN
        BY <1>0, <2>2, <2>3
  <2>5. row' \in Rows'
        BY <1>2, <2>1
  <2>6. session' \in Held'
        BY <1>0, <1>2, <2>1
  <2> QED
      BY <1>1, <1>4, <2>4, <2>5, <2>6
<1> QED
    BY <1>5, <1>6
\* The operator's save, by what he asked for.
LEMMA SaveKinds ==
  ASSUME SessionShape, Save
  PROVE  /\ op.pc = "save" /\ op' = OpIdle /\ job' = job
         /\ late' = (session' # NoToken /\ (late \/ op.kind = "username"))
         /\ op.copy \in Rows
         /\ \/ op.kind = "credential" /\ SaveCredential
            \/ op.kind = "fields" /\ SaveFields
            \/ op.kind = "username" /\ SaveUsername
            \/ op.kind = "clear" /\ SaveCleared
            \/ op.kind = "delete" /\ DeleteChannel
<1>1. op.pc = "save" /\ op.kind \in Operations /\ op.copy \in Rows
      BY DEF Save, SessionShape
<1> QED
    BY <1>1 DEF Save, Operations

\* So does a step of the operator.
LEMMA OperatesTyped ==
  ASSUME SessionShape, Operates
  PROVE  /\ TokensTyped /\ row' \in Rows' /\ session' \in Held' /\ job' = job
         /\ lost' \in BOOLEAN /\ late' \in BOOLEAN
         /\ op' \in OpRec' /\ (op'.pc # "idle" => op'.kind \in Operations /\ op'.copy \in Rows')
<1>0. /\ row \in Rows /\ session \in Held /\ op \in OpRec /\ NoToken \in Held'
      /\ op.pc # "idle" => op.kind \in Operations /\ op.copy \in Rows
      BY DEF SessionShape, Held
<1>1. ASSUME issued' = issued \/ issued' = issued + 1
      PROVE  /\ row \in Rows' /\ session \in Held' /\ op \in OpRec' /\ Rows \subseteq Rows'
             /\ op.pc # "idle" => op.kind \in Operations /\ op.copy \in Rows'
      BY <1>0, <1>1, Grows
<1>2. OpIdle \in OpRec' /\ OpIdle.pc = "idle"
      BY DEF OpIdle, OpRec
<1>3. ASSUME NEW kind \in Operations, Ask(kind)
      PROVE  /\ TokensTyped /\ row' \in Rows' /\ session' \in Held' /\ job' = job
             /\ lost' \in BOOLEAN /\ late' \in BOOLEAN
             /\ op' \in OpRec' /\ (op'.pc # "idle" => op'.kind \in Operations /\ op'.copy \in Rows')
  <2>1. TokensTyped /\ row' = row /\ session' = session /\ job' = job /\ lost' = lost /\ late' = late
        BY <1>3, TokensUnchanged DEF Ask, tokens
  <2>2. row \in Rows' /\ session \in Held'
        BY <1>1, <2>1 DEF TokensTyped
  <2>3. op' = [pc |-> IF DropsSession(kind) THEN "drop" ELSE "save", kind |-> kind, copy |-> row]
        BY <1>3 DEF Ask
  <2>4. op' \in OpRec' /\ op'.kind \in Operations /\ op'.copy \in Rows'
        BY <2>2, <2>3 DEF OpRec
  <2> QED
      BY <2>1, <2>2, <2>4 DEF SessionShape
<1>4. ASSUME Drop
      PROVE  /\ TokensTyped /\ row' \in Rows' /\ session' \in Held' /\ job' = job
             /\ lost' \in BOOLEAN /\ late' \in BOOLEAN
             /\ op' \in OpRec' /\ (op'.pc # "idle" => op'.kind \in Operations /\ op'.copy \in Rows')
  <2>1. TokensTyped /\ row' = row /\ session' = NoToken /\ job' = job /\ lost' = lost /\ late' = FALSE
        BY <1>4, TokensUnchanged DEF Drop, tokens
  <2>2. row \in Rows' /\ op \in OpRec' /\ op.pc = "drop" /\ op.kind \in Operations /\ op.copy \in Rows'
        BY <1>1, <1>4, <2>1 DEF TokensTyped, Drop
  <2>3. op' \in OpRec' /\ op'.kind = op.kind /\ op'.copy = op.copy
        BY <1>4, <2>2 DEF Drop, OpRec
  <2> QED
      BY <1>0, <2>1, <2>2, <2>3 DEF SessionShape
<1>5. ASSUME Save
      PROVE  /\ TokensTyped /\ row' \in Rows' /\ session' \in Held' /\ job' = job
             /\ lost' \in BOOLEAN /\ late' \in BOOLEAN
             /\ op' \in OpRec' /\ (op'.pc # "idle" => op'.kind \in Operations /\ op'.copy \in Rows')
  <2>1. op' = OpIdle /\ job' = job /\ late' \in BOOLEAN /\ op.copy \in Rows
        BY <1>5, SaveKinds
  <2>2. TokensTyped /\ row' \in Rows' /\ session' \in Held' /\ lost' \in BOOLEAN
    <3>1. ASSUME SaveCredential
          PROVE  TokensTyped /\ row' \in Rows' /\ session' \in Held' /\ lost' \in BOOLEAN
      <4>1. PICK m \in Modes, a \in Accounts :
              /\ row' = [live |-> TRUE, mode |-> m, acct |-> a, tok |-> IF m = "token" THEN New(a) ELSE NoToken]
              /\ IF m = "token" THEN Issue(New(a), {}) ELSE UNCHANGED tokens
            BY <3>1 DEF SaveCredential
      <4>2. TokensTyped /\ (m = "token" => New(a) \in Held')
        <5>1. CASE m = "token"
              BY <4>1, <5>1, IssueTyped DEF TokensTyped, Held
        <5>2. CASE m # "token"
              BY <4>1, <5>2, TokensUnchanged DEF tokens
        <5> QED
            BY <5>1, <5>2
      <4>3. row' \in Rows'
        <5>1. (IF m = "token" THEN New(a) ELSE NoToken) \in Held'
              BY <1>0, <4>2
        <5>2. row' \in [live : BOOLEAN, mode : Modes, acct : Accounts, tok : Held']
              BY <4>1, <5>1
        <5> QED
            BY <4>1, <5>2 DEF Rows
      <4> QED
          BY <1>1, <3>1, <4>2, <4>3 DEF SaveCredential, TokensTyped
    <3>2. ASSUME SaveFields \/ SaveUsername \/ SaveCleared \/ DeleteChannel
          PROVE  TokensTyped /\ row' \in Rows' /\ session' \in Held' /\ lost' \in BOOLEAN
      <4>1. TokensTyped
            BY <3>2, TokensUnchanged DEF SaveFields, SaveUsername, SaveCleared, DeleteChannel, tokens
      <4>2. row \in Rows' /\ session \in Held' /\ op.copy \in Rows'
            BY <1>1, <2>1, <4>1 DEF TokensTyped
      <4>3. session' \in Held' /\ lost' \in BOOLEAN
            BY <1>0, <3>2, <4>2 DEF SaveFields, SaveUsername, SaveCleared, DeleteChannel, SessionShape
      <4>4. /\ \A a \in Accounts : [op.copy EXCEPT !.acct = a] \in Rows'
            /\ [op.copy EXCEPT !.tok = NoToken] \in Rows'
            /\ [row EXCEPT !.live = FALSE] \in Rows'
            BY <1>0, <4>2 DEF Rows
      <4>5. row' \in Rows'
            BY <3>2, <4>2, <4>4 DEF SaveFields, SaveUsername, SaveCleared, DeleteChannel
      <4> QED
          BY <4>1, <4>3, <4>5
    <3> QED
        BY <1>5, <3>1, <3>2, SaveKinds
  <2> QED
      BY <1>2, <2>1, <2>2
<1> QED
    BY <1>3, <1>4, <1>5 DEF Operates

\* Every step keeps the shape of sessions.
LEMMA ShapeStep ==
  ASSUME SessionShape, ModesFit, FreshIsOwn, [Next]_vars
  PROVE  SessionShape'
<1>1. plan' \in Scenarios /\ budget' \in Nat
      BY BudgetStep DEF SessionShape
<1>2. ASSUME TokensTyped, job' \in [Jobs -> JobRec'], row' \in Rows', session' \in Held',
             lost' \in BOOLEAN, late' \in BOOLEAN, op' \in OpRec',
             op'.pc # "idle" => op'.kind \in Operations /\ op'.copy \in Rows',
             \A j \in Jobs : InSession(j)' => job'[j].row \in Rows'
      PROVE  SessionShape'
  <2>1. issued' \in Nat \ {0}
        BY <1>2, Grows DEF TokensTyped
  <2> QED
      BY <1>1, <1>2, <2>1 DEF SessionShape, TokensTyped
<1>3. ASSUME TokensTyped
      PROVE  /\ job \in [Jobs -> JobRec'] /\ row \in Rows' /\ session \in Held' /\ op \in OpRec'
             /\ op.pc # "idle" => op.kind \in Operations /\ op.copy \in Rows'
             /\ \A j \in Jobs : InSession(j) => job[j].row \in Rows'
      BY <1>3, Grows DEF TokensTyped, SessionShape
<1>4. ASSUME NEW j \in Jobs, JobStep(j) PROVE SessionShape'
  <2>1. /\ TokensTyped /\ job' \in [Jobs -> JobRec'] /\ row' \in Rows' /\ session' \in Held'
        /\ lost' \in BOOLEAN /\ late' \in BOOLEAN
        BY <1>4, JobStepTyped
  <2>2. JobForm(j)
        BY <1>4, JobForms DEF JobStep
  <2>3. op' = op
        BY <2>2 DEF JobForm, Starts, Moves, Quits, Renews, Checks, LogsIn, Persists, Kept, Persist
  <2>4. ASSUME NEW k \in Jobs, InSession(k)' PROVE job'[k].row \in Rows'
    <3>1. CASE k # j
      <4>1. job'[k] = job[k]
            BY <2>2, <3>1 DEF JobForm, Starts, Moves, Quits, Renews, Checks, LogsIn, Persists, Others
      <4> QED
          BY <1>3, <2>1, <2>4, <4>1 DEF InSession
    <3>2. CASE k = j
      <4>1. CASE Starts(j)
            BY <1>3, <2>1, <3>2, <4>1 DEF Starts, Kept
      <4>2. CASE Moves(j) \/ Renews(j) \/ Checks(j) \/ LogsIn(j)
        <5>1. InSession(j) /\ job'[j].row = job[j].row
              BY <4>2 DEF Moves, Renews, Checks, LogsIn, InSession, SessionPcs
        <5> QED
            BY <1>3, <2>1, <3>2, <5>1
      <4>3. CASE Quits(j)
            BY <2>4, <3>2, <4>3 DEF Quits, InSession, SessionPcs, ScanPcs
      <4>4. CASE Persists(j)
            BY <2>1, <3>2, <4>4, PersistedTyped DEF Persists, TokensTyped
      <4> QED
          BY <2>2, <4>1, <4>2, <4>3, <4>4 DEF JobForm
    <3> QED
        BY <3>1, <3>2
  <2> QED
      BY <1>2, <1>3, <2>1, <2>3, <2>4
<1>5. CASE Operates
  <2>1. /\ TokensTyped /\ row' \in Rows' /\ session' \in Held' /\ job' = job
        /\ lost' \in BOOLEAN /\ late' \in BOOLEAN
        /\ op' \in OpRec' /\ (op'.pc # "idle" => op'.kind \in Operations /\ op'.copy \in Rows')
        BY <1>5, OperatesTyped
  <2>2. \A j \in Jobs : InSession(j)' => job'[j].row \in Rows'
        BY <1>3, <2>1 DEF InSession
  <2> QED
      BY <1>2, <1>3, <2>1, <2>2
<1>6. CASE Rests
  <2>1. TokensTyped
        BY <1>6, TokensUnchanged DEF Rests
  <2>2. \A j \in Jobs : InSession(j)' => job'[j].row \in Rows'
        BY <1>3, <1>6, <2>1 DEF Rests, InSession
  <2>3. /\ job' = job /\ row' = row /\ session' = session /\ op' = op /\ lost' = lost /\ late' = late
        BY <1>6 DEF Rests
  <2> QED
      BY <1>2, <1>3, <2>1, <2>2, <2>3 DEF SessionShape
<1> QED
    BY <1>4, <1>5, <1>6, SessionNext

\* Every step keeps ModesFit.
LEMMA ModesStep ==
  ASSUME SessionShape, ModesFit, FreshIsOwn, [Next]_vars
  PROVE  ModesFit'
<1>1. ASSUME NEW j \in Jobs, JobStep(j), NEW k \in Jobs
      PROVE  /\ job'[k].pc = "recheck" => job'[k].row.mode = "token"
             /\ job'[k].pc = "login" => job'[k].row.mode = "password"
             /\ job'[k].pc = "refresh" => job'[k].tok \in Real'
  <2>1. JobForm(j) /\ Real \subseteq Real'
        BY <1>1, JobForms, JobStepTyped, Grows DEF JobStep, TokensTyped
  <2>2. CASE k # j
    <3>1. job'[k] = job[k]
          BY <2>1, <2>2 DEF JobForm, Starts, Moves, Quits, Renews, Checks, LogsIn, Persists, Others
    <3> QED
        BY <2>1, <3>1 DEF ModesFit
  <2>3. CASE k = j
    <3>1. CASE Starts(j)
          BY <2>3, <3>1 DEF Starts
    <3>2. CASE Moves(j)
      <4>1. job'[j].tok \in Held
            BY <3>2, JobHolds DEF Moves, Held
      <4> QED
          BY <2>1, <2>3, <3>2, <4>1 DEF Moves, Held
    <3>3. CASE Quits(j)
          BY <2>3, <3>3 DEF Quits, ScanPcs
    <3>4. CASE Renews(j) \/ Checks(j) \/ LogsIn(j) \/ Persists(j)
          BY <2>3, <3>4 DEF Renews, Checks, LogsIn, Persists
    <3> QED
        BY <2>1, <3>1, <3>2, <3>3, <3>4 DEF JobForm
  <2> QED
      BY <2>2, <2>3
<1>2. ASSUME Operates \/ Rests PROVE ModesFit'
  <2>1. job' = job /\ Real \subseteq Real'
        BY <1>2, OperatesTyped, Grows DEF Rests, TokensTyped
  <2> QED
      BY <2>1 DEF ModesFit
<1> QED
    BY <1>1, <1>2, SessionNext DEF ModesFit
-----------------------------------------------------------------------------
(* The two chains of tokens stay apart. *)

HasPasted(j, t) == InSession(j) /\ (t = job[j].row.tok \/ (Pasted(j) /\ t = job[j].tok))
HasSession(j, t) == InSession(j) /\ ~Pasted(j) /\ t = job[j].tok

\* Where a token is, by its holder.
LEMMA WhoHas ==
  ASSUME NEW t
  PROVE  /\ IsPasted(t) <=> t = row.tok \/ (op.pc # "idle" /\ t = op.copy.tok) \/ \E j \in Jobs : HasPasted(j, t)
         /\ IsSession(t) <=> t = session \/ \E j \in Jobs : HasSession(j, t)
BY DEF IsPasted, IsSession, HasPasted, HasSession, Pasted

\* The same after a step.
LEMMA WhoHasNext ==
  ASSUME NEW t
  PROVE  /\ IsPasted(t)' <=> t = row'.tok \/ (op'.pc # "idle" /\ t = op'.copy.tok) \/ \E j \in Jobs : HasPasted(j, t)'
         /\ IsSession(t)' <=> t = session' \/ \E j \in Jobs : HasSession(j, t)'
BY DEF IsPasted, IsSession, HasPasted, HasSession, Pasted

\* Whatever anybody holds is a token, or none.
LEMMA HeldByAll ==
  ASSUME SessionShape, NEW t, IsPasted(t) \/ IsSession(t)
  PROVE  t \in Held
<1>1. row.tok \in Held /\ session \in Held
      BY DEF SessionShape, Rows
<1>2. op.pc # "idle" => op.copy.tok \in Held
      BY DEF SessionShape, Rows
<1>3. \A j \in Jobs : InSession(j) => job[j].row.tok \in Held /\ job[j].tok \in Held
      BY JobHolds
<1> QED
    BY <1>1, <1>2, <1>3 DEF IsPasted, IsSession, Pasted

\* No step but one that hands out a token adds to either chain.
LEMMA ApartStep ==
  ASSUME SessionShape, SessionShape', ChainsApart, NEW np, NEW ns,
         np = NoToken \/ np \notin Held, ns = NoToken \/ ns \notin Held, np = NoToken \/ ns = NoToken,
         \A t : IsPasted(t)' => IsPasted(t) \/ t \in {NoToken, np},
         \A t : IsSession(t)' => IsSession(t) \/ t \in {NoToken, ns}
  PROVE  ChainsApart'
<1>1. NoToken \notin Real'
  <2>1. NoToken.n = 0
        BY DEF NoToken
  <2>2. \A t \in Real' : t.n \in 1..(issued')
        BY DEF Real
  <2>3. 0 \notin 1..(issued')
        OBVIOUS
  <2> QED
      BY <2>1, <2>2, <2>3
<1>2. SUFFICES ASSUME NEW t \in Real', IsPasted(t)', IsSession(t)' PROVE FALSE
      BY DEF ChainsApart
<1>3. t # NoToken
      BY <1>1
<1>4. CASE IsPasted(t) /\ IsSession(t)
  <2>1. t \in Real
        BY <1>3, <1>4, HeldByAll DEF Held
  <2> QED
      BY <1>4, <2>1 DEF ChainsApart
<1>5. CASE t = np
      BY <1>2, <1>3, <1>5, HeldByAll
<1>6. CASE t = ns
      BY <1>2, <1>3, <1>6, HeldByAll
<1> QED
    BY <1>2, <1>3, <1>4, <1>5, <1>6

\* A job that nothing was handed out to.
LEMMA ApartIfNothingNew ==
  ASSUME SessionShape, SessionShape', ChainsApart, NEW j \in Jobs, Others(j), op' = op,
         row'.tok = row.tok \/ IsPasted(row'.tok), session' \in {session, NoToken} \/ IsSession(session'),
         \A t : HasPasted(j, t)' => IsPasted(t) \/ t = NoToken,
         \A t : HasSession(j, t)' => IsSession(t) \/ t = NoToken
  PROVE  ChainsApart'
<1>1. \A t : \A k \in Jobs \ {j} : (HasPasted(k, t)' => HasPasted(k, t)) /\ (HasSession(k, t)' => HasSession(k, t))
      BY DEF Others, HasPasted, HasSession, Pasted, InSession
<1>2. \A t : IsPasted(t)' => IsPasted(t) \/ t \in {NoToken, NoToken}
  <2> SUFFICES ASSUME NEW t, IsPasted(t)' PROVE IsPasted(t) \/ t = NoToken
      OBVIOUS
  <2> QED
      BY <1>1, WhoHas, WhoHasNext
<1>3. \A t : IsSession(t)' => IsSession(t) \/ t \in {NoToken, NoToken}
  <2> SUFFICES ASSUME NEW t, IsSession(t)' PROVE IsSession(t) \/ t = NoToken
      OBVIOUS
  <2> QED
      BY <1>1, WhoHas, WhoHasNext
<1> QED
    BY <1>2, <1>3, ApartStep

\* Every step keeps pasted tokens and sessions apart.
LEMMA ChainsStep ==
  ASSUME SessionShape, ModesFit, FreshIsOwn, ChainsApart, [Next]_vars
  PROVE  ChainsApart'
<1>0. SessionShape'
      BY ShapeStep
<1>1. ASSUME NEW j \in Jobs, JobStep(j) PROVE ChainsApart'
  <2>0. JobForm(j)
        BY <1>1, JobForms DEF JobStep
  <2>1. CASE Starts(j)
    <3>1. \A t : HasPasted(j, t)' => IsPasted(t) \/ t = NoToken
          BY <2>1 DEF Starts, HasPasted, IsPasted
    <3>2. \A t : HasSession(j, t)' => t = NoToken
          BY <2>1 DEF Starts, HasSession
    <3> QED
        BY <1>0, <2>1, <3>1, <3>2, ApartIfNothingNew DEF Starts, Kept
  <2>2. CASE Moves(j)
    <3>1. InSession(j) /\ Others(j) /\ Kept /\ job'[j].row = job[j].row
          /\ job'[j].tok \in {job[j].tok, HeldToken(j), NoToken}
          BY <2>2 DEF Moves
    <3>2. HeldToken(j) = IF job[j].row.mode = "token" THEN job[j].row.tok ELSE session
          BY DEF HeldToken
    <3>3. \A t : HasPasted(j, t)' => IsPasted(t) \/ t = NoToken
          BY <3>1, <3>2 DEF HasPasted, IsPasted, Pasted
    <3>4. \A t : HasSession(j, t)' => IsSession(t) \/ t = NoToken
      <4> SUFFICES ASSUME NEW t, HasSession(j, t)', t # NoToken PROVE IsSession(t)
          OBVIOUS
      <4>1. ~Pasted(j) /\ job[j].row.mode # "token"
            BY <3>1 DEF HasSession, Pasted
      <4> QED
          BY <3>1, <3>2, <4>1 DEF HasSession, IsSession
    <3> QED
        BY <1>0, <3>1, <3>3, <3>4, ApartIfNothingNew DEF Kept
  <2>3. CASE Quits(j)
    <3>1. \A t : ~HasPasted(j, t)' /\ ~HasSession(j, t)'
          BY <2>3 DEF Quits, HasPasted, HasSession, InSession, SessionPcs, ScanPcs
    <3> QED
        BY <1>0, <2>3, <3>1, ApartIfNothingNew DEF Quits
  <2>4. ASSUME NEW a \in Accounts, Renews(j) \/ LogsIn(j), issued' = issued + 1, New(a) = job'[j].tok
        PROVE  ChainsApart'
    <3>1. New(a) \notin Held
          BY <2>4, NewIsReal
    <3>2. InSession(j) /\ Others(j) /\ Kept /\ job'[j].row = job[j].row
          BY <2>4 DEF Renews, LogsIn, InSession, SessionPcs
    <3>3. \A t : \A k \in Jobs \ {j} : (HasPasted(k, t)' => HasPasted(k, t)) /\ (HasSession(k, t)' => HasSession(k, t))
          BY <3>2 DEF Others, HasPasted, HasSession, Pasted, InSession
    <3>4. CASE job[j].row.mode = "token"
      <4>1. \A t : HasPasted(j, t)' => IsPasted(t) \/ t \in {NoToken, New(a)}
            BY <2>4, <3>2 DEF HasPasted, IsPasted
      <4>2. \A t : ~HasSession(j, t)'
            BY <3>2, <3>4 DEF HasSession, Pasted
      <4>3. \A t : IsPasted(t)' => IsPasted(t) \/ t \in {NoToken, New(a)}
            BY <3>2, <3>3, <4>1, WhoHas, WhoHasNext DEF Kept
      <4>4. \A t : IsSession(t)' => IsSession(t) \/ t \in {NoToken, NoToken}
            BY <3>2, <3>3, <4>2, WhoHas, WhoHasNext DEF Kept
      <4> QED
          BY <1>0, <3>1, <4>3, <4>4, ApartStep
    <3>5. CASE job[j].row.mode # "token"
      <4>1. \A t : HasPasted(j, t)' => IsPasted(t)
            BY <3>2, <3>5 DEF HasPasted, IsPasted, Pasted
      <4>2. \A t : HasSession(j, t)' => t = New(a)
            BY <2>4 DEF HasSession
      <4>3. \A t : IsPasted(t)' => IsPasted(t) \/ t \in {NoToken, NoToken}
            BY <3>2, <3>3, <4>1, WhoHas, WhoHasNext DEF Kept
      <4>4. \A t : IsSession(t)' => IsSession(t) \/ t \in {NoToken, New(a)}
            BY <3>2, <3>3, <4>2, WhoHas, WhoHasNext DEF Kept
      <4> QED
          BY <1>0, <3>1, <4>3, <4>4, ApartStep
    <3> QED
        BY <3>4, <3>5
  <2>5. CASE Renews(j)
    <3>1. job[j].tok.acct \in Accounts
          BY <2>5 DEF Renews, ModesFit, Real
    <3> QED
        BY <2>4, <2>5, <3>1 DEF Renews, Issue
  <2>6. CASE LogsIn(j)
    <3>1. job[j].row.acct \in Accounts
          BY <2>6, JobHolds DEF LogsIn, InSession, SessionPcs
    <3> QED
        BY <2>4, <2>6, <3>1 DEF LogsIn, Issue
  <2>7. CASE Checks(j)
    <3>1. InSession(j) /\ Others(j) /\ Kept /\ job'[j].row = job[j].row /\ job'[j].tok = job[j].tok
          BY <2>7 DEF Checks, InSession, SessionPcs
    <3>2. \A t : (HasPasted(j, t)' => IsPasted(t)) /\ (HasSession(j, t)' => IsSession(t))
          BY <3>1 DEF HasPasted, HasSession, IsPasted, IsSession, Pasted
    <3> QED
        BY <1>0, <3>1, <3>2, ApartIfNothingNew DEF Kept
  <2>8. CASE Persists(j)
    <3>1. InSession(j) /\ Others(j) /\ op' = op /\ job'[j].tok = job[j].tok
          BY <2>8 DEF Persists, Persist, InSession, SessionPcs
    <3>2. CASE job[j].row.mode = "token"
      <4>1. job[j].row \in Rows
            BY <3>1, JobHolds
      <4>2. Persisted(j).tok = job[j].tok /\ Persisted(j).mode = "token"
            BY <3>2, <4>1 DEF Persisted, Rows
      <4>3. job'[j].row = Persisted(j) /\ row' = Persisted(j) /\ session' = session
            BY <2>8, <3>2 DEF Persists, Persist
      <4>4. IsPasted(job[j].tok)
            BY <3>1, <3>2 DEF IsPasted, Pasted
      <4>5. \A t : (HasPasted(j, t)' => IsPasted(t)) /\ ~HasSession(j, t)'
            BY <3>1, <4>2, <4>3, <4>4 DEF HasPasted, HasSession, Pasted, InSession
      <4> QED
          BY <1>0, <3>1, <4>2, <4>3, <4>4, <4>5, ApartIfNothingNew
    <3>3. CASE job[j].row.mode # "token"
      <4>1. job'[j].row = job[j].row /\ row' = row /\ session' = job[j].tok
            BY <2>8, <3>3 DEF Persists, Persist
      <4>2. \A t : (HasPasted(j, t)' => IsPasted(t)) /\ (HasSession(j, t)' => IsSession(t))
            BY <3>1, <4>1 DEF HasPasted, HasSession, IsPasted, IsSession, Pasted
      <4>3. IsSession(job[j].tok)
            BY <3>1, <3>3 DEF IsSession, Pasted
      <4> QED
          BY <1>0, <3>1, <4>1, <4>2, <4>3, ApartIfNothingNew
    <3> QED
        BY <3>2, <3>3
  <2> QED
      BY <2>0, <2>1, <2>2, <2>3, <2>5, <2>6, <2>7, <2>8 DEF JobForm
<1>2. CASE Operates
  <2>1. job' = job
        BY <1>2, OperatesTyped
  <2>2. \A t : \A j \in Jobs : (HasPasted(j, t)' => HasPasted(j, t)) /\ (HasSession(j, t)' => HasSession(j, t))
        BY <2>1 DEF HasPasted, HasSession, Pasted, InSession
  <2>3. session' \in {session, NoToken}
        BY <1>2 DEF Operates, Ask, Drop, Save, SaveCredential, SaveFields, SaveUsername, SaveCleared, DeleteChannel
  <2>4. \A t : IsSession(t)' => IsSession(t) \/ t \in {NoToken, NoToken}
        BY <2>2, <2>3, WhoHas, WhoHasNext
  <2>5. ASSUME NEW np, np = NoToken \/ np \notin Held, IsPasted(row'.tok) \/ row'.tok \in {NoToken, np},
               op'.pc # "idle" => IsPasted(op'.copy.tok)
        PROVE  ChainsApart'
    <3>1. \A t : IsPasted(t)' => IsPasted(t) \/ t \in {NoToken, np}
          BY <2>2, <2>5, WhoHas, WhoHasNext
    <3> QED
        BY <1>0, <2>4, <2>5, <3>1, ApartStep
  <2>6. IsPasted(row.tok) /\ (op.pc # "idle" => IsPasted(op.copy.tok))
        BY DEF IsPasted
  <2>7. ASSUME NEW kind \in Operations, Ask(kind) PROVE ChainsApart'
    <3>1. row' = row /\ op'.copy = row
          BY <2>7 DEF Ask
    <3> QED
        BY <2>5, <2>6, <3>1
  <2>8. CASE Drop
    <3>1. row' = row /\ op.pc # "idle" /\ op'.copy = op.copy
          BY <2>8 DEF Drop, SessionShape, OpRec
    <3> QED
        BY <2>5, <2>6, <3>1
  <2>9. CASE Save
    <3>0. OpIdle.pc = "idle"
          BY DEF OpIdle
    <3>1. op'.pc = "idle" /\ op.pc # "idle" /\ op.copy \in Rows /\ row \in Rows
          BY <2>9, <3>0, SaveKinds DEF SessionShape
    <3>2. CASE SaveCredential
      <4>1. PICK m \in Modes, a \in Accounts :
              /\ row' = [live |-> TRUE, mode |-> m, acct |-> a, tok |-> IF m = "token" THEN New(a) ELSE NoToken]
              /\ IF m = "token" THEN Issue(New(a), {}) ELSE UNCHANGED tokens
            BY <3>2 DEF SaveCredential
      <4>2. CASE m = "token"
        <5>1. New(a) \notin Held /\ row'.tok = New(a)
              BY <4>1, <4>2, IssueTyped
        <5> QED
            BY <2>5, <3>1, <5>1
      <4>3. CASE m # "token"
            BY <2>5, <3>1, <4>1, <4>3
      <4> QED
          BY <4>2, <4>3
    <3>3. CASE SaveFields \/ SaveUsername \/ SaveCleared \/ DeleteChannel
      <4>1. /\ \A a : [op.copy EXCEPT !.acct = a].tok = op.copy.tok
            /\ [op.copy EXCEPT !.tok = NoToken].tok = NoToken
            /\ [row EXCEPT !.live = FALSE].tok = row.tok
            BY <3>1 DEF Rows
      <4>2. row'.tok \in {row.tok, op.copy.tok, NoToken}
            BY <3>3, <4>1 DEF SaveFields, SaveUsername, SaveCleared, DeleteChannel
      <4> QED
          BY <2>5, <2>6, <3>1, <4>2
    <3> QED
        BY <2>9, <3>2, <3>3, SaveKinds
  <2> QED
      BY <1>2, <2>7, <2>8, <2>9 DEF Operates
<1>3. CASE Rests
  <2>1. Real' = Real /\ \A t : (IsPasted(t)' <=> IsPasted(t)) /\ (IsSession(t)' <=> IsSession(t))
        BY <1>3 DEF Rests, Real, IsPasted, IsSession, Pasted, InSession
  <2> QED
      BY <2>1 DEF ChainsApart
<1> QED
    BY <1>1, <1>2, <1>3, SessionNext
-----------------------------------------------------------------------------
(* A token about to be saved stays its job's own. *)

\* What FreshIsOwn says of one job, but for the spending.
OwnTok(t, j) ==
  /\ t \notin {row.tok, session}
  /\ op.pc # "idle" => t # op.copy.tok
  /\ \A k \in Jobs \ {j} : InSession(k) => t \notin {job[k].tok, job[k].row.tok}

\* A fresh token is its own.
LEMMA OwnIsFresh ==
  FreshIsOwn <=> \A j \in Jobs : Fresh(j) => job[j].tok \in spendable /\ OwnTok(job[j].tok, j)
BY DEF FreshIsOwn, OwnTok

\* A fresh token is a real one.
LEMMA FreshIsHeld ==
  ASSUME SessionShape, FreshIsOwn, NEW j \in Jobs, Fresh(j)
  PROVE  job[j].tok \in Real /\ job[j].tok # NoToken /\ InSession(j) /\ job[j].tok \in Held
BY NoTokenIsNotReal DEF FreshIsOwn, SessionShape, Fresh, InSession, SessionPcs, Held

\* What a step of another job leaves a fresh token alone.
LEMMA FreshBeside ==
  ASSUME SessionShape, FreshIsOwn, NEW j \in Jobs, NEW k \in Jobs \ {j}, Fresh(k), job'[k] = job[k],
         Others(j), op' = op,
         row'.tok = row.tok \/ (row'.tok = job[j].tok /\ InSession(j)),
         session' \in {session, NoToken} \/ (session' = job[j].tok /\ InSession(j)),
         InSession(j)' => job[k].tok \notin {job'[j].tok, job'[j].row.tok},
         (spendable \ {job[j].tok} \subseteq spendable' /\ InSession(j)) \/ spendable \subseteq spendable'
  PROVE  job'[k].tok \in spendable' /\ OwnTok(job[k].tok, k)'
<1>1. /\ job[k].tok \in spendable /\ job[k].tok \notin {row.tok, session} /\ job[k].tok # NoToken
      /\ op.pc # "idle" => job[k].tok # op.copy.tok
      /\ InSession(j) => job[k].tok # job[j].tok
      /\ \A i \in Jobs \ {k} : InSession(i) => job[k].tok \notin {job[i].tok, job[i].row.tok}
      BY FreshIsHeld DEF FreshIsOwn
<1>2. job[k].tok \in spendable' /\ job[k].tok \notin {row'.tok, session'}
      BY <1>1
<1>3. \A i \in Jobs \ {k} : InSession(i)' => job[k].tok \notin {job'[i].tok, job'[i].row.tok}
      BY <1>1 DEF Others, InSession
<1> QED
    BY <1>1, <1>2, <1>3 DEF OwnTok

\* Every step keeps fresh tokens with one job.
LEMMA FreshStep ==
  ASSUME SessionShape, ModesFit, FreshIsOwn, [Next]_vars
  PROVE  FreshIsOwn'
<1>1. ASSUME NEW j \in Jobs, JobStep(j) PROVE FreshIsOwn'
  <2>0. JobForm(j)
        BY <1>1, JobForms DEF JobStep
  <2>1. SUFFICES ASSUME NEW k \in Jobs, Fresh(k)' PROVE job'[k].tok \in spendable' /\ OwnTok(job[k].tok, k)'
        BY DEF FreshIsOwn, OwnTok
  <2>2. Others(j) /\ op' = op
        BY <2>0 DEF JobForm, Starts, Moves, Quits, Renews, Checks, LogsIn, Persists, Kept, Persist
  <2>3. CASE k # j
    <3>1. job'[k] = job[k] /\ Fresh(k)
          BY <2>1, <2>2, <2>3 DEF Others, Fresh
    <3>2. /\ job[k].tok \in Held /\ job[k].tok # NoToken /\ job[k].tok \notin {row.tok, session}
          /\ InSession(j) => job[k].tok \notin {job[j].tok, job[j].row.tok}
          BY <2>3, <3>1, FreshIsHeld DEF FreshIsOwn
    <3>3. row'.tok = row.tok \/ (row'.tok = job[j].tok /\ InSession(j))
      <4>1. CASE Persists(j)
        <5>1. InSession(j) /\ job[j].row \in Rows
              BY <4>1, JobHolds DEF Persists, Persist, InSession, SessionPcs
        <5>2. Persisted(j).tok = job[j].tok
              BY <5>1 DEF Persisted, Rows
        <5> QED
            BY <4>1, <5>1, <5>2 DEF Persists, Persist
      <4> QED
          BY <2>0, <4>1 DEF JobForm, Starts, Moves, Quits, Renews, Checks, LogsIn, Kept
    <3>4. session' \in {session, NoToken} \/ (session' = job[j].tok /\ InSession(j))
          BY <2>0 DEF JobForm, Starts, Moves, Quits, Renews, Checks, LogsIn, Persists, Kept, Persist, InSession, SessionPcs
    <3>5. InSession(j)' => job[k].tok \notin {job'[j].tok, job'[j].row.tok}
      <4>1. CASE Starts(j)
            BY <3>2, <4>1 DEF Starts
      <4>2. CASE Moves(j)
            BY <3>2, <4>2 DEF Moves, HeldToken
      <4>3. CASE Quits(j)
            BY <4>3 DEF Quits, InSession, SessionPcs, ScanPcs
      <4>4. CASE Renews(j)
        <5>1. job[j].tok.acct \in Accounts /\ InSession(j)
              BY <4>4 DEF Renews, ModesFit, Real, InSession, SessionPcs
        <5>2. New(job[j].tok.acct) \notin Held
              BY <4>4, <5>1, IssueTyped DEF Renews
        <5> QED
            BY <3>2, <4>4, <5>1, <5>2 DEF Renews
      <4>5. CASE LogsIn(j)
        <5>1. job[j].row.acct \in Accounts /\ InSession(j)
              BY <4>5, JobHolds DEF LogsIn, InSession, SessionPcs
        <5>2. New(job[j].row.acct) \notin Held
              BY <4>5, <5>1, IssueTyped DEF LogsIn
        <5> QED
            BY <3>2, <4>5, <5>1, <5>2 DEF LogsIn
      <4>6. CASE Checks(j)
            BY <3>2, <4>6 DEF Checks, InSession, SessionPcs
      <4>7. CASE Persists(j)
        <5>1. InSession(j) /\ job[j].row \in Rows
              BY <4>7, JobHolds DEF Persists, Persist, InSession, SessionPcs
        <5>2. Persisted(j).tok = job[j].tok
              BY <5>1 DEF Persisted, Rows
        <5> QED
            BY <3>2, <4>7, <5>1, <5>2 DEF Persists
      <4> QED
          BY <2>0, <4>1, <4>2, <4>3, <4>4, <4>5, <4>6, <4>7 DEF JobForm
    <3>6. (spendable \ {job[j].tok} \subseteq spendable' /\ InSession(j)) \/ spendable \subseteq spendable'
          BY <2>0 DEF JobForm, Starts, Moves, Quits, Renews, Checks, LogsIn, Persists, MaySpend, TokensKept, Issue,
             InSession, SessionPcs
    <3> QED
        BY <2>2, <2>3, <3>1, <3>3, <3>4, <3>5, <3>6, FreshBeside
  <2>4. CASE k = j
    <3>1. ASSUME NEW a \in Accounts, NEW spent, Renews(j) \/ LogsIn(j), Issue(New(a), spent), New(a) = job'[j].tok
          PROVE  job'[j].tok \in spendable' /\ OwnTok(job[j].tok, j)'
      <4>1. New(a) \notin Held /\ New(a) \in spendable'
            BY <3>1, IssueTyped DEF Issue
      <4>2. row.tok \in Held /\ session \in Held /\ (op.pc # "idle" => op.copy.tok \in Held)
            BY DEF SessionShape, Rows
      <4>3. \A i \in Jobs : InSession(i) => job[i].tok \in Held /\ job[i].row.tok \in Held
            BY JobHolds
      <4>4. Kept
            BY <3>1 DEF Renews, LogsIn
      <4> QED
          BY <2>2, <3>1, <4>1, <4>2, <4>3, <4>4 DEF OwnTok, Kept, Others, InSession
    <3>2. CASE Renews(j)
      <4>1. job[j].tok.acct \in Accounts
            BY <3>2 DEF Renews, ModesFit, Real
      <4> QED
          BY <2>4, <3>1, <3>2, <4>1 DEF Renews
    <3>3. CASE LogsIn(j)
      <4>1. job[j].row.acct \in Accounts
            BY <3>3, JobHolds DEF LogsIn, InSession, SessionPcs
      <4> QED
          BY <2>4, <3>1, <3>3, <4>1 DEF LogsIn
    <3>4. CASE Checks(j)
      <4>1. Fresh(j) /\ Kept /\ TokensKept /\ job'[j].tok = job[j].tok
            BY <3>4 DEF Checks, Fresh
      <4>2. job[j].tok \in spendable /\ OwnTok(job[j].tok, j)
            BY <4>1 DEF FreshIsOwn, OwnTok
      <4> QED
          BY <2>2, <2>4, <4>1, <4>2 DEF OwnTok, Kept, TokensKept, Others, InSession
    <3>5. CASE Starts(j) \/ Moves(j) \/ Quits(j) \/ Persists(j)
          BY <2>1, <2>4, <3>5 DEF Starts, Moves, Quits, Persists, Fresh, ScanPcs
    <3> QED
        BY <2>0, <3>2, <3>3, <3>4, <3>5 DEF JobForm
  <2> QED
      BY <2>3, <2>4
<1>2. ASSUME Operates \/ Rests PROVE FreshIsOwn'
  <2>1. SUFFICES ASSUME NEW k \in Jobs, Fresh(k)' PROVE job'[k].tok \in spendable' /\ OwnTok(job[k].tok, k)'
        BY DEF FreshIsOwn, OwnTok
  <2>2. job' = job
        BY <1>2, OperatesTyped DEF Rests
  <2>3. Fresh(k) /\ job[k].tok \in Held /\ job[k].tok # NoToken
        BY <2>1, <2>2, FreshIsHeld DEF Fresh
  <2>4. job[k].tok \in spendable /\ OwnTok(job[k].tok, k)
        BY <2>3 DEF FreshIsOwn, OwnTok
  <2>5. ASSUME spendable \subseteq spendable', session' \in {session, NoToken},
               row'.tok \in {row.tok, NoToken} \/ row'.tok \notin Held \/ (op.pc # "idle" /\ row'.tok = op.copy.tok),
               op'.pc # "idle" => op'.copy.tok = row.tok \/ (op.pc # "idle" /\ op'.copy = op.copy)
        PROVE  job'[k].tok \in spendable' /\ OwnTok(job[k].tok, k)'
        BY <2>2, <2>3, <2>4, <2>5 DEF OwnTok, InSession
  <2>6. CASE Rests
        BY <2>5, <2>6 DEF Rests
  <2>7. ASSUME NEW kind \in Operations, Ask(kind) PROVE job'[k].tok \in spendable' /\ OwnTok(job[k].tok, k)'
        BY <2>5, <2>7 DEF Ask, tokens
  <2>8. CASE Drop
    <3>1. op'.copy = op.copy /\ op.pc # "idle"
          BY <2>8 DEF Drop, SessionShape, OpRec
    <3> QED
        BY <2>5, <2>8, <3>1 DEF Drop, tokens
  <2>9. CASE Save
    <3>0. OpIdle.pc = "idle"
          BY DEF OpIdle
    <3>1. op'.pc = "idle" /\ op.pc # "idle" /\ op.copy \in Rows /\ row \in Rows
          BY <2>9, <3>0, SaveKinds DEF SessionShape
    <3>2. CASE SaveCredential
      <4>1. PICK m \in Modes, a \in Accounts :
              /\ row' = [live |-> TRUE, mode |-> m, acct |-> a, tok |-> IF m = "token" THEN New(a) ELSE NoToken]
              /\ IF m = "token" THEN Issue(New(a), {}) ELSE UNCHANGED tokens
            BY <3>2 DEF SaveCredential
      <4>2. CASE m = "token"
        <5>1. New(a) \notin Held /\ row'.tok = New(a)
              BY <4>1, <4>2, IssueTyped
        <5> QED
            BY <2>5, <3>1, <3>2, <4>1, <4>2, <5>1 DEF Issue, SaveCredential
      <4>3. CASE m # "token"
            BY <2>5, <3>1, <3>2, <4>1, <4>3 DEF SaveCredential, tokens
      <4> QED
          BY <4>2, <4>3
    <3>3. CASE SaveFields \/ SaveUsername \/ SaveCleared \/ DeleteChannel
      <4>1. /\ \A a : [op.copy EXCEPT !.acct = a].tok = op.copy.tok
            /\ [op.copy EXCEPT !.tok = NoToken].tok = NoToken
            /\ [row EXCEPT !.live = FALSE].tok = row.tok
            BY <3>1 DEF Rows
      <4>2. row'.tok \in {row.tok, op.copy.tok, NoToken}
            BY <3>3, <4>1 DEF SaveFields, SaveUsername, SaveCleared, DeleteChannel
      <4>3. session' \in {session, NoToken} /\ spendable' = spendable
            BY <3>3 DEF SaveFields, SaveUsername, SaveCleared, DeleteChannel, tokens
      <4> QED
          BY <2>5, <3>1, <4>2, <4>3
    <3> QED
        BY <2>9, <3>2, <3>3, SaveKinds
  <2> QED
      BY <1>2, <2>6, <2>7, <2>8, <2>9 DEF Operates
<1> QED
    BY <1>1, <1>2, SessionNext
-----------------------------------------------------------------------------
(* The credential is kept, and the session belongs to it. *)

\* The token of the row is not the one that a job in password mode refreshes.
LEMMA RowTokIsPasted ==
  ASSUME SessionShape, ChainsApart, NEW j \in Jobs, InSession(j), job[j].tok = row.tok, row.tok # NoToken
  PROVE  Pasted(j)
<1>1. row.tok \in Real
      BY DEF SessionShape, Rows, Held
<1> QED
    BY <1>1 DEF ChainsApart, IsPasted, IsSession

\* Every step keeps the chain of a pasted token.
LEMMA ChainStep ==
  ASSUME SessionShape, ModesFit, FreshIsOwn, ChainsApart, ChainKept, [Next]_vars
  PROVE  ChainKept'
<1> SUFFICES ASSUME row'.mode = "token", row'.tok # NoToken, ~lost'
             PROVE  row'.tok \in spendable' \/ \E k \in Jobs : Fresh(k)' /\ Pasted(k)'
    BY DEF ChainKept
<1>1. ASSUME NEW j \in Jobs, JobStep(j)
      PROVE  row'.tok \in spendable' \/ \E k \in Jobs : Fresh(k)' /\ Pasted(k)'
  <2>0. JobForm(j)
        BY <1>1, JobForms DEF JobStep
  <2>1. \A k \in Jobs \ {j} : Others(j) /\ Fresh(k) /\ Pasted(k) => Fresh(k)' /\ Pasted(k)'
        BY DEF Others, Fresh, Pasted, InSession
  <2>2. ASSUME row' = row, ~lost, Others(j), spendable \ {job[j].tok} \subseteq spendable',
               job[j].tok = row.tok => row.tok \in spendable',
               Fresh(j) /\ Pasted(j) => Fresh(j)' /\ Pasted(j)'
        PROVE  row'.tok \in spendable' \/ \E k \in Jobs : Fresh(k)' /\ Pasted(k)'
        BY <2>1, <2>2 DEF ChainKept
  <2>3. ASSUME row' = row, ~lost, Others(j), spendable \subseteq spendable',
               Fresh(j) /\ Pasted(j) => Fresh(j)' /\ Pasted(j)'
        PROVE  row'.tok \in spendable' \/ \E k \in Jobs : Fresh(k)' /\ Pasted(k)'
        BY <2>1, <2>3 DEF ChainKept
  <2>4. ASSUME MaySpend(j), row' = row, Others(j), ~Fresh(j)
        PROVE  row'.tok \in spendable' \/ \E k \in Jobs : Fresh(k)' /\ Pasted(k)'
    <3>1. CASE TokensKept /\ lost' = lost
          BY <2>3, <2>4, <3>1 DEF TokensKept
    <3>2. CASE /\ job[j].pc = "refresh" /\ Issue(New(job[j].tok.acct), {job[j].tok})
               /\ lost' = (lost \/ job[j].row.mode = "token")
      <4>1. InSession(j) /\ ~lost /\ ~Pasted(j)
            BY <3>2 DEF InSession, SessionPcs, Pasted
      <4>2. job[j].tok # row.tok
            BY <2>4, <4>1, RowTokIsPasted
      <4>3. spendable \ {job[j].tok} \subseteq spendable'
            BY <3>2 DEF Issue
      <4> QED
          BY <2>2, <2>4, <4>1, <4>2, <4>3
    <3> QED
        BY <2>4, <3>1, <3>2 DEF MaySpend
  <2>5. CASE Starts(j) \/ Moves(j)
        BY <2>4, <2>5 DEF Starts, Moves, Kept, MaySpend, Fresh
  <2>6. CASE Quits(j)
        BY <2>4, <2>6 DEF Quits
  <2>7. CASE Renews(j)
    <3>1. InSession(j) /\ Others(j) /\ row' = row /\ lost' = lost /\ ~Fresh(j)
          BY <2>7 DEF Renews, Kept, InSession, SessionPcs, Fresh
    <3>2. CASE job[j].tok = row.tok
      <4>1. Pasted(j)
            BY <3>1, <3>2, RowTokIsPasted
      <4>2. Fresh(j)' /\ Pasted(j)'
            BY <2>7, <4>1 DEF Renews, Fresh, Pasted, InSession, SessionPcs
      <4> QED
          BY <4>2
    <3>3. CASE job[j].tok # row.tok
      <4>1. spendable \ {job[j].tok} \subseteq spendable'
            BY <2>7 DEF Renews, Issue
      <4> QED
          BY <2>2, <3>1, <3>3, <4>1
    <3> QED
        BY <3>2, <3>3
  <2>8. CASE Checks(j)
    <3>1. Pasted(j) => Fresh(j)' /\ Pasted(j)'
          BY <2>8 DEF Checks, Fresh, Pasted, InSession, SessionPcs
    <3> QED
        BY <2>3, <2>8, <3>1 DEF Checks, Kept, TokensKept
  <2>9. CASE LogsIn(j)
    <3>1. spendable \subseteq spendable' /\ ~Fresh(j)
          BY <2>9 DEF LogsIn, Issue, Fresh
    <3> QED
        BY <2>3, <2>9, <3>1 DEF LogsIn, Kept
  <2>10. CASE Persists(j)
    <3>1. InSession(j) /\ Fresh(j) /\ job[j].row \in Rows
          BY <2>10, JobHolds DEF Persists, Persist, InSession, SessionPcs, Fresh
    <3>2. CASE job[j].row.mode = "token"
      <4>1. row'.tok = job[j].tok
            BY <2>10, <3>1, <3>2 DEF Persists, Persist, Persisted, Rows
      <4> QED
          BY <2>10, <3>1, <4>1 DEF FreshIsOwn, Persists, TokensKept
    <3>3. CASE job[j].row.mode # "token"
          BY <2>3, <2>10, <3>1, <3>3 DEF Persists, Persist, TokensKept, Pasted
    <3> QED
        BY <3>2, <3>3
  <2> QED
      BY <2>0, <2>5, <2>6, <2>7, <2>8, <2>9, <2>10 DEF JobForm
<1>2. ASSUME job' = job, spendable \subseteq spendable', ~lost, row'.tok = row.tok, row.mode = "token"
      PROVE  row'.tok \in spendable' \/ \E k \in Jobs : Fresh(k)' /\ Pasted(k)'
      BY <1>2 DEF ChainKept, Fresh, Pasted, InSession
<1>3. CASE Rests
      BY <1>2, <1>3 DEF Rests
<1>4. CASE Operates
  <2>1. ASSUME NEW kind \in Operations, Ask(kind)
        PROVE  row'.tok \in spendable' \/ \E k \in Jobs : Fresh(k)' /\ Pasted(k)'
        BY <1>2, <2>1 DEF Ask, tokens
  <2>2. CASE Drop
        BY <1>2, <2>2 DEF Drop, tokens
  <2>3. CASE Save
    <3>1. job' = job /\ op.copy \in Rows /\ row \in Rows
          BY <2>3, SaveKinds DEF SessionShape
    <3>2. CASE SaveCredential
          BY <3>2 DEF SaveCredential, Issue
    <3>3. CASE SaveFields \/ SaveUsername
      <4>1. op.copy.tok = row.tok /\ ~lost /\ spendable' = spendable
            BY <3>3 DEF SaveFields, SaveUsername, tokens
      <4>2. row'.tok = op.copy.tok
        <5>1. \A a : [op.copy EXCEPT !.acct = a].tok = op.copy.tok
              BY <3>1 DEF Rows
        <5> QED
            BY <3>3, <5>1 DEF SaveFields, SaveUsername
      <4>3. row.mode = "token"
            BY <3>1, <4>1, <4>2 DEF Rows, Modes
      <4> QED
          BY <1>2, <3>1, <4>1, <4>2, <4>3
    <3>4. CASE SaveCleared
      <4>1. [op.copy EXCEPT !.tok = NoToken].tok = NoToken
            BY <3>1 DEF Rows
      <4> QED
          BY <1>2, <3>1, <3>4, <4>1 DEF SaveCleared, tokens
    <3>5. CASE DeleteChannel
      <4>1. [row EXCEPT !.live = FALSE].tok = row.tok /\ [row EXCEPT !.live = FALSE].mode = row.mode
            BY <3>1 DEF Rows
      <4> QED
          BY <1>2, <3>1, <3>5, <4>1 DEF DeleteChannel, tokens
    <3> QED
        BY <2>3, <3>2, <3>3, <3>4, <3>5, SaveKinds
  <2> QED
      BY <1>4, <2>1, <2>2, <2>3 DEF Operates
<1> QED
    BY <1>1, <1>3, <1>4, SessionNext

\* Every step keeps sessions with their credential.
LEMMA BelongsStep ==
  ASSUME SessionShape, ModesFit, FreshIsOwn, Belongs, CopyFits, [Next]_vars
  PROVE  Belongs' /\ CopyFits'
<1>1. ASSUME NEW j \in Jobs, JobStep(j) PROVE Belongs' /\ CopyFits'
  <2>0. JobForm(j)
        BY <1>1, JobForms DEF JobStep
  <2>1. CASE Kept
        BY <2>1 DEF Kept, Belongs, CopyFits
  <2>2. CASE Quits(j)
        BY <2>2 DEF Quits, Belongs, CopyFits
  <2>3. CASE Persists(j)
    <3>1. job[j].row \in Rows /\ row.mode \in {"password", "token"} /\ op' = op
          BY <2>3, JobHolds DEF Persists, Persist, InSession, SessionPcs, SessionShape, Rows, Modes
    <3>2. CASE job[j].row.mode = "token"
      <4>1. row'.mode = "token" /\ session' = session /\ late' = (late \/ row.mode # "token")
            BY <2>3, <3>1, <3>2 DEF Persists, Persist, Persisted, Rows
      <4> QED
          BY <3>1, <4>1 DEF Belongs, CopyFits
    <3>3. CASE job[j].row.mode # "token"
      <4>1. /\ row' = row /\ session' = job[j].tok
            /\ late' = \/ job[j].row.acct # row.acct \/ job[j].row.mode # row.mode
                       \/ job[j].tok.acct # job[j].row.acct
                       \/ op.pc = "save" /\ DropsSession(op.kind)
            BY <2>3, <3>3 DEF Persists, Persist
      <4>2. Belongs'
            BY <3>1, <3>3, <4>1 DEF Belongs
      <4>3. CopyFits'
            BY <3>1, <4>1 DEF CopyFits
      <4> QED
          BY <4>2, <4>3
    <3> QED
        BY <3>2, <3>3
  <2> QED
      BY <2>0, <2>1, <2>2, <2>3 DEF JobForm, Starts, Moves, Renews, Checks, LogsIn
<1>2. CASE Rests
      BY <1>2 DEF Rests, Belongs, CopyFits
<1>3. ASSUME NEW kind \in Operations, Ask(kind) PROVE Belongs' /\ CopyFits'
  <2>1. /\ row' = row /\ session' = session /\ late' = late
        /\ op'.copy = row /\ op'.kind = kind /\ op'.pc = IF DropsSession(kind) THEN "drop" ELSE "save"
        BY <1>3 DEF Ask
  <2> QED
      BY <2>1 DEF Belongs, CopyFits
<1>4. CASE Drop
  <2>1. row' = row /\ session' = NoToken /\ late' = FALSE /\ op.pc # "idle" /\ op'.copy = op.copy
        BY <1>4 DEF Drop, SessionShape, OpRec
  <2> QED
      BY <2>1 DEF Belongs, CopyFits
<1>5. CASE Save
  <2>0. OpIdle.pc = "idle"
        BY DEF OpIdle
  <2>1. /\ op.pc = "save" /\ op'.pc = "idle" /\ op.copy \in Rows /\ row \in Rows
        /\ late' = (session' # NoToken /\ (late \/ op.kind = "username"))
        BY <1>5, <2>0, SaveKinds DEF SessionShape
  <2>2. CopyFits'
        BY <2>1 DEF CopyFits
  <2>3. ASSUME session' # NoToken, ~late' PROVE row'.mode = "password" /\ session'.acct = row'.acct
    <3>1. ~late /\ op.kind # "username"
          BY <2>1, <2>3
    <3>2. CASE session' = session
      <4>1. row.mode = "password" /\ session.acct = row.acct /\ ~DropsSession(op.kind)
            BY <2>1, <2>3, <3>1, <3>2 DEF Belongs, CopyFits
      <4>2. op.kind # "credential" /\ op.kind # "clear" /\ op.kind # "delete"
            BY <4>1 DEF DropsSession
      <4>3. row' = op.copy
            BY <1>5, <3>1, <4>2, SaveKinds DEF SaveFields
      <4> QED
          BY <2>1, <3>2, <4>1, <4>3 DEF CopyFits
    <3> QED
        BY <1>5, <2>3, <3>1, <3>2, SaveKinds DEF SaveCredential, SaveFields, SaveCleared, DeleteChannel
  <2> QED
      BY <2>2, <2>3 DEF Belongs
<1> QED
    BY <1>1, <1>2, <1>3, <1>4, <1>5, SessionNext DEF Operates

\* The sessions are sound initially.
LEMMA SessionInitial == Init => SessionInv
<1> SUFFICES ASSUME Init PROVE SessionInv
    OBVIOUS
<1>1. /\ plan \in Scenarios /\ budget = plan.budget /\ issued = 1 /\ valid = {[acct |-> First, n |-> 1]}
      /\ spendable = valid /\ job = [j \in Jobs |-> Idle] /\ op = OpIdle /\ lost = FALSE /\ late = FALSE
      BY DEF Init, SessionInit
<1>2. budget \in Nat /\ plan.modes \subseteq Modes
      BY <1>1, ScenariosSound
<1>3. [acct |-> First, n |-> 1] \in Real /\ NoToken \in Held /\ Real \subseteq Held
      BY <1>1, SessionAssumption DEF Real, Held
<1>4. PICK m \in plan.modes, saved \in plan.saved :
        /\ row = [live |-> TRUE, mode |-> m, acct |-> First,
                  tok |-> IF m = "token" THEN [acct |-> First, n |-> 1] ELSE NoToken]
        /\ saved => m = "password"
        /\ session = IF saved THEN [acct |-> First, n |-> 1] ELSE NoToken
      BY DEF Init, SessionInit
<1>5. row \in Rows
  <2>1. row \in [live : BOOLEAN, mode : Modes, acct : Accounts, tok : Held]
        BY <1>2, <1>3, <1>4, SessionAssumption
  <2> QED
      BY <1>4, <2>1 DEF Rows
<1>6. Idle \in JobRec /\ Idle.pc = "idle" /\ OpIdle \in OpRec /\ OpIdle.pc = "idle"
      BY <1>3 DEF Idle, JobRec, OpIdle, OpRec
<1>7. \A j \in Jobs : job[j].pc = "idle" /\ ~InSession(j) /\ ~Fresh(j)
      BY <1>1, <1>6 DEF InSession, Fresh, SessionPcs
<1>8. SessionShape
  <2>1. issued \in Nat \ {0} /\ valid \subseteq Real /\ spendable \subseteq Real
        BY <1>1, <1>3
  <2>2. session \in Held
        BY <1>3, <1>4
  <2> QED
      BY <1>1, <1>2, <1>5, <1>6, <1>7, <2>1, <2>2 DEF SessionShape
<1>9. ModesFit /\ FreshIsOwn
      BY <1>7 DEF ModesFit, FreshIsOwn
<1>10. ChainsApart
  <2>1. NoToken \notin Real
        BY <1>8, NoTokenIsNotReal
  <2>2. row.tok = NoToken \/ session = NoToken
        BY <1>4
  <2>3. \A t : (IsPasted(t) => t = row.tok) /\ (IsSession(t) => t = session)
        BY <1>1, <1>6, <1>7 DEF IsPasted, IsSession, Pasted
  <2> QED
      BY <2>1, <2>2, <2>3 DEF ChainsApart
<1>11. ChainKept
      BY <1>1, <1>4 DEF ChainKept
<1>12. Belongs /\ CopyFits
      BY <1>1, <1>4, <1>6 DEF Belongs, CopyFits
<1> QED
    BY <1>8, <1>9, <1>10, <1>11, <1>12 DEF SessionInv

\* Every step keeps the sessions sound.
LEMMA SessionInvStep == SessionInv /\ [Next]_vars => SessionInv'
BY ShapeStep, ModesStep, ChainsStep, FreshStep, ChainStep, BelongsStep DEF SessionInv

-----------------------------------------------------------------------------
(* The theorems about sessions. *)

\* The tokens of a channel, its jobs and its operator are as SessionInv says, in
\* every behaviour of the jobs and the operator (EnsureSession, Update, ...).
THEOREM SessionInvariant == Spec => []SessionInv
<1>1. Init => SessionInv
      BY SessionInitial
<1>2. SessionInv /\ [Next]_vars => SessionInv'
      BY SessionInvStep
<1> QED
    BY <1>1, <1>2, PTL DEF Spec

\* The credential of a channel in token mode is kept: whatever calls, scans and
\* edits overlap, the token that can still be refreshed is in the row or with a
\* job that is about to save it (refreshSession, persistTokenCredential).
THEOREM CredentialIsKept == Spec => []CredentialKept
<1>1. ASSUME SessionInv, row.live, row.mode = "token", row.tok # NoToken, ~lost
      PROVE  row.tok \in spendable \/ \E j \in Jobs : job[j].pc \in {"recheck", "persist"} /\ job[j].tok \in spendable
      BY <1>1 DEF SessionInv, ChainKept, FreshIsOwn, Fresh
<1>2. SessionInv => CredentialKept
      BY <1>1 DEF CredentialKept
<1> QED
    BY <1>2, SessionInvariant, PTL

\* No session outlives the credential it was opened with, but where SessionBelongs
\* says so (Update and ClearLoginInfo delete it before they save the row).
THEOREM SessionsBelong == Spec => []SessionBelongs
<1>1. SessionInv => SessionBelongs
      BY DEF SessionInv, Belongs, SessionBelongs
<1> QED
    BY <1>1, SessionInvariant, PTL

-----------------------------------------------------------------------------
(* What a step does to a scan. *)

Besides(j) == Others(j) /\ \A k \in Jobs \ {j} : scan'[k] = scan[k]
Only(j, pc, c) == job'[j].pc = pc /\ scan'[j] = c /\ Besides(j) /\ scan' \in [Jobs -> ScanRec]
Ends(j) == Only(j, "idle", NoScan)

\* A step that replaces the variables of one scan.
LEMMA ScanPut ==
  ASSUME SessionShape, ScanShape, NEW j \in Jobs, NEW pc, job'[j].pc = pc, Others(j), NEW c \in ScanRec,
         scan' = [scan EXCEPT ![j] = c]
  PROVE  Only(j, pc, c)
BY DEF ScanShape, Only, Besides

\* A scan at rest is well typed.
LEMMA NoScanTyped == NoScan \in ScanRec
<1>1. Nothing \in RatesOf
      BY DEF Nothing, RatesOf
<1> QED
    BY <1>1 DEF NoScan, ScanRec

\* A scan that ends.
LEMMA EndForm ==
  ASSUME SessionShape, ScanShape, NEW j \in Jobs, End(j), Step(j, "idle")
  PROVE  Ends(j)
<1>1. job'[j].pc = "idle" /\ Others(j)
      BY JobMoves DEF Others
<1> QED
    BY <1>1, ScanPut, NoScanTyped DEF End, Ends

\* What is reported of a group, and what is sent of that.
LEMMA NotedTyped ==
  ASSUME NEW c \in ScanRec, NEW g \in Groups, NEW prev \in Vals
  PROVE  Noted(c, g, prev) \subseteq Items /\ Removal(c, g) \in Items
<1>1. c.results[g] \in Vals /\ c.existing[g] \in Vals
      BY DEF ScanRec, RatesOf, Vals
<1> QED
    BY <1>1 DEF Noted, Items, Item, Removal, Vals

\* Messages about items are messages.
LEMMA MessagesTyped ==
  ASSUME NEW items \in SUBSET Items
  PROVE  Messages(items) \subseteq Mails
<1>1. \A s : Matching(s, items) \in SUBSET Items
      BY DEF Matching
<1> QED
    BY <1>1 DEF Messages, Mails

\* A snapshot is a ratio, or none.
LEMMA SnapTyped ==
  ASSUME ScanShape, NEW g \in Groups
  PROVE  snap[g] \in Vals
BY DEF ScanShape, RatesOf, Vals

\* A job gets its session, or leaves without one.
LEMMA PrepareForm ==
  ASSUME SessionShape, ModesFit, ScanShape, NEW j \in Jobs, Prepare(j)
  PROVE  /\ InSession(j)
         /\ Ends(j) \/ (job'[j].pc \in SessionPcs /\ Only(j, job'[j].pc, scan[j]))
<1>0. scan[j] \in ScanRec /\ job \in [Jobs -> JobRec] /\ job[j] \in JobRec
      BY DEF ScanShape, SessionShape
<1>1. InSession(j) /\ Others(j) /\ job'[j].pc \in SessionPcs \cup {"idle"}
  <2>1. CASE EnsureSession(j)
        BY <2>1, JobMoves DEF EnsureSession, InSession, SessionPcs, Others
  <2>2. CASE refreshSession(j) \/ RefreshLost(j)
        BY <2>2, JobMoves DEF refreshSession, RefreshLost, Refused, InSession, SessionPcs, Others
  <2>3. CASE CheckRefreshed(j) \/ CheckFails(j)
        BY <2>3, JobMoves DEF CheckRefreshed, CheckFails, InSession, SessionPcs, Others
  <2>4. CASE Persist(j)
    <3>1. job'[j] = [job[j] EXCEPT !.pc = "ready", !.row = IF @.mode = "token" THEN Persisted(j) ELSE @]
          /\ Others(j)
          BY <1>0, <2>4 DEF Persist, Others
    <3>2. job'[j].pc = "ready"
          BY <1>0, <3>1 DEF JobRec
    <3> QED
        BY <2>4, <3>1, <3>2 DEF Persist, InSession, SessionPcs
  <2>5. CASE login(j) \/ CallDone(j)
        BY <2>5, JobMoves DEF login, CallDone, InSession, SessionPcs, Others
  <2> QED
      BY <2>1, <2>2, <2>3, <2>4, <2>5 DEF Prepare, SessionStep
<1>2. CASE job'[j].pc = "idle"
      BY <1>1, <1>2, ScanPut, NoScanTyped DEF Prepare, Ends
<1>3. CASE job'[j].pc # "idle"
  <2>1. scan' = [scan EXCEPT ![j] = scan[j]]
        BY <1>0, <1>3 DEF Prepare, ScanShape
  <2> QED
      BY <1>0, <1>1, <1>3, <2>1, ScanPut
<1> QED
    BY <1>1, <1>2, <1>3

\* The scan of the rates, statement by statement.
LEMMA RatesForms ==
  ASSUME SessionShape, ScanShape, ScansSound, NEW j \in Jobs
  PROVE  /\ GetRates(j) => Ends(j) \/ Only(j, "list", [scan[j] EXCEPT !.results = offered])
         /\ ListByChannel(j) => \E K \in SUBSET Groups :
              Only(j, "upsert", [scan[j] EXCEPT !.existing = snap, !.keys = K, !.todo = Named(scan[j].results)])
         /\ UpsertRead(j) => \E g \in scan[j].todo :
              Only(j, "write", [scan[j] EXCEPT !.todo = @ \ {g}, !.at = <<g, snap[g]>>])
         /\ UpsertWrite(j) =>
              LET c == scan[j]  g == c.at[1]  prev == c.at[2] IN
                Only(j, "upsert", [c EXCEPT !.at = <<>>, !.report =
                                     IF prev = Absent /\ snap[g] # Absent THEN @ ELSE @ \cup Noted(c, g, prev)])
         /\ Written(j) => Only(j, "remove", [scan[j] EXCEPT !.todo = Gone(scan[j])])
         /\ DeleteSnapshot(j) => \E g \in scan[j].todo :
              /\ snap' = [snap EXCEPT ![g] = Absent]
              /\ Only(j, "remove", [scan[j] EXCEPT !.todo = @ \ {g}, !.report = @ \cup
                                      (IF g \in scan[j].keys THEN {Removal(scan[j], g)} ELSE {})])
         /\ Report(j) => Only(j, "tell", [scan[j] EXCEPT !.report = {}, !.outbox = Messages(scan[j].report)])
         /\ SendRates(j) =>
              Only(j, "announce", [NoScan EXCEPT !.alone = scan[j].alone, !.overtaken = scan[j].overtaken])
<1>0. scan[j] \in ScanRec /\ DOMAIN scan = Jobs
      BY DEF ScanShape
<1>1. ASSUME NEW pc, Step(j, pc) PROVE job'[j].pc = pc /\ Others(j)
      BY <1>1, JobMoves DEF Others
<1>2. ASSUME NEW pc, Step(j, pc), NEW c \in ScanRec, scan' = [scan EXCEPT ![j] = c] PROVE Only(j, pc, c)
      BY <1>1, <1>2, ScanPut
<1>3. ASSUME GetRates(j)
      PROVE  Ends(j) \/ Only(j, "list", [scan[j] EXCEPT !.results = offered])
  <2>1. CASE End(j) /\ Step(j, "idle")
        BY <2>1, EndForm
  <2>2. CASE scan' = [scan EXCEPT ![j].results = offered] /\ Step(j, "list")
    <3>1. [scan[j] EXCEPT !.results = offered] \in ScanRec
          BY <1>0 DEF ScanShape, ScanRec
    <3> QED
        BY <1>2, <2>2, <3>1
  <2> QED
      BY <1>3, <2>1, <2>2 DEF GetRates
<1>4. ASSUME ListByChannel(j)
      PROVE  \E K \in SUBSET Groups :
               Only(j, "upsert", [scan[j] EXCEPT !.existing = snap, !.keys = K, !.todo = Named(scan[j].results)])
  <2>1. PICK K \in plan.keys :
          scan' = [scan EXCEPT ![j].existing = snap, ![j].keys = K, ![j].todo = Named(scan[j].results)]
        BY <1>4 DEF ListByChannel
  <2>2. K \in SUBSET Groups
        BY ScenariosSound DEF SessionShape
  <2>3. [scan[j] EXCEPT !.existing = snap, !.keys = K, !.todo = Named(scan[j].results)] \in ScanRec
        BY <1>0, <2>2 DEF ScanShape, ScanRec, Named
  <2>4. scan' = [scan EXCEPT ![j] = [scan[j] EXCEPT !.existing = snap, !.keys = K, !.todo = Named(scan[j].results)]]
        BY <1>0, <2>1
  <2> QED
      BY <1>2, <1>4, <2>2, <2>3, <2>4 DEF ListByChannel
<1>5. ASSUME UpsertRead(j)
      PROVE  \E g \in scan[j].todo :
               Only(j, "write", [scan[j] EXCEPT !.todo = @ \ {g}, !.at = <<g, snap[g]>>])
  <2>1. PICK g \in scan[j].todo : scan' = [scan EXCEPT ![j].todo = @ \ {g}, ![j].at = <<g, snap[g]>>]
        BY <1>5 DEF UpsertRead
  <2>2. g \in Groups /\ snap[g] \in Vals
        BY <1>5, SnapTyped DEF UpsertRead, Is, ScansSound, SoundAt
  <2>3. [scan[j] EXCEPT !.todo = @ \ {g}, !.at = <<g, snap[g]>>] \in ScanRec
        BY <1>0, <2>2 DEF ScanRec
  <2>4. scan' = [scan EXCEPT ![j] = [scan[j] EXCEPT !.todo = @ \ {g}, !.at = <<g, snap[g]>>]]
        BY <1>0, <2>1
  <2> QED
      BY <1>2, <1>5, <2>3, <2>4 DEF UpsertRead
<1>6. ASSUME UpsertWrite(j)
      PROVE
        LET c == scan[j]  g == c.at[1]  prev == c.at[2] IN
          Only(j, "upsert", [c EXCEPT !.at = <<>>, !.report =
                               IF prev = Absent /\ snap[g] # Absent THEN @ ELSE @ \cup Noted(c, g, prev)])
  <2> DEFINE c == scan[j]
             g == c.at[1]
             prev == c.at[2]
             items == IF prev = Absent /\ snap[g] # Absent THEN c.report ELSE c.report \cup Noted(c, g, prev)
  <2>1. g \in Groups /\ prev \in Vals
        BY <1>6 DEF UpsertWrite, Is, ScansSound, SoundAt
  <2>2. items \in SUBSET Items
        BY <1>0, <2>1, NotedTyped DEF ScanRec
  <2>3. [c EXCEPT !.at = <<>>, !.report = items] \in ScanRec
    <3> HIDE DEF items
    <3> QED
        BY <1>0, <2>2 DEF ScanRec
  <2>4. scan' = [scan EXCEPT ![j] = [c EXCEPT !.at = <<>>, !.report = items]]
        BY <1>0, <1>6 DEF UpsertWrite
  <2> QED
      BY <1>2, <1>6, <2>3, <2>4 DEF UpsertWrite
<1>7. ASSUME Written(j)
      PROVE  Only(j, "remove", [scan[j] EXCEPT !.todo = Gone(scan[j])])
  <2>1. [scan[j] EXCEPT !.todo = Gone(scan[j])] \in ScanRec
        BY <1>0 DEF ScanRec, Gone, Named
  <2> QED
      BY <1>2, <1>7, <2>1 DEF Written
<1>8. ASSUME DeleteSnapshot(j)
      PROVE  \E g \in scan[j].todo :
               /\ snap' = [snap EXCEPT ![g] = Absent]
               /\ Only(j, "remove", [scan[j] EXCEPT !.todo = @ \ {g}, !.report = @ \cup
                                       (IF g \in scan[j].keys THEN {Removal(scan[j], g)} ELSE {})])
  <2> DEFINE New_(g) == IF g \in scan[j].keys THEN {Removal(scan[j], g)} ELSE {}
  <2>1. PICK g \in scan[j].todo :
          /\ snap' = [snap EXCEPT ![g] = Absent]
          /\ scan' = [scan EXCEPT ![j].todo = @ \ {g}, ![j].report = @ \cup New_(g)]
        BY <1>8 DEF DeleteSnapshot, Removal
  <2>2. g \in Groups
        BY <1>8 DEF DeleteSnapshot, Is, ScansSound, SoundAt
  <2>3. New_(g) \subseteq Items
        BY <1>0, <2>2, NotedTyped DEF Vals
  <2>4. [scan[j] EXCEPT !.todo = @ \ {g}, !.report = @ \cup New_(g)] \in ScanRec
    <3> HIDE DEF New_
    <3> QED
        BY <1>0, <2>3 DEF ScanRec
  <2>5. scan' = [scan EXCEPT ![j] = [scan[j] EXCEPT !.todo = @ \ {g}, !.report = @ \cup New_(g)]]
        BY <1>0, <2>1
  <2>6. Only(j, "remove", [scan[j] EXCEPT !.todo = @ \ {g}, !.report = @ \cup New_(g)])
        BY <1>2, <1>8, <2>4, <2>5 DEF DeleteSnapshot
  <2> QED
      BY <2>1, <2>6
<1>9. ASSUME Report(j)
      PROVE  Only(j, "tell", [scan[j] EXCEPT !.report = {}, !.outbox = Messages(scan[j].report)])
  <2>1. Messages(scan[j].report) \in SUBSET Mails
        BY <1>0, MessagesTyped DEF ScanRec
  <2>2. [scan[j] EXCEPT !.report = {}, !.outbox = Messages(scan[j].report)] \in ScanRec
        BY <1>0, <2>1 DEF ScanRec
  <2>3. scan' = [scan EXCEPT ![j] = [scan[j] EXCEPT !.report = {}, !.outbox = Messages(scan[j].report)]]
        BY <1>0, <1>9 DEF Report
  <2> QED
      BY <1>2, <1>9, <2>2, <2>3 DEF Report
<1>10. ASSUME SendRates(j)
      PROVE
        Only(j, "announce", [NoScan EXCEPT !.alone = scan[j].alone, !.overtaken = scan[j].overtaken])
  <2>1. [NoScan EXCEPT !.alone = scan[j].alone, !.overtaken = scan[j].overtaken] \in ScanRec
        BY <1>0, NoScanTyped DEF ScanRec
  <2> QED
      BY <1>2, <1>10, <2>1 DEF SendRates
<1> QED
    BY <1>3, <1>4, <1>5, <1>6, <1>7, <1>8, <1>9, <1>10

\* Announcements, the balance, and what is sent of them.
LEMMA MailForms ==
  ASSUME SessionShape, ScanShape, ScansSound, NEW j \in Jobs
  PROVE  /\ Send(j) => \E m \in scan[j].outbox : Only(j, job[j].pc, [scan[j] EXCEPT !.outbox = @ \ {m}])
         /\ Sent(j) => Ends(j)
         /\ GetAnnouncements(j) => \/ Ends(j)
              \/ \E b \in BOOLEAN : Only(j, "post", [scan[j] EXCEPT !.todo = listed, !.quiet = b])
         /\ SyncAnnouncement(j) => \E k \in scan[j].todo :
              /\ posts' = posts \cup {k}
              /\ Only(j, "post", [scan[j] EXCEPT !.todo = @ \ {k}, !.news = IF Inserted(k) THEN @ \cup {k} ELSE @])
         /\ Announce(j) =>
              Only(j, "tell news", [scan[j] EXCEPT !.outbox = IF scan[j].quiet THEN {}
                     ELSE [to : Subscribers, what : {{k} : k \in scan[j].news}]])
         /\ GetBalance(j) => Ends(j) \/ Only(j, "claim", scan[j])
         /\ ClaimFails(j) => Ends(j)
         /\ ClaimExpired(j) =>
              \/ cooldown' = cooldown /\ Only(j, "insert", scan[j])
              \/ /\ cooldown = "over" /\ cooldown' = "running"
                 /\ Only(j, "tell low", [scan[j] EXCEPT !.outbox = [to : Subscribers, what : {{window}}]])
         /\ InsertClaim(j) =>
              \/ cooldown' = cooldown /\ Ends(j)
              \/ /\ cooldown = "none" /\ cooldown' = "running"
                 /\ Only(j, "tell low", [scan[j] EXCEPT !.outbox = [to : Subscribers, what : {{window}}]])
<1>0. scan[j] \in ScanRec /\ DOMAIN scan = Jobs /\ scan = [scan EXCEPT ![j] = scan[j]]
      BY DEF ScanShape
<1>1. ASSUME NEW pc, Step(j, pc) PROVE job'[j].pc = pc /\ Others(j)
      BY <1>1, JobMoves DEF Others
<1>2. ASSUME NEW pc, Step(j, pc), NEW c \in ScanRec, scan' = [scan EXCEPT ![j] = c] PROVE Only(j, pc, c)
      BY <1>1, <1>2, ScanPut
<1>3. ASSUME Send(j)
      PROVE  \E m \in scan[j].outbox : Only(j, job[j].pc, [scan[j] EXCEPT !.outbox = @ \ {m}])
  <2>1. PICK m \in scan[j].outbox : scan' = [scan EXCEPT ![j].outbox = @ \ {m}]
        BY <1>3 DEF Send
  <2>2. [scan[j] EXCEPT !.outbox = @ \ {m}] \in ScanRec
        BY <1>0 DEF ScanRec
  <2> QED
      BY <1>2, <1>3, <2>1, <2>2 DEF Send
<1>4. (Sent(j) => Ends(j)) /\ (ClaimFails(j) => Ends(j))
      BY EndForm DEF Sent, ClaimFails
<1>5. ASSUME GetAnnouncements(j)
      PROVE  \/ Ends(j)
               \/ \E b \in BOOLEAN : Only(j, "post", [scan[j] EXCEPT !.todo = listed, !.quiet = b])
  <2>1. CASE End(j) /\ Step(j, "idle")
        BY <2>1, EndForm
  <2>2. CASE scan' = [scan EXCEPT ![j].todo = listed, ![j].quiet = (posts = {})] /\ Step(j, "post")
    <3>1. PICK b \in BOOLEAN : b = (posts = {})
          OBVIOUS
    <3>2. [scan[j] EXCEPT !.todo = listed, !.quiet = b] \in ScanRec
          BY <1>0 DEF ScanShape, ScanRec
    <3>3. scan' = [scan EXCEPT ![j] = [scan[j] EXCEPT !.todo = listed, !.quiet = b]]
          BY <1>0, <2>2, <3>1
    <3> QED
        BY <1>2, <2>2, <3>2, <3>3
  <2> QED
      BY <1>5, <2>1, <2>2 DEF GetAnnouncements
<1>6. ASSUME SyncAnnouncement(j)
      PROVE  \E k \in scan[j].todo :
               /\ posts' = posts \cup {k}
               /\ Only(j, "post", [scan[j] EXCEPT !.todo = @ \ {k}, !.news = IF Inserted(k) THEN @ \cup {k} ELSE @])
  <2> DEFINE New_(k) == IF Inserted(k) THEN scan[j].news \cup {k} ELSE scan[j].news
  <2>1. PICK k \in scan[j].todo :
          posts' = posts \cup {k} /\ scan' = [scan EXCEPT ![j].todo = @ \ {k}, ![j].news = New_(k)]
        BY <1>0, <1>6 DEF SyncAnnouncement
  <2>2. New_(k) \subseteq Notices
        BY <1>0, <1>6, <2>1 DEF SyncAnnouncement, Is, ScansSound, SoundAt, ScanRec
  <2>3. [scan[j] EXCEPT !.todo = @ \ {k}, !.news = New_(k)] \in ScanRec
    <3> HIDE DEF New_
    <3> QED
        BY <1>0, <2>2 DEF ScanRec
  <2>4. scan' = [scan EXCEPT ![j] = [scan[j] EXCEPT !.todo = @ \ {k}, !.news = New_(k)]]
        BY <1>0, <2>1
  <2>5. Only(j, "post", [scan[j] EXCEPT !.todo = @ \ {k}, !.news = New_(k)])
        BY <1>2, <1>6, <2>3, <2>4 DEF SyncAnnouncement
  <2> QED
      BY <2>1, <2>5
<1>7. ASSUME Announce(j)
      PROVE
        Only(j, "tell news", [scan[j] EXCEPT !.outbox = IF scan[j].quiet THEN {}
               ELSE [to : Subscribers, what : {{k} : k \in scan[j].news}]])
  <2> DEFINE box == IF scan[j].quiet THEN {} ELSE [to : Subscribers, what : {{k} : k \in scan[j].news}]
  <2>1. scan[j].news \subseteq Alerts
        BY <1>0 DEF ScanRec, Alerts
  <2>2. box \subseteq Mails
        BY <2>1 DEF Mails
  <2>3. [scan[j] EXCEPT !.outbox = box] \in ScanRec
    <3> HIDE DEF box
    <3> QED
        BY <1>0, <2>2 DEF ScanRec
  <2> QED
      BY <1>2, <1>7, <2>3 DEF Announce
<1>8. ASSUME GetBalance(j)
      PROVE  Ends(j) \/ Only(j, "claim", scan[j])
  <2>1. CASE Step(j, "claim") /\ scan' = scan
        BY <1>0, <1>2, <2>1
  <2> QED
      BY <1>8, <2>1, EndForm DEF GetBalance
<1>9. Alert(j, window) => scan' = [scan EXCEPT ![j] = [scan[j] EXCEPT !.outbox = [to : Subscribers, what : {{window}}]]]
      BY <1>0 DEF Alert
<1>10. [scan[j] EXCEPT !.outbox = [to : Subscribers, what : {{window}}]] \in ScanRec
  <2>1. [to : Subscribers, what : {{window}}] \subseteq Mails
        BY DEF ScanShape, Mails, Alerts
  <2> QED
      BY <1>0, <2>1 DEF ScanRec
<1>11. ASSUME ClaimExpired(j)
      PROVE
        \/ cooldown' = cooldown /\ Only(j, "insert", scan[j])
        \/ /\ cooldown = "over" /\ cooldown' = "running"
           /\ Only(j, "tell low", [scan[j] EXCEPT !.outbox = [to : Subscribers, what : {{window}}]])
  <2>1. CASE cooldown' = cooldown /\ scan' = scan /\ Step(j, "insert")
        BY <1>0, <1>2, <2>1
  <2>2. CASE Claimable /\ cooldown' = "running" /\ Alert(j, window) /\ Step(j, "tell low")
        BY <1>2, <1>9, <1>10, <2>2 DEF Claimable
  <2> QED
      BY <1>11, <2>1, <2>2 DEF ClaimExpired
<1>12. ASSUME InsertClaim(j)
      PROVE
        \/ cooldown' = cooldown /\ Ends(j)
        \/ /\ cooldown = "none" /\ cooldown' = "running"
           /\ Only(j, "tell low", [scan[j] EXCEPT !.outbox = [to : Subscribers, what : {{window}}]])
  <2>1. CASE cooldown' = cooldown /\ End(j) /\ Step(j, "idle")
        BY <2>1, EndForm
  <2>2. CASE cooldown = "none" /\ cooldown' = "running" /\ Alert(j, window) /\ Step(j, "tell low")
        BY <1>2, <1>9, <1>10, <2>2
  <2> QED
      BY <1>12, <2>1, <2>2 DEF InsertClaim
<1> QED
    BY <1>3, <1>4, <1>5, <1>6, <1>7, <1>8, <1>11, <1>12

\* A scan that another's start, or the channel's deletion, only leaves a mark on.
Marked(k) ==
  \/ scan'[k] = scan[k]
  \/ scan'[k] = [scan[k] EXCEPT !.alone = FALSE]
  \/ scan'[k] = [scan[k] EXCEPT !.alone = FALSE, !.overtaken = TRUE]

\* What the start of a scan makes of it and of the others.
LEMMA StartForm ==
  ASSUME SessionShape, ModesFit, ScanShape, NEW j \in Jobs, Start(j)
  PROVE  /\ job[j].pc = "idle" /\ job'[j].pc \in {"auth", "login"} /\ Others(j)
         /\ scan' \in [Jobs -> ScanRec]
         /\ scan'[j] = [NoScan EXCEPT !.alone = ~Overlaps(j)]
         /\ \A k \in Jobs \ {j} : Marked(k) /\ (plan.kind[j] = "rates" => ~scan'[k].alone)
<1>0. scan \in [Jobs -> ScanRec] /\ NoScan \in ScanRec /\ job \in [Jobs -> JobRec]
      BY NoScanTyped DEF ScanShape, SessionShape
<1>1. job[j].pc = "idle" /\ job'[j].pc \in {"auth", "login"} /\ Others(j)
  <2>1. job'[j] = [pc |-> IF plan.kind[j] = "test" /\ row.mode = "password" THEN "login" ELSE "auth",
                   row |-> row, tok |-> NoToken]
        BY <1>0 DEF Start, Begin
  <2>2. Others(j) /\ job[j].pc = "idle"
        BY <1>0 DEF Start, Begin, Others
  <2> QED
      BY <2>1, <2>2
<1>2. PICK b \in BOOLEAN : b = ~Overlaps(j)
      OBVIOUS
<1>3. scan' = [k \in Jobs |-> IF k = j THEN [NoScan EXCEPT !.alone = b]
                              ELSE IF plan.kind[j] = "rates" THEN [scan[k] EXCEPT !.alone = FALSE]
                              ELSE scan[k]]
      BY <1>2 DEF Start
<1>4. [NoScan EXCEPT !.alone = b] \in ScanRec
      BY <1>0 DEF ScanRec
<1>5. \A k \in Jobs : [scan[k] EXCEPT !.alone = FALSE] \in ScanRec /\ ~[scan[k] EXCEPT !.alone = FALSE].alone
      BY <1>0 DEF ScanRec
<1>6. scan' \in [Jobs -> ScanRec]
      BY <1>0, <1>3, <1>4, <1>5
<1>7. \A k \in Jobs \ {j} : Marked(k) /\ (plan.kind[j] = "rates" => ~scan'[k].alone)
      BY <1>3, <1>5 DEF Marked
<1> QED
    BY <1>1, <1>2, <1>3, <1>6, <1>7

\* What the operator makes of scans.
LEMMA OperateForm ==
  ASSUME SessionShape, ScanShape, Operate
  PROVE  /\ job' = job /\ scan' \in [Jobs -> ScanRec] /\ \A k \in Jobs : Marked(k)
         /\ \/ UNCHANGED <<snap, logged, posts, cooldown, scan, told>>
            \/ /\ snap' = Nothing /\ logged' = Nothing /\ posts' = {} /\ cooldown' = "none"
               /\ told' = [s \in Subscribers |-> [a \in Alerts |-> 0]]
               /\ \A k \in Jobs : job[k].pc # "idle" => scan'[k].overtaken /\ ~scan'[k].alone
<1>0. scan \in [Jobs -> ScanRec]
      BY DEF ScanShape
<1>1. job' = job
      BY DEF Operate, Ask, Drop, Save
<1>2. CASE op.pc = "save" /\ op.kind = "delete"
  <2>1. scan' = [k \in Jobs |-> IF job[k].pc = "idle" THEN scan[k]
                                ELSE [scan[k] EXCEPT !.alone = FALSE, !.overtaken = TRUE]]
        BY <1>2 DEF Operate
  <2>2. \A k \in Jobs : /\ [scan[k] EXCEPT !.alone = FALSE, !.overtaken = TRUE] \in ScanRec
                        /\ ~[scan[k] EXCEPT !.alone = FALSE, !.overtaken = TRUE].alone
                        /\ [scan[k] EXCEPT !.alone = FALSE, !.overtaken = TRUE].overtaken
        BY <1>0 DEF ScanRec
  <2>3. scan' \in [Jobs -> ScanRec] /\ \A k \in Jobs : Marked(k)
        BY <1>0, <2>1, <2>2 DEF Marked
  <2>4. \A k \in Jobs : job[k].pc # "idle" => scan'[k].overtaken /\ ~scan'[k].alone
        BY <2>1, <2>2
  <2>5. /\ snap' = Nothing /\ logged' = Nothing /\ posts' = {} /\ cooldown' = "none"
        /\ told' = [s \in Subscribers |-> [a \in Alerts |-> 0]]
        BY <1>2 DEF Operate
  <2> QED
      BY <1>1, <2>3, <2>4, <2>5
<1>3. CASE ~(op.pc = "save" /\ op.kind = "delete")
      BY <1>0, <1>1, <1>3 DEF Operate, Marked
<1> QED
    BY <1>2, <1>3

\* What the operator does, and the world, leaves the jobs alone.
World == WindowEnds \/ Reoffer \/ Publish \/ Retain \/ (Expire /\ UNCHANGED scanVars) \/ UNCHANGED vars

\* The world leaves the jobs and the scans alone.
LEMMA WorldForm == World => job' = job /\ scan' = scan
BY DEF World, WindowEnds, Reoffer, Publish, Retain, Expire, scanVars, vars, sessionVars

\* Every step is one of a scan, the operator or the world.
LEMMA ScanNext ==
  [Next]_vars => (\E j \in Jobs : Start(j) \/ ScanStep(j)) \/ Operate \/ World
BY DEF Next, World

-----------------------------------------------------------------------------
(* The shape of the scans, and what they work through. *)

\* A step that only writes snapshots keeps the shape.
LEMMA ShapeBySnap ==
  ASSUME ScanShape, UNCHANGED <<external, posts, alerts, told>>, scan' \in [Jobs -> ScanRec],
         snap' \in RatesOf, logged' \in RatesOf
  PROVE  ScanShape'
<1>1. RatesOf' = RatesOf /\ ScanRec' = ScanRec /\ Alerts' = Alerts
      BY DEF RatesOf, ScanRec, Alerts
<1> QED
    BY <1>1 DEF ScanShape, external, alerts

\* A scan of the rates keeps the shape.
LEMMA RatesShape ==
  ASSUME SessionShape, ModesFit, ScanShape, ScansSound, NEW j \in Jobs,
         Start(j) \/ Prepare(j) \/ GetRates(j) \/ ListByChannel(j) \/ UpsertRead(j) \/ UpsertWrite(j)
           \/ Written(j) \/ DeleteSnapshot(j) \/ Report(j) \/ SendRates(j)
  PROVE  ScanShape'
<1>0. scan[j] \in ScanRec /\ snap \in RatesOf /\ logged \in RatesOf
      BY DEF ScanShape
<1>1. CASE Start(j)
      BY <1>0, <1>1, StartForm, ShapeBySnap DEF Start
<1>2. CASE Prepare(j)
      BY <1>0, <1>2, PrepareForm, ShapeBySnap DEF Prepare, Ends, Only
<1>3. CASE GetRates(j) \/ ListByChannel(j) \/ UpsertRead(j)
      BY <1>0, <1>3, RatesForms, ShapeBySnap DEF GetRates, ListByChannel, UpsertRead, Ends, Only
<1>4. CASE UpsertWrite(j)
  <2> DEFINE g == scan[j].at[1]
             new == scan[j].results[g]
  <2>1. g \in Groups /\ new \in Ratios \cup {Absent}
        BY <1>0, <1>4 DEF UpsertWrite, Is, ScansSound, SoundAt, ScanRec, RatesOf
  <2>2. snap' \in {snap, [snap EXCEPT ![g] = new]} /\ logged' \in {logged, [logged EXCEPT ![g] = new]}
        BY <1>4 DEF UpsertWrite
  <2>3. snap' \in RatesOf /\ logged' \in RatesOf
    <3> HIDE DEF g, new
    <3> QED
        BY <1>0, <2>1, <2>2 DEF RatesOf
  <2>4. scan' \in [Jobs -> ScanRec]
        BY <1>4, RatesForms DEF Only
  <2> QED
      BY <1>4, <2>3, <2>4, ShapeBySnap DEF UpsertWrite
<1>5. CASE DeleteSnapshot(j)
  <2>1. PICK g \in scan[j].todo : snap' = [snap EXCEPT ![g] = Absent] /\ scan' \in [Jobs -> ScanRec]
        BY <1>5, RatesForms DEF Only
  <2>2. snap' \in RatesOf
        BY <1>0, <2>1 DEF RatesOf
  <2> QED
      BY <1>0, <1>5, <2>1, <2>2, ShapeBySnap DEF DeleteSnapshot
<1>6. CASE Written(j) \/ Report(j) \/ SendRates(j)
      BY <1>0, <1>6, RatesForms, ShapeBySnap DEF Written, Report, SendRates, Only
<1> QED
    BY <1>1, <1>2, <1>3, <1>4, <1>5, <1>6

\* A message is one message about one thing.
LEMMA MailIsOf ==
  ASSUME ScansSound, NEW j \in Jobs, job[j].pc \in {"tell news", "tell low"}, NEW m \in scan[j].outbox
  PROVE  m.to \in Subscribers /\ m \in [to : Subscribers, what : {m.what}] /\ \E a \in Alerts : m.what = {a}
<1>1. m \in Notes \/ m \in LowMails
      BY DEF ScansSound, SoundAt
<1>2. CASE m \in Notes
      BY <1>2 DEF Notes, Alerts
<1>3. CASE m \in LowMails
      BY <1>3 DEF LowMails, Alerts
<1> QED
    BY <1>1, <1>2, <1>3

\* What the delivery of a message counts.
LEMMA SendCounts ==
  ASSUME ScanShape, ScansSound, NEW j \in Jobs, Send(j)
  PROVE  \E m \in scan[j].outbox :
           /\ m.to \in Subscribers /\ m \in [to : Subscribers, what : {m.what}]
           /\ \E a \in Alerts : m.what = {a}
           /\ scan' = [scan EXCEPT ![j].outbox = @ \ {m}]
           /\ \/ told' = told
              \/ /\ ~scan[j].overtaken
                 /\ told' = [told EXCEPT ![m.to] =
                               [a \in Alerts |-> IF a \in m.what THEN told[m.to][a] + 1 ELSE told[m.to][a]]]
<1>1. PICK m \in scan[j].outbox :
        /\ scan' = [scan EXCEPT ![j].outbox = @ \ {m}]
        /\ \/ told' = told
           \/ /\ ~scan[j].overtaken
              /\ told' = [told EXCEPT ![m.to] = [a \in Alerts |-> IF a \in m.what THEN @[a] + 1 ELSE @[a]]]
      BY DEF Send
<1>2. m.to \in Subscribers /\ m \in [to : Subscribers, what : {m.what}] /\ \E a \in Alerts : m.what = {a}
      BY MailIsOf DEF Send
<1>3. told' = [told EXCEPT ![m.to] = [a \in Alerts |-> IF a \in m.what THEN @[a] + 1 ELSE @[a]]] =>
        told' = [told EXCEPT ![m.to] =
                   [a \in Alerts |-> IF a \in m.what THEN told[m.to][a] + 1 ELSE told[m.to][a]]]
      BY <1>2 DEF ScanShape
<1> QED
    BY <1>1, <1>2, <1>3

\* A step that only posts, claims or tells keeps the shape.
LEMMA ShapeByMail ==
  ASSUME ScanShape, UNCHANGED <<external, snap, logged>>, scan' \in [Jobs -> ScanRec], posts' \subseteq Notices,
         cooldown' \in {"none", "running", "over"}, window' = window, told' \in [Subscribers -> [Alerts -> Nat]]
  PROVE  ScanShape'
<1>1. RatesOf' = RatesOf /\ ScanRec' = ScanRec /\ Alerts' = Alerts
      BY DEF RatesOf, ScanRec, Alerts
<1> QED
    BY <1>1 DEF ScanShape, external

\* What posts, claims and tells keeps the shape.
LEMMA MailShape ==
  ASSUME SessionShape, ModesFit, ScanShape, ScansSound, NEW j \in Jobs,
         Send(j) \/ Sent(j) \/ GetAnnouncements(j) \/ SyncAnnouncement(j) \/ Announce(j)
           \/ GetBalance(j) \/ ClaimExpired(j) \/ InsertClaim(j) \/ ClaimFails(j)
  PROVE  ScanShape'
<1>0. posts \subseteq Notices /\ cooldown \in {"none", "running", "over"} /\ told \in [Subscribers -> [Alerts -> Nat]]
      BY DEF ScanShape
<1>1. CASE Send(j)
  <2>1. PICK m \in scan[j].outbox :
           /\ m.to \in Subscribers
           /\ \/ told' = told
              \/ told' = [told EXCEPT ![m.to] =
                            [a \in Alerts |-> IF a \in m.what THEN told[m.to][a] + 1 ELSE told[m.to][a]]]
        BY <1>1, SendCounts
  <2>2. [a \in Alerts |-> IF a \in m.what THEN told[m.to][a] + 1 ELSE told[m.to][a]] \in [Alerts -> Nat]
        BY <1>0, <2>1
  <2>3. told' \in [Subscribers -> [Alerts -> Nat]]
        BY <1>0, <2>1, <2>2
  <2>4. scan' \in [Jobs -> ScanRec]
        BY <1>1, MailForms DEF Only
  <2> QED
      BY <1>0, <1>1, <2>3, <2>4, ShapeByMail DEF Send, alerts
<1>2. CASE Sent(j) \/ GetAnnouncements(j) \/ Announce(j) \/ GetBalance(j) \/ ClaimFails(j)
  <2>1. scan' \in [Jobs -> ScanRec]
        BY <1>2, MailForms DEF Only, Ends
  <2> QED
      BY <1>0, <1>2, <2>1, ShapeByMail DEF Sent, GetAnnouncements, Announce, GetBalance, ClaimFails, alerts
<1>3. CASE SyncAnnouncement(j)
  <2>1. PICK k \in scan[j].todo : posts' = posts \cup {k} /\ scan' \in [Jobs -> ScanRec]
        BY <1>3, MailForms DEF Only
  <2>2. k \in Notices
        BY <1>3 DEF SyncAnnouncement, Is, ScansSound, SoundAt
  <2> QED
      BY <1>0, <1>3, <2>1, <2>2, ShapeByMail DEF SyncAnnouncement, alerts
<1>4. CASE ClaimExpired(j) \/ InsertClaim(j)
  <2>1. scan' \in [Jobs -> ScanRec] /\ cooldown' \in {cooldown, "running"}
        BY <1>4, MailForms DEF Only, Ends
  <2> QED
      BY <1>0, <1>4, <2>1, ShapeByMail DEF ClaimExpired, InsertClaim
<1> QED
    BY <1>1, <1>2, <1>3, <1>4

\* Every step keeps the shape of scans.
LEMMA ScanShapeStep ==
  ASSUME SessionShape, ModesFit, ScanShape, ScansSound, [Next]_vars
  PROVE  ScanShape'
<1>0. RatesOf' = RatesOf /\ ScanRec' = ScanRec /\ Alerts' = Alerts
      BY DEF RatesOf, ScanRec, Alerts
<1>1. CASE \E j \in Jobs : Start(j) \/ ScanStep(j)
      BY <1>1, RatesShape, MailShape DEF ScanStep
<1>2. CASE Operate
  <2>1. scan' \in [Jobs -> ScanRec] /\ UNCHANGED <<external, window>>
        BY <1>2, OperateForm DEF Operate
  <2>2. Nothing \in RatesOf /\ [s \in Subscribers |-> [a \in Alerts |-> 0]] \in [Subscribers -> [Alerts -> Nat]]
        BY DEF Nothing, RatesOf
  <2> QED
      BY <1>0, <1>2, <2>1, <2>2, OperateForm DEF ScanShape, external
<1>3. CASE WindowEnds
  <2>1. window' \in 1..Windows
    <3>1. Windows \in Nat
          BY ScanAssumption
    <3> QED
        BY <1>3, <3>1 DEF WindowEnds, ScanShape
  <2> QED
      BY <1>0, <1>3, <2>1 DEF WindowEnds, ScanShape, external
<1>4. CASE Reoffer
  <2>1. offered' \in RatesOf
        BY <1>4, ScenariosSound DEF Reoffer, SessionShape
  <2> QED
      BY <1>0, <1>4, <2>1 DEF Reoffer, ScanShape, alerts
<1>5. CASE Publish
      BY <1>0, <1>5 DEF Publish, ScanShape, alerts
<1>6. CASE Retain
  <2>1. PICK k \in posts : posts' = posts \ {k} /\ told' = [s \in Subscribers |-> [told[s] EXCEPT ![k] = 0]]
        BY <1>6 DEF Retain
  <2>2. told' \in [Subscribers -> [Alerts -> Nat]]
    <3>1. \A s \in Subscribers : told[s] \in [Alerts -> Nat]
          BY DEF ScanShape
    <3>2. \A s \in Subscribers : [told[s] EXCEPT ![k] = 0] \in [Alerts -> Nat]
          BY <3>1
    <3> QED
        BY <2>1, <3>2
  <2> QED
      BY <1>0, <1>6, <2>1, <2>2 DEF Retain, ScanShape, external, alerts
<1>7. CASE (Expire /\ UNCHANGED scanVars) \/ UNCHANGED vars
      BY <1>0, <1>7 DEF scanVars, vars, ScanShape
<1> QED
    BY <1>1, <1>2, <1>3, <1>4, <1>5, <1>6, <1>7, ScanNext DEF World

\* A scan that is only marked stays sound.
LEMMA SoundOthers ==
  ASSUME ScanShape, ScansSound, NEW k \in Jobs, job'[k] = job[k], Marked(k)
  PROVE  SoundAt(k)'
<1>1. /\ job'[k].pc = job[k].pc
      /\ scan'[k].todo = scan[k].todo /\ scan'[k].at = scan[k].at
      /\ scan'[k].news = scan[k].news /\ scan'[k].outbox = scan[k].outbox
      BY DEF Marked, ScanShape, ScanRec
<1>2. SoundAt(k)
      BY DEF ScansSound
<1> QED
    BY <1>1, <1>2 DEF SoundAt, Vals, Notes, LowMails

\* It is enough that the scan that moves stays sound.
LEMMA SoundOnly ==
  ASSUME ScanShape, ScansSound, NEW j \in Jobs, SoundAt(j)', Besides(j)
  PROVE  ScansSound'
<1>1. \A k \in Jobs \ {j} : SoundAt(k)'
      BY SoundOthers DEF Besides, Others, Marked
<1> QED
    BY <1>1 DEF ScansSound

\* A job that ends, or gets its session, has nothing to work through.
LEMMA SoundAtRest ==
  ASSUME ScanShape, ScansSound, NEW j \in Jobs, job'[j].pc \in {"idle", "list", "claim", "insert", "tell"} \cup SessionPcs
  PROVE  SoundAt(j)'
BY DEF SoundAt, SessionPcs

\* A scan of the rates stays sound.
LEMMA SoundRates ==
  ASSUME SessionShape, ModesFit, ScanShape, ScansSound, NEW j \in Jobs,
         Prepare(j) \/ GetRates(j) \/ ListByChannel(j) \/ UpsertRead(j) \/ UpsertWrite(j)
           \/ Written(j) \/ DeleteSnapshot(j) \/ Report(j) \/ SendRates(j)
  PROVE  ScansSound'
<1>0. scan[j] \in ScanRec /\ snap \in RatesOf
      BY DEF ScanShape
<1>1. CASE Prepare(j)
      BY <1>1, PrepareForm, SoundAtRest, SoundOnly DEF Ends, Only
<1>2. CASE GetRates(j) \/ Report(j)
      BY <1>2, RatesForms, SoundAtRest, SoundOnly DEF Ends, Only
<1>3. CASE ListByChannel(j)
  <2>1. PICK K \in SUBSET Groups :
          Only(j, "upsert", [scan[j] EXCEPT !.existing = snap, !.keys = K, !.todo = Named(scan[j].results)])
        BY <1>3, RatesForms
  <2>2. job'[j].pc = "upsert" /\ scan'[j].todo \subseteq Groups
        BY <1>0, <2>1 DEF Only, ScanRec, Named
  <2> QED
      BY <2>1, <2>2, SoundOnly DEF SoundAt, Only
<1>4. CASE UpsertRead(j)
  <2>1. PICK g \in scan[j].todo : Only(j, "write", [scan[j] EXCEPT !.todo = @ \ {g}, !.at = <<g, snap[g]>>])
        BY <1>4, RatesForms
  <2>2. scan[j].todo \subseteq Groups
        BY <1>4 DEF UpsertRead, Is, ScansSound, SoundAt
  <2>3. job'[j].pc = "write" /\ scan'[j].todo \subseteq Groups /\ scan'[j].at = <<g, snap[g]>>
        BY <1>0, <2>1, <2>2 DEF Only, ScanRec
  <2>4. <<g, snap[g]>> \in Groups \X Vals
        BY <2>2, SnapTyped
  <2> QED
      BY <2>1, <2>3, <2>4, SoundOnly DEF SoundAt, Only, Vals
<1>5. CASE UpsertWrite(j)
  <2> DEFINE items == IF scan[j].at[2] = Absent /\ snap[scan[j].at[1]] # Absent THEN scan[j].report
                      ELSE scan[j].report \cup Noted(scan[j], scan[j].at[1], scan[j].at[2])
  <2>1. Only(j, "upsert", [scan[j] EXCEPT !.at = <<>>, !.report = items])
        BY <1>5, RatesForms
  <2>2. scan[j].todo \subseteq Groups
        BY <1>5 DEF UpsertWrite, Is, ScansSound, SoundAt
  <2> HIDE DEF items
  <2>3. job'[j].pc = "upsert" /\ scan'[j].todo \subseteq Groups
        BY <1>0, <2>1, <2>2 DEF Only, ScanRec
  <2> QED
      BY <2>1, <2>3, SoundOnly DEF SoundAt, Only
<1>6. CASE Written(j)
  <2>1. Only(j, "remove", [scan[j] EXCEPT !.todo = Gone(scan[j])])
        BY <1>6, RatesForms
  <2>2. job'[j].pc = "remove" /\ scan'[j].todo \subseteq Groups
        BY <1>0, <2>1 DEF Only, ScanRec, Gone, Named
  <2> QED
      BY <2>1, <2>2, SoundOnly DEF SoundAt, Only
<1>7. CASE DeleteSnapshot(j)
  <2> DEFINE items(g) == scan[j].report \cup (IF g \in scan[j].keys THEN {Removal(scan[j], g)} ELSE {})
  <2>1. PICK g \in scan[j].todo : Only(j, "remove", [scan[j] EXCEPT !.todo = @ \ {g}, !.report = items(g)])
        BY <1>0, <1>7, RatesForms DEF ScanRec
  <2>2. scan[j].todo \subseteq Groups
        BY <1>7 DEF DeleteSnapshot, Is, ScansSound, SoundAt
  <2> HIDE DEF items
  <2>3. job'[j].pc = "remove" /\ scan'[j].todo \subseteq Groups
        BY <1>0, <2>1, <2>2 DEF Only, ScanRec
  <2> QED
      BY <2>1, <2>3, SoundOnly DEF SoundAt, Only
<1>8. CASE SendRates(j)
  <2>1. Only(j, "announce", [NoScan EXCEPT !.alone = scan[j].alone, !.overtaken = scan[j].overtaken])
        BY <1>8, RatesForms
  <2>2. job'[j].pc = "announce" /\ scan'[j].news = {}
        BY <2>1 DEF Only, NoScan
  <2> QED
      BY <2>1, <2>2, SoundOnly DEF SoundAt, Only
<1> QED
    BY <1>1, <1>2, <1>3, <1>4, <1>5, <1>6, <1>7, <1>8

\* So does what posts, claims and tells.
LEMMA SoundMail ==
  ASSUME SessionShape, ModesFit, ScanShape, ScansSound, NEW j \in Jobs,
         Send(j) \/ Sent(j) \/ GetAnnouncements(j) \/ SyncAnnouncement(j) \/ Announce(j)
           \/ GetBalance(j) \/ ClaimExpired(j) \/ InsertClaim(j) \/ ClaimFails(j)
  PROVE  ScansSound'
<1>0. scan[j] \in ScanRec
      BY DEF ScanShape
<1>1. ASSUME Ends(j) PROVE ScansSound'
      BY <1>1, SoundAtRest, SoundOnly DEF Ends, Only
<1>2. CASE Send(j)
  <2>1. PICK m \in scan[j].outbox : Only(j, job[j].pc, [scan[j] EXCEPT !.outbox = @ \ {m}])
        BY <1>2, MailForms
  <2>2. job'[j].pc = job[j].pc /\ scan'[j].outbox \subseteq scan[j].outbox
        BY <1>0, <2>1 DEF Only, ScanRec
  <2>3. SoundAt(j) /\ job[j].pc \in {"tell news", "tell low"}
        BY <1>2 DEF ScansSound, Send
  <2> QED
      BY <2>1, <2>2, <2>3, SoundOnly DEF SoundAt, Only, Notes, LowMails
<1>3. CASE Sent(j) \/ ClaimFails(j)
      BY <1>1, <1>3, MailForms
<1>4. CASE GetAnnouncements(j)
  <2>1. CASE \E b \in BOOLEAN : Only(j, "post", [scan[j] EXCEPT !.todo = listed, !.quiet = b])
    <3>1. job'[j].pc = "post" /\ scan'[j].todo = listed
          BY <1>0, <2>1 DEF Only, ScanRec
    <3> QED
        BY <2>1, <3>1, SoundOnly DEF SoundAt, Only, ScanShape
  <2> QED
      BY <1>1, <1>4, <2>1, MailForms
<1>5. CASE SyncAnnouncement(j)
  <2> DEFINE new(k) == IF Inserted(k) THEN scan[j].news \cup {k} ELSE scan[j].news
  <2>1. PICK k \in scan[j].todo : Only(j, "post", [scan[j] EXCEPT !.todo = @ \ {k}, !.news = new(k)])
        BY <1>0, <1>5, MailForms DEF ScanRec
  <2>2. scan[j].todo \subseteq Notices
        BY <1>5 DEF SyncAnnouncement, Is, ScansSound, SoundAt
  <2> HIDE DEF new
  <2>3. job'[j].pc = "post" /\ scan'[j].todo \subseteq Notices
        BY <1>0, <2>1, <2>2 DEF Only, ScanRec
  <2> QED
      BY <2>1, <2>3, SoundOnly DEF SoundAt, Only
<1>6. CASE Announce(j)
  <2> DEFINE box == IF scan[j].quiet THEN {} ELSE [to : Subscribers, what : {{k} : k \in scan[j].news}]
  <2>1. Only(j, "tell news", [scan[j] EXCEPT !.outbox = box])
        BY <1>6, MailForms
  <2>2. box \subseteq Notes
        BY <1>0 DEF ScanRec, Notes
  <2> HIDE DEF box
  <2>3. job'[j].pc = "tell news" /\ scan'[j].outbox = box
        BY <1>0, <2>1 DEF Only, ScanRec
  <2> QED
      BY <2>1, <2>2, <2>3, SoundOnly DEF SoundAt, Only, Notes
<1>7. ASSUME Only(j, "tell low", [scan[j] EXCEPT !.outbox = [to : Subscribers, what : {{window}}]]) PROVE ScansSound'
  <2>1. job'[j].pc = "tell low" /\ scan'[j].outbox = [to : Subscribers, what : {{window}}]
        BY <1>0, <1>7 DEF Only, ScanRec
  <2>2. [to : Subscribers, what : {{window}}] \subseteq LowMails
        BY DEF LowMails, ScanShape
  <2> QED
      BY <1>7, <2>1, <2>2, SoundOnly DEF SoundAt, Only, LowMails
<1>8. ASSUME NEW pc \in {"claim", "insert"}, Only(j, pc, scan[j]) PROVE ScansSound'
      BY <1>8, SoundAtRest, SoundOnly DEF Only
<1>9. CASE GetBalance(j) \/ ClaimExpired(j) \/ InsertClaim(j)
      BY <1>1, <1>7, <1>8, <1>9, MailForms
<1> QED
    BY <1>2, <1>3, <1>4, <1>5, <1>6, <1>9

\* Every step keeps scans sound.
LEMMA SoundStep ==
  ASSUME SessionShape, ModesFit, ScanShape, ScansSound, [Next]_vars
  PROVE  ScansSound'
<1>1. ASSUME NEW j \in Jobs, Start(j) PROVE ScansSound'
  <2>1. SoundAt(j)'
        BY <1>1, StartForm, SoundAtRest DEF SessionPcs
  <2>2. \A k \in Jobs \ {j} : SoundAt(k)'
        BY <1>1, StartForm, SoundOthers DEF Others
  <2> QED
      BY <2>1, <2>2 DEF ScansSound
<1>2. ASSUME NEW j \in Jobs, ScanStep(j) PROVE ScansSound'
      BY <1>2, SoundRates, SoundMail DEF ScanStep
<1>3. CASE Operate
      BY <1>3, OperateForm, SoundOthers DEF ScansSound
<1>4. CASE World
      BY <1>4, WorldForm, SoundOthers DEF ScansSound, Marked
<1> QED
    BY <1>1, <1>2, <1>3, <1>4, ScanNext

-----------------------------------------------------------------------------
(* Nobody is told twice. *)

\* A scan that is only marked brings nothing new.
LEMMA CarryOthers ==
  ASSUME ScanShape, NEW k \in Jobs, job'[k] = job[k], Marked(k), NEW s, NEW a, Brings(k, s, a)'
  PROVE  Brings(k, s, a)
<1>1. /\ job'[k].pc = job[k].pc /\ scan'[k].news = scan[k].news /\ scan'[k].outbox = scan[k].outbox
      /\ scan[k].overtaken => scan'[k].overtaken
      BY DEF Marked, ScanShape, ScanRec
<1> QED
    BY <1>1 DEF Brings

\* Nor does one beside the scan that moves.
LEMMA CarryBesides ==
  ASSUME ScanShape, NEW j \in Jobs, Besides(j), NEW k \in Jobs \ {j}, NEW s, NEW a, Brings(k, s, a)'
  PROVE  Brings(k, s, a)
BY CarryOthers DEF Besides, Others, Marked

\* A step that makes nothing to tell.
LEMMA MailQuiet ==
  ASSUME ScanShape, MailInv, told' = told, posts' = posts, alerts' = alerts,
         \A k \in Jobs : \A s, a : Brings(k, s, a)' => Brings(k, s, a)
  PROVE  MailInv'
<1>0. cooldown' = cooldown /\ window' = window
      BY DEF alerts
<1>1. \A a : Unclaimed(a)' => Unclaimed(a)
      BY <1>0 DEF Unclaimed
<1>2. Alerts' = Alerts
      BY DEF Alerts
<1>3. CarriedOnce'
      BY <1>2 DEF MailInv, CarriedOnce
<1>4. UnclaimedIsUntold'
      BY <1>1, <1>2 DEF MailInv, UnclaimedIsUntold
<1> QED
    BY <1>3, <1>4 DEF MailInv

\* Nor does a scan that moves to where nothing is told.
LEMMA MailAtRest ==
  ASSUME ScanShape, MailInv, NEW j \in Jobs, Besides(j), told' = told, posts' = posts, alerts' = alerts,
         job'[j].pc \notin {"post", "tell news", "tell low"}
  PROVE  MailInv'
<1>1. \A s, a : ~Brings(j, s, a)'
      BY DEF Brings
<1> QED
    BY <1>1, CarryBesides, MailQuiet

\* Nobody is told of anything by the steps of a rate scan up to there.
LEMMA MailRates ==
  ASSUME SessionShape, ModesFit, ScanShape, ScansSound, MailInv, NEW j \in Jobs,
         Prepare(j) \/ GetRates(j) \/ ListByChannel(j) \/ UpsertRead(j) \/ UpsertWrite(j)
           \/ Written(j) \/ DeleteSnapshot(j) \/ Report(j) \/ SendRates(j)
  PROVE  MailInv'
<1>1. told' = told /\ posts' = posts /\ alerts' = alerts
      BY DEF Prepare, GetRates, ListByChannel, UpsertRead, UpsertWrite, Written, DeleteSnapshot, Report, SendRates
<1>2. Besides(j) /\ job'[j].pc \in SessionPcs \cup {"idle", "list", "upsert", "write", "remove", "tell", "announce"}
  <2>1. CASE Prepare(j)
        BY <2>1, PrepareForm DEF Ends, Only
  <2>2. CASE ~Prepare(j)
        BY <2>2, RatesForms DEF Ends, Only
  <2> QED
      BY <2>1, <2>2
<1> QED
    BY <1>1, <1>2, MailAtRest DEF SessionPcs

\* An alert is no announcement, and a later window another one.
LEMMA WindowsAreNoNotices ==
  \A w \in 1..Windows : w \notin Notices /\ \A v \in 1..Windows : w > v => w # v
<1>1. Windows \in Nat /\ Notices \cap (1..Windows) = {}
      BY ScanAssumption
<1>2. \A w \in 1..Windows : w \notin Notices
      BY <1>1
<1>3. ASSUME NEW w \in 1..Windows, NEW v \in 1..Windows, w > v PROVE w # v
      BY <1>1, <1>3
<1> QED
    BY <1>2, <1>3

\* A claim: nobody was told of this window's alert, and this scan alone will tell.
LEMMA MailClaim ==
  ASSUME ScanShape, MailInv, NEW j \in Jobs, cooldown # "running", cooldown' = "running",
         Only(j, "tell low", [scan[j] EXCEPT !.outbox = [to : Subscribers, what : {{window}}]]),
         told' = told, posts' = posts, window' = window
  PROVE  MailInv'
<1>0. Alerts' = Alerts
      BY DEF Alerts
<1>1. Unclaimed(window) /\ window \in 1..Windows
      BY DEF Unclaimed, ScanShape
<1>2. /\ job'[j].pc = "tell low" /\ scan'[j].outbox = [to : Subscribers, what : {{window}}]
  <2>1. scan[j] \in ScanRec
        BY DEF ScanShape
  <2>2. [scan[j] EXCEPT !.outbox = [to : Subscribers, what : {{window}}]].outbox = [to : Subscribers, what : {{window}}]
        BY <2>1 DEF ScanRec
  <2> QED
      BY <2>2 DEF Only
<1>3. \A s, a : Brings(j, s, a)' => a = window
  <2>1. \A m \in scan'[j].outbox : m.what = {window}
        BY <1>2
  <2>2. \A a : {a} = {window} => a = window
        OBVIOUS
  <2> QED
      BY <1>2, <2>1, <2>2 DEF Brings
<1>4. \A k \in Jobs \ {j} : \A s, a : Brings(k, s, a)' => Brings(k, s, a)
      BY CarryBesides DEF Only
<1>5. \A a : Unclaimed(a)' => Unclaimed(a) /\ a # window
  <2>1. window \notin Notices
        BY <1>1, WindowsAreNoNotices
  <2>2. ASSUME NEW a, Unclaimed(a)' PROVE Unclaimed(a) /\ a # window
    <3>1. CASE a \in Notices \ posts'
          BY <2>1, <3>1 DEF Unclaimed
    <3>2. CASE a \in 1..Windows /\ (a > window' \/ (a = window' /\ cooldown' # "running"))
      <4>1. a \in 1..Windows /\ a > window
            BY <3>2
      <4>2. a # window
            BY <1>1, <4>1, WindowsAreNoNotices
      <4> QED
          BY <4>1, <4>2 DEF Unclaimed
    <3> QED
        BY <2>2, <3>1, <3>2 DEF Unclaimed
  <2> QED
      BY <2>2
<1>6. \A s \in Subscribers : told[s][window] = 0 /\ \A k \in Jobs : ~Brings(k, s, window)
      BY <1>1 DEF MailInv, UnclaimedIsUntold, Alerts
<1>7. CarriedOnce'
  <2> SUFFICES ASSUME NEW s \in Subscribers, NEW a \in Alerts
               PROVE  /\ told[s][a] <= 1
                      /\ \A i \in Jobs : Brings(i, s, a)' =>
                           told[s][a] = 0 /\ \A k \in Jobs \ {i} : ~Brings(k, s, a)'
      BY <1>0 DEF CarriedOnce
  <2>1. told[s][a] <= 1
        BY DEF MailInv, CarriedOnce
  <2>2. CASE a = window
        BY <1>4, <1>6, <2>1, <2>2
  <2>3. CASE a # window
    <3>1. \A i \in Jobs : Brings(i, s, a)' => Brings(i, s, a)
          BY <1>3, <1>4, <2>3
    <3> QED
        BY <2>1, <3>1 DEF MailInv, CarriedOnce
  <2> QED
      BY <2>2, <2>3
<1>8. UnclaimedIsUntold'
  <2> SUFFICES ASSUME NEW s \in Subscribers, NEW a \in Alerts, Unclaimed(a)'
               PROVE  told[s][a] = 0 /\ \A i \in Jobs : ~Brings(i, s, a)'
      BY <1>0 DEF UnclaimedIsUntold
  <2>1. Unclaimed(a) /\ a # window
        BY <1>5
  <2>2. told[s][a] = 0 /\ \A i \in Jobs : ~Brings(i, s, a)
        BY <2>1 DEF MailInv, UnclaimedIsUntold
  <2> QED
      BY <1>3, <1>4, <2>1, <2>2
<1> QED
    BY <1>7, <1>8 DEF MailInv

\* An announcement that was not there: nobody was told, and this scan will tell.
LEMMA MailPost ==
  ASSUME SessionShape, ScanShape, ScansSound, MailInv, NEW j \in Jobs, SyncAnnouncement(j)
  PROVE  MailInv'
<1>0. Alerts' = Alerts
      BY DEF Alerts
<1>1. told' = told /\ alerts' = alerts /\ job[j].pc = "post" /\ scan[j].todo \subseteq Notices
      BY DEF SyncAnnouncement, Is, ScansSound, SoundAt
<1>2. PICK k \in scan[j].todo :
        /\ posts' = posts \cup {k}
        /\ Only(j, "post", [scan[j] EXCEPT !.todo = @ \ {k}, !.news = IF Inserted(k) THEN @ \cup {k} ELSE @])
      BY MailForms
<1>3. /\ job'[j].pc = "post" /\ scan'[j].overtaken = scan[j].overtaken
      /\ scan'[j].news = IF k \notin posts THEN scan[j].news \cup {k} ELSE scan[j].news
      BY <1>2 DEF Only, ScanShape, ScanRec, Inserted
<1>4. \A i \in Jobs \ {j} : \A s, a : Brings(i, s, a)' => Brings(i, s, a)
      BY <1>2, CarryBesides DEF Only
<1>5. \A s, a : Brings(j, s, a)' => Brings(j, s, a) \/ (a = k /\ k \notin posts)
      BY <1>1, <1>3 DEF Brings
<1>6. CASE k \in posts
  <2>1. posts' = posts /\ \A s, a : Brings(j, s, a)' => Brings(j, s, a)
        BY <1>2, <1>5, <1>6
  <2> QED
      BY <1>1, <1>4, <2>1, MailQuiet
<1>7. CASE k \notin posts
  <2>1. Unclaimed(k) /\ k \in Notices /\ k \in Alerts
        BY <1>1, <1>7 DEF Unclaimed, Alerts
  <2>2. \A s \in Subscribers : told[s][k] = 0 /\ \A i \in Jobs : ~Brings(i, s, k)
        BY <2>1 DEF MailInv, UnclaimedIsUntold
  <2>3. \A a : Unclaimed(a)' => Unclaimed(a) /\ a # k
    <3>1. k \notin 1..Windows
          BY <2>1, ScanAssumption
    <3> QED
        BY <1>1, <1>2, <3>1 DEF Unclaimed, alerts
  <2>4. CarriedOnce'
    <3> SUFFICES ASSUME NEW s \in Subscribers, NEW a \in Alerts
                 PROVE  /\ told[s][a] <= 1
                        /\ \A i \in Jobs : Brings(i, s, a)' =>
                             told[s][a] = 0 /\ \A h \in Jobs \ {i} : ~Brings(h, s, a)'
        BY <1>0, <1>1 DEF CarriedOnce
    <3>1. told[s][a] <= 1
          BY DEF MailInv, CarriedOnce
    <3>2. CASE a = k
          BY <1>4, <2>2, <3>1, <3>2
    <3>3. CASE a # k
          BY <1>4, <1>5, <3>1, <3>3 DEF MailInv, CarriedOnce
    <3> QED
        BY <3>2, <3>3
  <2>5. UnclaimedIsUntold'
        BY <1>0, <1>1, <1>4, <1>5, <2>3 DEF MailInv, UnclaimedIsUntold
  <2> QED
      BY <2>4, <2>5 DEF MailInv
<1> QED
    BY <1>6, <1>7

\* A message is delivered: it was the only one about its matter.
LEMMA MailSend ==
  ASSUME SessionShape, ScanShape, ScansSound, MailInv, NEW j \in Jobs, Send(j)
  PROVE  MailInv'
<1>0. job[j].pc \in {"tell news", "tell low"} /\ posts' = posts /\ alerts' = alerts /\ Alerts' = Alerts
      BY DEF Send, Alerts
<1>1. PICK m \in scan[j].outbox :
         /\ m.to \in Subscribers /\ m \in [to : Subscribers, what : {m.what}]
         /\ \E a \in Alerts : m.what = {a}
         /\ scan' = [scan EXCEPT ![j].outbox = @ \ {m}]
         /\ \/ told' = told
            \/ /\ ~scan[j].overtaken
               /\ told' = [told EXCEPT ![m.to] =
                             [a \in Alerts |-> IF a \in m.what THEN told[m.to][a] + 1 ELSE told[m.to][a]]]
      BY SendCounts
<1>2. PICK b \in Alerts : m.what = {b}
      BY <1>1
<1>3. \E n \in scan[j].outbox : Only(j, job[j].pc, [scan[j] EXCEPT !.outbox = @ \ {n}])
      BY MailForms
<1>4. job'[j].pc = job[j].pc /\ Besides(j)
      BY <1>3 DEF Only
<1>5. scan'[j].overtaken = scan[j].overtaken /\ scan'[j].outbox = scan[j].outbox \ {m}
  <2>1. scan[j] \in ScanRec /\ scan'[j] = [scan[j] EXCEPT !.outbox = @ \ {m}]
        BY <1>1 DEF ScanShape
  <2> QED
      BY <2>1 DEF ScanRec
<1>6. \A k \in Jobs \ {j} : \A s, a : Brings(k, s, a)' => Brings(k, s, a)
      BY <1>4, CarryBesides
<1>7. \A s, a : Brings(j, s, a)' => Brings(j, s, a) /\ (s # m.to \/ a # b)
  <2> SUFFICES ASSUME NEW s, NEW a, Brings(j, s, a)'
               PROVE  Brings(j, s, a) /\ (s # m.to \/ a # b)
      OBVIOUS
  <2>1. PICK n \in scan[j].outbox : n # m /\ n.to = s /\ n.what = {a}
        BY <1>0, <1>4, <1>5 DEF Brings
  <2>2. n \in [to : Subscribers, what : {n.what}]
        BY <1>0, MailIsOf
  <2>3. n.to = m.to /\ n.what = m.what => n = m
        BY <1>1, <2>2
  <2>4. Brings(j, s, a)
        BY <1>0, <1>4, <1>5, <2>1 DEF Brings
  <2> QED
      BY <1>2, <2>1, <2>3, <2>4
<1>8. CASE told' = told
      BY <1>0, <1>6, <1>7, <1>8, MailQuiet
<1>9. CASE /\ ~scan[j].overtaken
           /\ told' = [told EXCEPT ![m.to] =
                         [a \in Alerts |-> IF a \in m.what THEN told[m.to][a] + 1 ELSE told[m.to][a]]]
  <2>1. Brings(j, m.to, b)
        BY <1>0, <1>2, <1>9 DEF Brings
  <2>2. told[m.to][b] = 0 /\ \A k \in Jobs \ {j} : ~Brings(k, m.to, b)
        BY <1>1, <2>1 DEF MailInv, CarriedOnce
  <2>3. \A k \in Jobs : ~Brings(k, m.to, b)'
        BY <1>6, <1>7, <2>2
  <2>4. \A a \in Alerts : (a \in m.what) <=> a = b
        BY <1>2
  <2>5. told'[m.to] = [a \in Alerts |-> IF a \in m.what THEN told[m.to][a] + 1 ELSE told[m.to][a]]
        BY <1>1, <1>9 DEF ScanShape
  <2>6. told'[m.to][b] = 1
        BY <2>2, <2>4, <2>5
  <2>7. \A s \in Subscribers : \A a \in Alerts : (s # m.to \/ a # b) => told'[s][a] = told[s][a]
    <3>1. \A a \in Alerts : a # b => told'[m.to][a] = told[m.to][a]
          BY <2>4, <2>5
    <3>2. \A s \in Subscribers : s # m.to => told'[s] = told[s]
          BY <1>9 DEF ScanShape
    <3> QED
        BY <3>1, <3>2
  <2>8. ~Unclaimed(b)
        BY <1>1, <2>1 DEF MailInv, UnclaimedIsUntold
  <2>9. \A a : Unclaimed(a)' => Unclaimed(a)
        BY <1>0 DEF Unclaimed, alerts
  <2>10. CarriedOnce'
    <3> SUFFICES ASSUME NEW s \in Subscribers, NEW a \in Alerts
                 PROVE  /\ told'[s][a] <= 1
                        /\ \A i \in Jobs : Brings(i, s, a)' =>
                             told'[s][a] = 0 /\ \A h \in Jobs \ {i} : ~Brings(h, s, a)'
        BY <1>0 DEF CarriedOnce
    <3>1. CASE s = m.to /\ a = b
          BY <2>3, <2>6, <3>1
    <3>2. CASE s # m.to \/ a # b
      <4>1. told'[s][a] = told[s][a] /\ \A i \in Jobs : Brings(i, s, a)' => Brings(i, s, a)
            BY <1>6, <1>7, <2>7, <3>2
      <4> QED
          BY <4>1 DEF MailInv, CarriedOnce
    <3> QED
        BY <3>1, <3>2
  <2>11. UnclaimedIsUntold'
    <3> SUFFICES ASSUME NEW s \in Subscribers, NEW a \in Alerts, Unclaimed(a)'
                 PROVE  told'[s][a] = 0 /\ \A i \in Jobs : ~Brings(i, s, a)'
        BY <1>0 DEF UnclaimedIsUntold
    <3>1. Unclaimed(a) /\ a # b
          BY <2>8, <2>9
    <3>2. told[s][a] = 0 /\ \A i \in Jobs : ~Brings(i, s, a)
          BY <3>1 DEF MailInv, UnclaimedIsUntold
    <3> QED
        BY <1>6, <1>7, <2>7, <3>1, <3>2
  <2> QED
      BY <2>10, <2>11 DEF MailInv
<1> QED
    BY <1>1, <1>8, <1>9

\* What announces and claims keeps messages apart.
LEMMA MailMail ==
  ASSUME SessionShape, ModesFit, ScanShape, ScansSound, MailInv, NEW j \in Jobs,
         Sent(j) \/ GetAnnouncements(j) \/ Announce(j) \/ GetBalance(j) \/ ClaimExpired(j) \/ InsertClaim(j)
           \/ ClaimFails(j)
  PROVE  MailInv'
<1>0. scan[j] \in ScanRec
      BY DEF ScanShape
<1>1. told' = told /\ posts' = posts
      BY DEF Sent, GetAnnouncements, Announce, GetBalance, ClaimExpired, InsertClaim, ClaimFails
<1>2. alerts' = alerts \/ ClaimExpired(j) \/ InsertClaim(j)
      BY DEF Sent, GetAnnouncements, Announce, GetBalance, ClaimFails
<1>3. ASSUME Ends(j), alerts' = alerts PROVE MailInv'
      BY <1>1, <1>3, MailAtRest DEF Ends, Only
<1>4. CASE Sent(j) \/ ClaimFails(j)
      BY <1>3, <1>4, MailForms DEF Sent, ClaimFails
<1>5. CASE GetAnnouncements(j)
  <2>1. CASE \E b \in BOOLEAN : Only(j, "post", [scan[j] EXCEPT !.todo = listed, !.quiet = b])
    <3>1. job'[j].pc = "post" /\ scan'[j].news = scan[j].news /\ Besides(j)
          BY <1>0, <2>1 DEF Only, ScanRec
    <3>2. scan[j].news = {}
          BY <1>5 DEF GetAnnouncements, Is, ScansSound, SoundAt
    <3>3. \A s, a : ~Brings(j, s, a)'
          BY <3>1, <3>2 DEF Brings
    <3> QED
        BY <1>1, <1>5, <3>1, <3>3, CarryBesides, MailQuiet DEF GetAnnouncements
  <2> QED
      BY <1>3, <1>5, <2>1, MailForms DEF GetAnnouncements
<1>6. CASE Announce(j)
  <2> DEFINE box == IF scan[j].quiet THEN {} ELSE [to : Subscribers, what : {{k} : k \in scan[j].news}]
  <2>1. Only(j, "tell news", [scan[j] EXCEPT !.outbox = box])
        BY <1>6, MailForms
  <2>2. \A m \in box : \E k \in scan[j].news : m.what = {k}
        OBVIOUS
  <2> HIDE DEF box
  <2>3. job'[j].pc = "tell news" /\ scan'[j].outbox = box /\ scan'[j].overtaken = scan[j].overtaken
        BY <1>0, <2>1 DEF Only, ScanRec
  <2>4. job[j].pc = "post"
        BY <1>6 DEF Announce, Is
  <2>5. ASSUME NEW s, NEW a, Brings(j, s, a)' PROVE Brings(j, s, a)
    <3>1. PICK m \in box : m.what = {a}
          BY <2>3, <2>5 DEF Brings
    <3>2. PICK k \in scan[j].news : m.what = {k}
          BY <2>2
    <3>3. a = k
          BY <3>1, <3>2
    <3> QED
        BY <2>3, <2>4, <2>5, <3>3 DEF Brings
  <2>6. Besides(j)
        BY <2>1 DEF Only
  <2> QED
      BY <1>1, <1>6, <2>5, <2>6, CarryBesides, MailQuiet DEF Announce
<1>7. ASSUME NEW pc \in {"claim", "insert"}, Only(j, pc, scan[j]), alerts' = alerts PROVE MailInv'
      BY <1>1, <1>7, MailAtRest DEF Only
<1>8. CASE GetBalance(j)
      BY <1>3, <1>7, <1>8, MailForms DEF GetBalance
<1>9. CASE ClaimExpired(j) \/ InsertClaim(j)
  <2>1. window' = window
        BY <1>9 DEF ClaimExpired, InsertClaim
  <2>2. CASE cooldown' = cooldown
    <3>1. Ends(j) \/ Only(j, "insert", scan[j])
          BY <1>9, <2>2, MailForms
    <3> QED
        BY <1>3, <1>7, <2>1, <2>2, <3>1 DEF alerts
  <2>3. CASE cooldown' # cooldown
        BY <1>1, <1>9, <2>1, <2>3, MailForms, MailClaim
  <2> QED
      BY <2>2, <2>3
<1> QED
    BY <1>4, <1>5, <1>6, <1>8, <1>9

\* Deleting the channel makes nothing of what is under way count.
LEMMA MailOperate ==
  ASSUME SessionShape, ScanShape, MailInv, Operate
  PROVE  MailInv'
<1>0. Alerts' = Alerts /\ window' = window
      BY DEF Alerts, Operate
<1>1. CASE UNCHANGED <<snap, logged, posts, cooldown, scan, told>>
  <2>1. \A k \in Jobs : \A s, a : Brings(k, s, a)' => Brings(k, s, a)
        BY OperateForm, CarryOthers
  <2> QED
      BY <1>0, <1>1, <2>1, MailQuiet DEF alerts
<1>2. CASE /\ told' = [s \in Subscribers |-> [a \in Alerts |-> 0]]
           /\ \A k \in Jobs : job[k].pc # "idle" => scan'[k].overtaken /\ ~scan'[k].alone
  <2>1. job' = job
        BY OperateForm
  <2>2. \A k \in Jobs : \A s, a : ~Brings(k, s, a)'
        BY <1>2, <2>1 DEF Brings
  <2>3. \A s \in Subscribers : \A a \in Alerts : told'[s][a] = 0
        BY <1>2
  <2>4. CarriedOnce'
    <3> SUFFICES ASSUME NEW s \in Subscribers, NEW a \in Alerts PROVE told'[s][a] <= 1
        BY <1>0, <2>2 DEF CarriedOnce
    <3>1. told'[s][a] = 0
          BY <2>3
    <3> QED
        BY <3>1
  <2>5. UnclaimedIsUntold'
        BY <1>0, <2>2, <2>3 DEF UnclaimedIsUntold
  <2> QED
      BY <2>4, <2>5 DEF MailInv
<1> QED
    BY <1>1, <1>2, OperateForm

\* The window ends: its alert may be unclaimed again as the next one's.
LEMMA MailWindow ==
  ASSUME ScanShape, MailInv, WindowEnds
  PROVE  MailInv'
<1>0. Alerts' = Alerts /\ told' = told /\ posts' = posts /\ window' = window + 1 /\ window \in 1..Windows
      BY DEF Alerts, WindowEnds, ScanShape
<1>1. \A k \in Jobs : \A s, a : Brings(k, s, a)' => Brings(k, s, a)
      BY WorldForm DEF World, Brings
<1>2. Windows \in Nat
      BY ScanAssumption
<1>3. ASSUME NEW a, Unclaimed(a)' PROVE Unclaimed(a)
  <2>1. CASE a \in Notices \ posts'
        BY <1>0, <2>1 DEF Unclaimed
  <2>2. CASE a \in 1..Windows /\ (a > window' \/ a = window')
    <3>1. a > window
      <4>1. a \in Int /\ window \in Int
            BY <1>0, <1>2, <2>2
      <4>2. a > window + 1 \/ a = window + 1
            BY <1>0, <2>2
      <4> QED
          BY <4>1, <4>2
    <3> QED
        BY <2>2, <3>1 DEF Unclaimed
  <2> QED
      BY <1>3, <2>1, <2>2 DEF Unclaimed
<1>4. CarriedOnce'
      BY <1>0, <1>1 DEF MailInv, CarriedOnce
<1>5. UnclaimedIsUntold'
      BY <1>0, <1>1, <1>3 DEF MailInv, UnclaimedIsUntold
<1> QED
    BY <1>4, <1>5 DEF MailInv

\* Retention forgets an announcement: nobody is about to tell it.
LEMMA MailRetain ==
  ASSUME ScanShape, ScansSound, MailInv, Retain
  PROVE  MailInv'
<1>0. Alerts' = Alerts /\ job' = job /\ scan' = scan /\ cooldown' = cooldown /\ window' = window
      BY WorldForm DEF World, Alerts, Retain, alerts
<1>1. PICK k \in posts : posts' = posts \ {k} /\ told' = [s \in Subscribers |-> [told[s] EXCEPT ![k] = 0]]
      BY DEF Retain
<1>2. \A i \in Jobs : \A s, a : Brings(i, s, a)' => Brings(i, s, a)
      BY <1>0 DEF Brings
<1>3. k \in Notices /\ k \in Alerts
      BY DEF ScanShape, Alerts
<1>4. \A i \in Jobs : \A s : ~Brings(i, s, k)
  <2> SUFFICES ASSUME NEW i \in Jobs, NEW s, Brings(i, s, k) PROVE FALSE
      OBVIOUS
  <2>1. job[i].pc = "tell low" /\ \E m \in scan[i].outbox : m.what = {k}
        BY DEF Retain, Brings
  <2>2. scan[i].outbox \subseteq LowMails
        BY <2>1 DEF ScansSound, SoundAt
  <2>3. k \in 1..Windows
        BY <2>1, <2>2 DEF LowMails
  <2> QED
      BY <1>3, <2>3, WindowsAreNoNotices
<1>5. \A s \in Subscribers : \A a \in Alerts : told'[s][a] = IF a = k THEN 0 ELSE told[s][a]
  <2>1. \A s \in Subscribers : told[s] \in [Alerts -> Nat]
        BY DEF ScanShape
  <2>2. \A s \in Subscribers : told'[s] = [told[s] EXCEPT ![k] = 0]
        BY <1>1
  <2> QED
      BY <2>1, <2>2
<1>6. \A a : Unclaimed(a)' => Unclaimed(a) \/ a = k
      BY <1>0, <1>1 DEF Unclaimed
<1>7. CarriedOnce'
  <2> SUFFICES ASSUME NEW s \in Subscribers, NEW a \in Alerts
               PROVE  /\ told'[s][a] <= 1
                      /\ \A i \in Jobs : Brings(i, s, a)' =>
                           told'[s][a] = 0 /\ \A h \in Jobs \ {i} : ~Brings(h, s, a)'
      BY <1>0 DEF CarriedOnce
  <2>1. CASE a = k
    <3>1. told'[s][a] = 0
          BY <1>5, <2>1
    <3> QED
        BY <1>2, <1>4, <2>1, <3>1
  <2>2. CASE a # k
    <3>1. told'[s][a] = told[s][a]
          BY <1>5, <2>2
    <3> QED
        BY <1>2, <3>1 DEF MailInv, CarriedOnce
  <2> QED
      BY <2>1, <2>2
<1>8. UnclaimedIsUntold'
  <2> SUFFICES ASSUME NEW s \in Subscribers, NEW a \in Alerts, Unclaimed(a)'
               PROVE  told'[s][a] = 0 /\ \A i \in Jobs : ~Brings(i, s, a)'
      BY <1>0 DEF UnclaimedIsUntold
  <2>1. CASE a = k
        BY <1>2, <1>4, <1>5, <2>1
  <2>2. CASE a # k
        BY <1>2, <1>5, <1>6, <2>2 DEF MailInv, UnclaimedIsUntold
  <2> QED
      BY <2>1, <2>2
<1> QED
    BY <1>7, <1>8 DEF MailInv

\* Every step keeps messages apart.
LEMMA MailStep ==
  ASSUME SessionShape, ModesFit, ScanShape, ScansSound, MailInv, [Next]_vars
  PROVE  MailInv'
<1>1. ASSUME NEW j \in Jobs, Start(j) PROVE MailInv'
  <2>1. told' = told /\ posts' = posts /\ alerts' = alerts
        BY <1>1 DEF Start
  <2>2. \A s, a : ~Brings(j, s, a)'
        BY <1>1, StartForm DEF Brings
  <2>3. \A k \in Jobs \ {j} : \A s, a : Brings(k, s, a)' => Brings(k, s, a)
        BY <1>1, StartForm, CarryOthers DEF Others
  <2> QED
      BY <2>1, <2>2, <2>3, MailQuiet
<1>2. ASSUME NEW j \in Jobs, ScanStep(j) PROVE MailInv'
      BY <1>2, MailRates, MailSend, MailPost, MailMail DEF ScanStep
<1>3. CASE Reoffer \/ Publish \/ (Expire /\ UNCHANGED scanVars) \/ UNCHANGED vars
  <2>1. told' = told /\ posts' = posts /\ alerts' = alerts
        BY <1>3 DEF Reoffer, Publish, scanVars, vars, alerts
  <2>2. job' = job /\ scan' = scan
        BY <1>3, WorldForm DEF World
  <2>3. \A k \in Jobs : \A s, a : Brings(k, s, a)' => Brings(k, s, a)
        BY <2>2 DEF Brings
  <2> QED
      BY <2>1, <2>3, MailQuiet
<1> QED
    BY <1>1, <1>2, <1>3, MailOperate, MailWindow, MailRetain, ScanNext DEF World

-----------------------------------------------------------------------------
(* A scan that is alone is exact. *)

\* A scan that runs goes on as it began, and only scans of the rates write.
LEMMA StepKeeps ==
  ASSUME SessionShape, ModesFit, ScanShape, ScansSound, NEW j \in Jobs, ScanStep(j)
  PROVE  /\ job[j].pc # "idle" /\ Besides(j)
         /\ job'[j].pc = "idle" \/ scan'[j].alone = scan[j].alone
         /\ ~Rating(j) => snap' = snap /\ logged' = logged
<1>0. scan[j] \in ScanRec /\ NoScan \in ScanRec
      BY NoScanTyped DEF ScanShape
<1>1. CASE Prepare(j)
  <2>1. snap' = snap /\ logged' = logged
        BY <1>1 DEF Prepare
  <2> QED
      BY <1>1, <2>1, PrepareForm DEF Ends, Only, InSession, SessionPcs
<1>2. CASE GetRates(j) \/ ListByChannel(j) \/ UpsertRead(j) \/ UpsertWrite(j)
           \/ Written(j) \/ DeleteSnapshot(j) \/ Report(j) \/ SendRates(j)
  <2>1. Rating(j)
        BY <1>2 DEF GetRates, ListByChannel, UpsertRead, UpsertWrite, Written, DeleteSnapshot, Report, SendRates,
           Is, Rating
  <2>2. /\ Besides(j)
        /\ job'[j].pc = "idle" \/ scan'[j].alone = scan[j].alone
    <3>1. CASE GetRates(j)
      <4>1. Ends(j) \/ Only(j, "list", [scan[j] EXCEPT !.results = offered])
            BY <3>1, RatesForms
      <4> QED
          BY <1>0, <4>1 DEF Only, Ends, ScanRec
    <3>2. CASE ListByChannel(j)
      <4>1. PICK K \in SUBSET Groups :
              Only(j, "upsert", [scan[j] EXCEPT !.existing = snap, !.keys = K, !.todo = Named(scan[j].results)])
            BY <3>2, RatesForms
      <4> QED
          BY <1>0, <4>1 DEF Only, ScanRec
    <3>3. CASE UpsertRead(j)
      <4>1. PICK g \in scan[j].todo : Only(j, "write", [scan[j] EXCEPT !.todo = @ \ {g}, !.at = <<g, snap[g]>>])
            BY <3>3, RatesForms
      <4> QED
          BY <1>0, <4>1 DEF Only, ScanRec
    <3>5. CASE Written(j)
      <4>1. Only(j, "remove", [scan[j] EXCEPT !.todo = Gone(scan[j])])
            BY <3>5, RatesForms
      <4> QED
          BY <1>0, <4>1 DEF Only, ScanRec
    <3>6. CASE UpsertWrite(j)
      <4> DEFINE items == IF scan[j].at[2] = Absent /\ snap[scan[j].at[1]] # Absent THEN scan[j].report
                          ELSE scan[j].report \cup Noted(scan[j], scan[j].at[1], scan[j].at[2])
      <4>1. Only(j, "upsert", [scan[j] EXCEPT !.at = <<>>, !.report = items])
            BY <3>6, RatesForms
      <4> HIDE DEF items
      <4> QED
          BY <1>0, <4>1 DEF Only, ScanRec
    <3>7. CASE DeleteSnapshot(j)
      <4> DEFINE items(g) == scan[j].report \cup (IF g \in scan[j].keys THEN {Removal(scan[j], g)} ELSE {})
      <4>1. PICK g \in scan[j].todo : Only(j, "remove", [scan[j] EXCEPT !.todo = @ \ {g}, !.report = items(g)])
            BY <1>0, <3>7, RatesForms DEF ScanRec
      <4> HIDE DEF items
      <4> QED
          BY <1>0, <4>1 DEF Only, ScanRec
    <3>4. CASE Report(j) \/ SendRates(j)
          BY <1>0, <3>4, RatesForms DEF Only, ScanRec
    <3> QED
        BY <1>2, <3>1, <3>2, <3>3, <3>4, <3>5, <3>6, <3>7
  <2> QED
      BY <2>1, <2>2 DEF Rating
<1>3. CASE Send(j) \/ Sent(j) \/ GetAnnouncements(j) \/ SyncAnnouncement(j) \/ Announce(j)
           \/ GetBalance(j) \/ ClaimExpired(j) \/ InsertClaim(j) \/ ClaimFails(j)
  <2>1. job[j].pc # "idle" /\ snap' = snap /\ logged' = logged
        BY <1>3 DEF Send, Sent, GetAnnouncements, SyncAnnouncement, Announce, GetBalance, ClaimExpired,
           InsertClaim, ClaimFails, Is
  <2>2. ASSUME NEW pc, NEW x, Only(j, pc, [scan[j] EXCEPT !.outbox = x])
        PROVE  Besides(j) /\ scan'[j].alone = scan[j].alone
        BY <1>0, <2>2 DEF Only, ScanRec
  <2>3. /\ Besides(j)
        /\ job'[j].pc = "idle" \/ scan'[j].alone = scan[j].alone
    <3>1. CASE Send(j)
      <4>1. PICK m \in scan[j].outbox : Only(j, job[j].pc, [scan[j] EXCEPT !.outbox = @ \ {m}])
            BY <3>1, MailForms
      <4> QED
          BY <1>0, <4>1 DEF Only, ScanRec
    <3>2. CASE GetAnnouncements(j)
      <4>1. Ends(j) \/ \E b \in BOOLEAN : Only(j, "post", [scan[j] EXCEPT !.todo = listed, !.quiet = b])
            BY <3>2, MailForms
      <4> QED
          BY <1>0, <4>1 DEF Only, Ends, ScanRec
    <3>3. CASE SyncAnnouncement(j)
      <4> DEFINE new(k) == IF Inserted(k) THEN scan[j].news \cup {k} ELSE scan[j].news
      <4>1. PICK k \in scan[j].todo : Only(j, "post", [scan[j] EXCEPT !.todo = @ \ {k}, !.news = new(k)])
            BY <1>0, <3>3, MailForms DEF ScanRec
      <4> HIDE DEF new
      <4> QED
          BY <1>0, <4>1 DEF Only, ScanRec
    <3>4. CASE Sent(j) \/ GetBalance(j) \/ ClaimFails(j)
          BY <3>4, MailForms DEF Only, Ends
    <3>5. CASE Announce(j)
      <4>1. Only(j, "tell news", [scan[j] EXCEPT !.outbox = IF scan[j].quiet THEN {}
                                    ELSE [to : Subscribers, what : {{k} : k \in scan[j].news}]])
            BY <3>5, MailForms
      <4> QED
          BY <2>2, <4>1
    <3>6. CASE ClaimExpired(j) \/ InsertClaim(j)
      <4>1. \/ Ends(j) \/ Only(j, "insert", scan[j])
            \/ Only(j, "tell low", [scan[j] EXCEPT !.outbox = [to : Subscribers, what : {{window}}]])
            BY <3>6, MailForms
      <4>2. Ends(j) \/ Only(j, "insert", scan[j]) => Besides(j) /\ (job'[j].pc = "idle" \/ scan'[j].alone = scan[j].alone)
            BY DEF Only, Ends
      <4> QED
          BY <2>2, <4>1, <4>2
    <3> QED
        BY <1>3, <3>1, <3>2, <3>3, <3>4, <3>5, <3>6
  <2> QED
      BY <2>1, <2>3
<1> QED
    BY <1>1, <1>2, <1>3 DEF ScanStep

\* Every step keeps a lone scan alone.
LEMMA AloneStep ==
  ASSUME SessionShape, ModesFit, ScanShape, ScansSound, LoneIsAlone, [Next]_vars
  PROVE  LoneIsAlone'
<1>0. plan' = plan
      BY BudgetStep
<1>1. ASSUME \A k \in Jobs : Rating(k)' => Rating(k) /\ (scan'[k].alone => scan[k].alone)
      PROVE  LoneIsAlone'
      BY <1>1 DEF LoneIsAlone, Lone
<1>2. ASSUME NEW k \in Jobs, Marked(k), job'[k] = job[k]
      PROVE  Rating(k)' => Rating(k) /\ (scan'[k].alone => scan[k].alone)
  <2>1. scan[k] \in ScanRec
        BY DEF ScanShape
  <2>2. scan'[k].alone => scan[k].alone
        BY <1>2, <2>1 DEF Marked, ScanRec
  <2> QED
      BY <1>0, <1>2, <2>2 DEF Rating
<1>3. ASSUME NEW j \in Jobs, Start(j) PROVE LoneIsAlone'
  <2>1. job[j].pc = "idle" /\ Others(j) /\ scan'[j].alone = ~Overlaps(j)
    <3>1. PICK b \in BOOLEAN : b = ~Overlaps(j)
          OBVIOUS
    <3>2. scan'[j] = [NoScan EXCEPT !.alone = b]
          BY <1>3, <3>1, StartForm
    <3>3. scan'[j].alone = b
          BY <3>2 DEF NoScan
    <3> QED
        BY <1>3, <3>1, <3>3, StartForm
  <2>2. \A k \in Jobs \ {j} : Rating(k)' => Rating(k) /\ (scan'[k].alone => scan[k].alone)
        BY <1>2, <1>3, StartForm DEF Others
  <2>3. CASE plan.kind[j] # "rates"
    <3>1. ~Rating(j)'
          BY <1>0, <2>3 DEF Rating
    <3> QED
        BY <1>1, <2>2, <3>1
  <2>4. CASE plan.kind[j] = "rates"
    <3>1. \A k \in Jobs \ {j} : ~scan'[k].alone
          BY <1>3, <2>4, StartForm
    <3>2. Lone(j)' => \A k \in Jobs \ {j} : ~Rating(k)
          BY <2>1 DEF Lone, Overlaps, Rating
    <3>3. Lone(j)' => \A k \in Jobs \ {j} : ~Rating(k)'
          BY <2>2, <3>2
    <3> QED
        BY <3>1, <3>3 DEF LoneIsAlone, Lone
  <2> QED
      BY <2>3, <2>4
<1>4. ASSUME NEW j \in Jobs, ScanStep(j) PROVE LoneIsAlone'
  <2>1. Rating(j)' => Rating(j) /\ (scan'[j].alone => scan[j].alone)
        BY <1>0, <1>4, StepKeeps DEF Rating
  <2>2. \A k \in Jobs \ {j} : Rating(k)' => Rating(k) /\ (scan'[k].alone => scan[k].alone)
        BY <1>2, <1>4, StepKeeps DEF Besides, Others, Marked
  <2> QED
      BY <1>1, <2>1, <2>2
<1>5. CASE Operate
      BY <1>1, <1>2, <1>5, OperateForm
<1>6. CASE World
  <2>1. job' = job /\ scan' = scan
        BY <1>6, WorldForm
  <2>2. \A k \in Jobs : Rating(k)' => Rating(k) /\ (scan'[k].alone => scan[k].alone)
        BY <1>0, <2>1 DEF Rating
  <2> QED
      BY <1>1, <2>2
<1> QED
    BY <1>3, <1>4, <1>5, <1>6, ScanNext

\* Scans that found and got the same report the same.
Alike(c, d) == d.results = c.results /\ d.existing = c.existing /\ d.keys = c.keys

\* What is reported depends on what was found and got.
LEMMA AlikeReports ==
  ASSUME NEW c, NEW d, Alike(c, d)
  PROVE  /\ Named(d.results) = Named(c.results) /\ Gone(d) = Gone(c)
         /\ \A g : Removal(d, g) = Removal(c, g) /\ (LoggedWell(d, g) <=> LoggedWell(c, g))
         /\ \A g, p : Noted(d, g, p) = Noted(c, g, p)
         /\ \A W, R : ReportOf(d, W, R) = ReportOf(c, W, R)
         /\ Difference(d) = Difference(c)
<1>1. Named(d.results) = Named(c.results) /\ Named(d.existing) = Named(c.existing) /\ Gone(d) = Gone(c)
      BY DEF Alike, Gone
<1>2. \A g : Removal(d, g) = Removal(c, g) /\ (LoggedWell(d, g) <=> LoggedWell(c, g))
      BY DEF Alike, Removal, LoggedWell
<1>3. \A g, p : Noted(d, g, p) = Noted(c, g, p)
      BY <1>1 DEF Alike, Noted, isFirstSync
<1>4. \A W, R : ReportOf(d, W, R) = ReportOf(c, W, R)
  <2> TAKE W, R
  <2>1. \A g : Noted(d, g, d.existing[g]) = Noted(c, g, c.existing[g])
        BY <1>3 DEF Alike
  <2>2. d.keys = c.keys
        BY DEF Alike
  <2> QED
      BY <1>2, <2>1, <2>2 DEF ReportOf
<1>5. Difference(d) = Difference(c)
      BY <1>1 DEF Alike, Difference
<1> QED
    BY <1>1, <1>2, <1>3, <1>4, <1>5

\* The report of all that was written and removed is the difference.
LEMMA ReportIsDifference ==
  ASSUME NEW c \in ScanRec
  PROVE  ReportOf(c, Named(c.results), Gone(c)) = Difference(c)
<1>0. Named(c.results) \subseteq Groups /\ Gone(c) \subseteq Groups /\ c.keys \subseteq Groups
      BY DEF Named, Gone, ScanRec
<1>1. ASSUME NEW g \in Named(c.results), NEW i \in Noted(c, g, c.existing[g]) PROVE i \in Difference(c)
  <2>1. /\ g \in c.keys /\ c.existing[g] # c.results[g] /\ ~(c.existing[g] = Absent /\ isFirstSync(c))
        /\ i = Item(IF c.existing[g] = Absent THEN "added" ELSE "changed", g, c.existing[g], c.results[g])
        BY <1>1 DEF Noted
  <2>2. c.results[g] # Absent
        BY <1>1 DEF Named
  <2>3. CASE c.existing[g] = Absent
        BY <1>1, <2>1, <2>3 DEF Difference, isFirstSync
  <2>4. CASE c.existing[g] # Absent
        BY <2>1, <2>2, <2>4 DEF Difference
  <2> QED
      BY <2>3, <2>4
<1>2. ASSUME NEW g \in Gone(c), g \in c.keys PROVE Removal(c, g) \in Difference(c)
  <2>1. g \in c.keys \cap Named(c.existing) /\ c.results[g] = Absent
        BY <1>0, <1>2 DEF Gone, Named
  <2> QED
      BY <2>1 DEF Difference, Removal
<1>3. ASSUME NEW i \in Difference(c) PROVE i \in ReportOf(c, Named(c.results), Gone(c))
  <2>0. ASSUME NEW g \in Named(c.results), i \in Noted(c, g, c.existing[g])
        PROVE  i \in ReportOf(c, Named(c.results), Gone(c))
    <3>1. g \in Groups /\ c.existing[g] \in Vals
          BY <1>0, <2>0 DEF ScanRec, RatesOf, Vals
    <3>2. i \in Items
          BY <2>0, <3>1, NotedTyped
    <3> QED
        BY <2>0, <3>2 DEF ReportOf
  <2>1. CASE \E g \in {h \in c.keys : Absent \notin {c.existing[h], c.results[h]} /\ c.existing[h] # c.results[h]} :
               i = Item("changed", g, c.existing[g], c.results[g])
    <3>1. PICK g \in c.keys : /\ c.existing[g] # Absent /\ c.results[g] # Absent /\ c.existing[g] # c.results[g]
                              /\ i = Item("changed", g, c.existing[g], c.results[g])
          BY <2>1
    <3>2. g \in Named(c.results)
          BY <1>0, <3>1 DEF Named
    <3> QED
        BY <2>0, <3>1, <3>2 DEF Noted
  <2>2. CASE \E g \in {h \in c.keys \cap Named(c.results) : c.existing[h] = Absent /\ Named(c.existing) # {}} :
               i = Item("added", g, Absent, c.results[g])
    <3>1. PICK g \in c.keys \cap Named(c.results) : /\ c.existing[g] = Absent /\ Named(c.existing) # {}
                                                    /\ i = Item("added", g, Absent, c.results[g])
          BY <2>2
    <3>2. c.results[g] # Absent
          BY <3>1 DEF Named
    <3> QED
        BY <2>0, <3>1, <3>2 DEF Noted, isFirstSync
  <2>3. CASE \E g \in {h \in c.keys \cap Named(c.existing) : c.results[h] = Absent} :
               i = Item("removed", g, c.existing[g], Absent)
    <3>1. PICK g \in c.keys \cap Named(c.existing) : c.results[g] = Absent /\ i = Removal(c, g)
          BY <2>3 DEF Removal
    <3>2. g \in Gone(c)
          BY <3>1 DEF Gone, Named
    <3>3. i \in Items
          BY <1>0, <3>1, NotedTyped DEF Vals
    <3> QED
        BY <3>1, <3>2, <3>3 DEF ReportOf
  <2> QED
      BY <2>1, <2>2, <2>3 DEF Difference
<1> QED
    BY <1>1, <1>2, <1>3 DEF ReportOf

\* Nothing that a scan at rest depends on has changed.
LEMMA ExactOthers ==
  ASSUME NEW k \in Jobs, job'[k].pc = job[k].pc, scan'[k] = scan[k], snap' = snap, logged' = logged, ExactAt(k)
  PROVE  ExactAt(k)'
<1>1. Pending(k)' = Pending(k)
      BY DEF Pending
<1>2. \A c, g : LoggedWell(c, g)' <=> LoggedWell(c, g)
      BY DEF LoggedWell
<1>3. \A c, W, R : ReportOf(c, W, R)' = ReportOf(c, W, R)
      BY DEF ReportOf, Items, Vals
<1>4. Writing(k) => Writing(k)'
      BY <1>1, <1>2, <1>3 DEF Writing
<1>5. Removing(k) => Removing(k)'
      BY <1>2, <1>3 DEF Removing
<1>6. Telling(k) => Telling(k)'
      BY <1>2 DEF Telling
<1> QED
    BY <1>4, <1>5, <1>6 DEF ExactAt

\* Writing and Removing, of any scan and any rows.
WritingIs(c, pending, rows, log) ==
  /\ c.todo \subseteq Named(c.results)
  /\ \A g \in Groups \ (Named(c.results) \ pending) : rows[g] = c.existing[g]
  /\ \A g \in Named(c.results) \ pending :
       rows[g] = c.results[g] /\ (c.existing[g] \notin {Absent, c.results[g]} => log[g] = c.results[g])
  /\ c.report = ReportOf(c, Named(c.results) \ pending, {})

\* A scan that is writing after a step.
LEMMA WritingNext ==
  ASSUME NEW j \in Jobs, WritingIs(scan'[j], Pending(j)', snap', logged'),
         job'[j].pc = "write" => /\ scan'[j].at[1] \in Named(scan'[j].results) \ scan'[j].todo
                                 /\ scan'[j].at[2] = scan'[j].existing[scan'[j].at[1]]
  PROVE  Writing(j)'
<1>1. \A c, W, R : ReportOf(c, W, R)' = ReportOf(c, W, R)
      BY DEF ReportOf, Items, Vals
<1> QED
    BY <1>1 DEF Writing, WritingIs, LoggedWell

\* The steps of the scan itself.
LEMMA ExactStart ==
  ASSUME ScanShape, NEW j \in Jobs, job[j].pc \in SessionPcs, ExactAt(j),
         \/ job'[j].pc \in SessionPcs /\ scan'[j] = scan[j]
         \/ job'[j].pc = "list" /\ scan'[j] = [scan[j] EXCEPT !.results = offered]
  PROVE  ExactAt(j)'
<1>1. scan[j].report = {}
      BY DEF ExactAt
<1>2. scan'[j].report = {}
  <2>1. scan[j] \in ScanRec
        BY DEF ScanShape
  <2> QED
      BY <1>1, <2>1 DEF ScanRec
<1> QED
    BY <1>2 DEF ExactAt, SessionPcs

\* The lone scan lists the snapshots.
LEMMA ExactList ==
  ASSUME ScanShape, NEW j \in Jobs, job[j].pc = "list", ExactAt(j), snap' = snap, logged' = logged,
         NEW K \in SUBSET Groups,
         Only(j, "upsert", [scan[j] EXCEPT !.existing = snap, !.keys = K, !.todo = Named(scan[j].results)])
  PROVE  ExactAt(j)'
<1>1. /\ job'[j].pc = "upsert" /\ scan'[j].existing = snap /\ scan'[j].results = scan[j].results
      /\ scan'[j].todo = Named(scan[j].results) /\ scan'[j].report = {}
  <2>1. scan[j] \in ScanRec /\ scan[j].report = {}
        BY DEF ScanShape, ExactAt
  <2> QED
      BY <2>1 DEF Only, ScanRec
<1>2. Pending(j)' = Named(scan'[j].results)
      BY <1>1 DEF Pending
<1>3. \A c : ReportOf(c, {}, {}) = {}
      BY DEF ReportOf
<1>4. WritingIs(scan'[j], Pending(j)', snap, logged)
      BY <1>1, <1>2, <1>3 DEF WritingIs
<1>5. Writing(j)'
      BY <1>1, <1>4, WritingNext
<1> QED
    BY <1>1, <1>5 DEF ExactAt, SessionPcs

\* It reads a row.
LEMMA ExactRead ==
  ASSUME ScanShape, NEW j \in Jobs, job[j].pc = "upsert", ExactAt(j), snap' = snap, logged' = logged,
         NEW g \in scan[j].todo, Only(j, "write", [scan[j] EXCEPT !.todo = @ \ {g}, !.at = <<g, snap[g]>>])
  PROVE  ExactAt(j)'
<1>0. scan[j] \in ScanRec /\ Writing(j)
      BY DEF ScanShape, ExactAt
<1>1. /\ job'[j].pc = "write" /\ scan'[j].todo = scan[j].todo \ {g} /\ scan'[j].at = <<g, snap[g]>>
      /\ scan'[j].report = scan[j].report /\ Alike(scan[j], scan'[j])
      BY <1>0 DEF Only, ScanRec, Alike
<1>2. Pending(j)' = scan[j].todo /\ Pending(j) = scan[j].todo
      BY <1>1 DEF Pending
<1>3. g \in Named(scan[j].results) /\ g \in Groups /\ snap[g] = scan[j].existing[g]
  <2>1. g \in Named(scan[j].results) /\ g \in Groups
        BY <1>0 DEF Writing, Named
  <2> QED
      BY <1>0, <1>2, <2>1 DEF Writing
<1>4. Writing(j)'
  <2> DEFINE c == scan[j]
             d == scan'[j]
  <2>0. /\ Named(d.results) = Named(c.results)
        /\ \A W, R : ReportOf(d, W, R) = ReportOf(c, W, R)
        BY <1>1, AlikeReports
  <2>1. d.todo \subseteq Named(d.results)
        BY <1>0, <1>1, <2>0 DEF Writing
  <2>2. d.at[1] \in Named(d.results) \ d.todo /\ d.at[2] = d.existing[d.at[1]]
        BY <1>1, <1>3, <2>0 DEF Alike
  <2>3. \A h \in Groups \ (Named(d.results) \ Pending(j)') : snap[h] = d.existing[h]
        BY <1>0, <1>1, <1>2, <2>0 DEF Writing, Alike
  <2>4. \A h \in Named(d.results) \ Pending(j)' :
          snap[h] = d.results[h] /\ (d.existing[h] \notin {Absent, d.results[h]} => logged[h] = d.results[h])
        BY <1>0, <1>1, <1>2, <2>0 DEF Writing, Alike, LoggedWell
  <2>5. d.report = ReportOf(d, Named(d.results) \ Pending(j)', {})
    <3>1. c.report = ReportOf(c, Named(c.results) \ Pending(j), {})
          BY <1>0 DEF Writing
    <3> QED
        BY <1>1, <1>2, <2>0, <3>1
  <2>6. WritingIs(d, Pending(j)', snap, logged)
        BY <2>1, <2>3, <2>4, <2>5 DEF WritingIs
  <2> QED
      BY <2>2, <2>6, WritingNext
<1> QED
    BY <1>1, <1>4 DEF ExactAt, SessionPcs

\* It writes the row, which nobody has changed.
LEMMA ExactWrite ==
  ASSUME ScanShape, ScansSound, NEW j \in Jobs, Rating(j), ExactAt(j), UpsertWrite(j),
         Only(j, "upsert", [scan[j] EXCEPT !.at = <<>>, !.report =
                              IF scan[j].at[2] = Absent /\ snap[scan[j].at[1]] # Absent THEN @
                              ELSE @ \cup Noted(scan[j], scan[j].at[1], scan[j].at[2])])
  PROVE  ExactAt(j)'
<1> DEFINE c == scan[j]
           d == scan'[j]
           g == scan[j].at[1]
<1>0. c \in ScanRec /\ job[j].pc = "write" /\ Writing(j) /\ snap \in RatesOf /\ logged \in RatesOf
      BY DEF ScanShape, ExactAt, UpsertWrite, Is
<1>1. g \in Named(c.results) \ c.todo /\ c.at[2] = c.existing[g] /\ Pending(j) = c.todo \cup {g}
      BY <1>0 DEF Writing, Pending
<1>2. g \in Groups /\ snap[g] = c.existing[g] /\ c.todo \subseteq Named(c.results) /\ c.existing[g] \in Vals
  <2>1. g \in Groups /\ c.todo \subseteq Named(c.results)
        BY <1>0, <1>1 DEF Writing, Named
  <2>2. snap[g] = c.existing[g]
        BY <1>0, <1>1, <2>1 DEF Writing
  <2>3. c.existing[g] \in Vals
        BY <1>0, <2>1 DEF ScanRec, RatesOf, Vals
  <2> QED
      BY <2>1, <2>2, <2>3
<1>3. ~(c.at[2] = Absent /\ snap[g] # Absent)
      BY <1>1, <1>2
<1>4. /\ job'[j].pc = "upsert" /\ d.todo = c.todo /\ Alike(c, d)
      /\ d.report = c.report \cup Noted(c, g, c.existing[g])
  <2>1. Only(j, "upsert", [c EXCEPT !.at = <<>>, !.report = c.report \cup Noted(c, g, c.existing[g])])
        BY <1>0, <1>1, <1>3 DEF ScanRec
  <2> QED
      BY <1>0, <2>1 DEF Only, ScanRec, Alike
<1>5. /\ snap' = [snap EXCEPT ![g] = c.results[g]]
      /\ logged' = IF c.existing[g] \notin {Absent, c.results[g]} THEN [logged EXCEPT ![g] = c.results[g]] ELSE logged
      BY <1>1, <1>3 DEF UpsertWrite
<1>6. /\ snap'[g] = c.results[g] /\ (c.existing[g] \notin {Absent, c.results[g]} => logged'[g] = c.results[g])
      /\ \A h \in Groups : h # g => snap'[h] = snap[h] /\ logged'[h] = logged[h]
      BY <1>0, <1>2, <1>5 DEF RatesOf
<1>7. Pending(j)' = c.todo /\ Named(d.results) = Named(c.results)
      BY <1>4, AlikeReports DEF Pending
<1>8. d.report = ReportOf(d, Named(d.results) \ c.todo, {})
  <2>1. c.report = ReportOf(c, Named(c.results) \ (c.todo \cup {g}), {})
        BY <1>0, <1>1 DEF Writing
  <2>2. Noted(c, g, c.existing[g]) \subseteq Items
        BY <1>0, <1>2, NotedTyped
  <2>3. Named(c.results) \ c.todo = (Named(c.results) \ (c.todo \cup {g})) \cup {g}
        BY <1>1
  <2>4. ReportOf(c, Named(c.results) \ c.todo, {}) =
          ReportOf(c, Named(c.results) \ (c.todo \cup {g}), {}) \cup Noted(c, g, c.existing[g])
        BY <2>2, <2>3 DEF ReportOf
  <2>5. \A W, R : ReportOf(d, W, R) = ReportOf(c, W, R)
        BY <1>4, AlikeReports
  <2>6. d.report = ReportOf(c, Named(c.results) \ c.todo, {})
        BY <1>4, <2>1, <2>4
  <2> QED
      BY <1>7, <2>5, <2>6
<1>9. \A h \in Groups \ (Named(d.results) \ c.todo) : snap'[h] = d.existing[h]
  <2> SUFFICES ASSUME NEW h \in Groups, h \notin Named(c.results) \ c.todo PROVE snap'[h] = c.existing[h]
      BY <1>4, <1>7 DEF Alike
  <2>1. h # g /\ h \notin Named(c.results) \ Pending(j)
        BY <1>1
  <2> QED
      BY <1>0, <1>6, <2>1 DEF Writing
<1>10. \A h \in Named(d.results) \ c.todo :
         snap'[h] = d.results[h] /\ (d.existing[h] \notin {Absent, d.results[h]} => logged'[h] = d.results[h])
  <2> SUFFICES ASSUME NEW h \in Named(c.results) \ c.todo
               PROVE  snap'[h] = c.results[h] /\ (c.existing[h] \notin {Absent, c.results[h]} => logged'[h] = c.results[h])
      BY <1>4, <1>7 DEF Alike
  <2>1. CASE h = g
        BY <1>6, <2>1
  <2>2. CASE h # g
    <3>1. h \in Named(c.results) \ Pending(j) /\ h \in Groups
          BY <1>1, <2>2 DEF Named
    <3>2. snap[h] = c.results[h] /\ LoggedWell(c, h)
          BY <1>0, <3>1 DEF Writing
    <3> QED
        BY <1>6, <2>2, <3>1, <3>2 DEF LoggedWell
  <2> QED
      BY <2>1, <2>2
<1>11. WritingIs(d, c.todo, snap', logged')
      BY <1>2, <1>4, <1>7, <1>8, <1>9, <1>10 DEF WritingIs
<1>12. Writing(j)'
      BY <1>4, <1>7, <1>11, WritingNext
<1> QED
    BY <1>4, <1>12 DEF ExactAt, SessionPcs

RemovingIs(c, rows, log) ==
  /\ c.todo \subseteq Gone(c)
  /\ \A g \in Groups \ c.todo : rows[g] = c.results[g]
  /\ \A g \in Named(c.results) : c.existing[g] \notin {Absent, c.results[g]} => log[g] = c.results[g]
  /\ c.report = ReportOf(c, Named(c.results), Gone(c) \ c.todo)

\* A scan that is removing after a step.
LEMMA RemovingNext ==
  ASSUME NEW j \in Jobs, RemovingIs(scan'[j], snap', logged')
  PROVE  Removing(j)'
<1>1. \A c, W, R : ReportOf(c, W, R)' = ReportOf(c, W, R)
      BY DEF ReportOf, Items, Vals
<1> QED
    BY <1>1 DEF Removing, RemovingIs, LoggedWell

\* It has written all rows.
LEMMA ExactWritten ==
  ASSUME ScanShape, NEW j \in Jobs, job[j].pc = "upsert", scan[j].todo = {}, ExactAt(j), snap' = snap,
         logged' = logged, Only(j, "remove", [scan[j] EXCEPT !.todo = Gone(scan[j])])
  PROVE  ExactAt(j)'
<1> DEFINE c == scan[j]
           d == scan'[j]
<1>0. c \in ScanRec /\ Writing(j) /\ Pending(j) = {}
      BY DEF ScanShape, ExactAt, Pending
<1>1. job'[j].pc = "remove" /\ d.todo = Gone(c) /\ d.report = c.report /\ Alike(c, d)
      BY <1>0 DEF Only, ScanRec, Alike
<1>2. /\ Named(d.results) = Named(c.results) /\ Gone(d) = Gone(c)
      /\ \A W, R : ReportOf(d, W, R) = ReportOf(c, W, R)
      BY <1>1, AlikeReports
<1>3. \A g \in Groups \ Gone(c) : snap[g] = c.results[g]
  <2> TAKE g \in Groups \ Gone(c)
  <2>1. CASE g \in Named(c.results)
        BY <1>0, <2>1 DEF Writing
  <2>2. CASE g \notin Named(c.results)
    <3>1. snap[g] = c.existing[g]
          BY <1>0, <2>2 DEF Writing
    <3>2. c.results[g] = Absent /\ c.existing[g] = Absent
          BY <2>2 DEF Named, Gone
    <3> QED
        BY <3>1, <3>2
  <2> QED
      BY <2>1, <2>2
<1>4. \A g \in Named(c.results) : c.existing[g] \notin {Absent, c.results[g]} => logged[g] = c.results[g]
      BY <1>0 DEF Writing, LoggedWell
<1>5. d.report = ReportOf(d, Named(d.results), Gone(d) \ d.todo)
  <2>1. c.report = ReportOf(c, Named(c.results), {})
        BY <1>0 DEF Writing
  <2>2. Gone(d) \ d.todo = {}
        BY <1>1, <1>2
  <2> QED
      BY <1>1, <1>2, <2>1, <2>2
<1>6. RemovingIs(d, snap', logged')
      BY <1>1, <1>2, <1>3, <1>4, <1>5 DEF RemovingIs, Alike
<1> QED
    BY <1>1, <1>6, RemovingNext DEF ExactAt, SessionPcs

\* It deletes a row.
LEMMA ExactDelete ==
  ASSUME ScanShape, NEW j \in Jobs, job[j].pc = "remove", ExactAt(j), logged' = logged,
         NEW g \in scan[j].todo, snap' = [snap EXCEPT ![g] = Absent],
         Only(j, "remove", [scan[j] EXCEPT !.todo = @ \ {g}, !.report = @ \cup
                              (IF g \in scan[j].keys THEN {Removal(scan[j], g)} ELSE {})])
  PROVE  ExactAt(j)'
<1> DEFINE c == scan[j]
           d == scan'[j]
           more == IF g \in c.keys THEN {Removal(c, g)} ELSE {}
<1>0. c \in ScanRec /\ Removing(j) /\ snap \in RatesOf
      BY DEF ScanShape, ExactAt
<1>1. job'[j].pc = "remove" /\ d.todo = c.todo \ {g} /\ d.report = c.report \cup more /\ Alike(c, d)
  <2>1. Only(j, "remove", [c EXCEPT !.todo = c.todo \ {g}, !.report = c.report \cup more])
        BY <1>0 DEF ScanRec
  <2> HIDE DEF more
  <2> QED
      BY <1>0, <2>1 DEF Only, ScanRec, Alike
<1>2. /\ Named(d.results) = Named(c.results) /\ Gone(d) = Gone(c)
      /\ \A W, R : ReportOf(d, W, R) = ReportOf(c, W, R)
      BY <1>1, AlikeReports
<1>3. c.todo \subseteq Gone(c) /\ g \in Gone(c) /\ g \in Groups /\ c.results[g] = Absent
  <2>1. c.todo \subseteq Gone(c)
        BY <1>0 DEF Removing
  <2> QED
      BY <2>1 DEF Gone, Named
<1>4. snap'[g] = Absent /\ \A h \in Groups : h # g => snap'[h] = snap[h]
      BY <1>0, <1>3 DEF RatesOf
<1>5. \A h \in Groups \ d.todo : snap'[h] = d.results[h]
  <2> SUFFICES ASSUME NEW h \in Groups, h \notin c.todo \ {g} PROVE snap'[h] = c.results[h]
      BY <1>1 DEF Alike
  <2>1. CASE h = g
        BY <1>3, <1>4, <2>1
  <2>2. CASE h # g
        BY <1>0, <1>4, <2>2 DEF Removing
  <2> QED
      BY <2>1, <2>2
<1>6. \A h \in Named(d.results) : d.existing[h] \notin {Absent, d.results[h]} => logged'[h] = d.results[h]
      BY <1>0, <1>1, <1>2 DEF Removing, LoggedWell, Alike
<1>7. d.report = ReportOf(d, Named(d.results), Gone(d) \ d.todo)
  <2>1. c.report = ReportOf(c, Named(c.results), Gone(c) \ c.todo)
        BY <1>0 DEF Removing
  <2>2. Gone(c) \ (c.todo \ {g}) = (Gone(c) \ c.todo) \cup {g}
        BY <1>3
  <2>3. Removal(c, g) \in Items
        BY <1>0, <1>3, NotedTyped DEF Vals
  <2>4. ReportOf(c, Named(c.results), Gone(c) \ (c.todo \ {g})) =
          ReportOf(c, Named(c.results), Gone(c) \ c.todo) \cup more
        BY <2>2, <2>3 DEF ReportOf
  <2> HIDE DEF more
  <2>5. d.report = ReportOf(c, Named(c.results), Gone(c) \ (c.todo \ {g}))
        BY <1>1, <2>1, <2>4
  <2> QED
      BY <1>1, <1>2, <2>5
<1>8. d.todo \subseteq Gone(d)
      BY <1>1, <1>2, <1>3
<1>9. RemovingIs(d, snap', logged')
      BY <1>5, <1>6, <1>7, <1>8 DEF RemovingIs
<1> QED
    BY <1>1, <1>9, RemovingNext DEF ExactAt, SessionPcs

\* It makes its report.
LEMMA ExactReport ==
  ASSUME ScanShape, NEW j \in Jobs, job[j].pc = "remove", scan[j].todo = {}, ExactAt(j), snap' = snap,
         logged' = logged, Only(j, "tell", [scan[j] EXCEPT !.report = {}, !.outbox = Messages(scan[j].report)])
  PROVE  ExactAt(j)'
<1> DEFINE c == scan[j]
           d == scan'[j]
<1>0. c \in ScanRec /\ Removing(j) /\ snap \in RatesOf
      BY DEF ScanShape, ExactAt
<1>1. job'[j].pc = "tell" /\ d.outbox = Messages(c.report) /\ Alike(c, d)
      BY <1>0 DEF Only, ScanRec, Alike
<1>2. Named(d.results) = Named(c.results) /\ Difference(d) = Difference(c)
      BY <1>1, AlikeReports
<1>3. snap = c.results
  <2>1. \A g \in Groups : snap[g] = c.results[g]
        BY <1>0 DEF Removing
  <2> QED
      BY <1>0, <2>1 DEF ScanRec, RatesOf
<1>4. c.report = Difference(c)
  <2>1. c.report = ReportOf(c, Named(c.results), Gone(c) \ c.todo) /\ Gone(c) \ c.todo = Gone(c)
        BY <1>0 DEF Removing
  <2> QED
      BY <1>0, <2>1, ReportIsDifference
<1>5. \A g \in Named(d.results) : d.existing[g] \notin {Absent, d.results[g]} => logged[g] = d.results[g]
      BY <1>0, <1>1, <1>2 DEF Removing, LoggedWell, Alike
<1>6. d.outbox = Messages(Difference(d)) /\ snap = d.results
      BY <1>1, <1>2, <1>3, <1>4 DEF Alike
<1>7. Telling(j)'
      BY <1>5, <1>6 DEF Telling, LoggedWell
<1> QED
    BY <1>1, <1>7 DEF ExactAt, SessionPcs

\* Each step of a lone scan keeps it exact.
LEMMA ExactOwn ==
  ASSUME SessionShape, ModesFit, ScanShape, ScansSound, NEW j \in Jobs, ScanStep(j), Rating(j), ExactAt(j),
         job'[j].pc # "idle"
  PROVE  ExactAt(j)'
<1>1. CASE Prepare(j)
  <2>1. job[j].pc \in SessionPcs /\ job'[j].pc \in SessionPcs /\ scan'[j] = scan[j]
        BY <1>1, PrepareForm DEF Ends, Only, InSession
  <2> QED
      BY <2>1, ExactStart
<1>2. CASE GetRates(j)
  <2>1. job[j].pc \in SessionPcs /\ job'[j].pc = "list" /\ scan'[j] = [scan[j] EXCEPT !.results = offered]
        BY <1>2, RatesForms DEF GetRates, Is, Ends, Only, SessionPcs
  <2> QED
      BY <2>1, ExactStart
<1>3. CASE ListByChannel(j)
      BY <1>3, RatesForms, ExactList DEF ListByChannel, Is
<1>4. CASE UpsertRead(j)
      BY <1>4, RatesForms, ExactRead DEF UpsertRead, Is
<1>5. CASE UpsertWrite(j)
      BY <1>5, RatesForms, ExactWrite
<1>6. CASE Written(j)
      BY <1>6, RatesForms, ExactWritten DEF Written, Is
<1>7. CASE DeleteSnapshot(j)
  <2>1. job[j].pc = "remove" /\ logged' = logged
        BY <1>7 DEF DeleteSnapshot, Is
  <2> QED
      BY <1>7, <2>1, RatesForms, ExactDelete
<1>8. CASE Report(j)
      BY <1>8, RatesForms, ExactReport DEF Report, Is
<1>9. CASE SendRates(j)
      BY <1>9, RatesForms DEF Only, ExactAt, SessionPcs
<1>10. CASE Send(j)
  <2>1. job'[j].pc \in {"tell news", "tell low"}
        BY <1>10, MailForms DEF Send, Only
  <2> QED
      BY <2>1 DEF ExactAt, SessionPcs
<1>11. CASE Sent(j) \/ GetAnnouncements(j) \/ SyncAnnouncement(j) \/ Announce(j)
           \/ GetBalance(j) \/ ClaimExpired(j) \/ InsertClaim(j) \/ ClaimFails(j)
  <2>1. job'[j].pc \in {"post", "tell news", "tell low", "claim", "insert"}
        BY <1>11, MailForms DEF Only, Ends
  <2> QED
      BY <2>1 DEF ExactAt, SessionPcs
<1> QED
    BY <1>1, <1>2, <1>3, <1>4, <1>5, <1>6, <1>7, <1>8, <1>9, <1>10, <1>11 DEF ScanStep

\* Every step keeps lone scans exact.
LEMMA ExactStep ==
  ASSUME SessionShape, ModesFit, ScanShape, ScansSound, LoneIsAlone, LoneIsExact, [Next]_vars
  PROVE  LoneIsExact'
<1>0. plan' = plan
      BY BudgetStep
<1>1. ASSUME NEW k \in Jobs, Lone(k), job'[k].pc = job[k].pc, scan'[k] = scan[k], snap' = snap, logged' = logged
      PROVE  ExactAt(k)'
      BY <1>1, ExactOthers DEF LoneIsExact
<1>2. ASSUME NEW j \in Jobs, Start(j), NEW k \in Jobs, Lone(k)' PROVE ExactAt(k)'
  <2>1. CASE k = j
    <3>1. scan'[j].report = {}
      <4>1. PICK b \in BOOLEAN : b = ~Overlaps(j)
            OBVIOUS
      <4>2. scan'[j] = [NoScan EXCEPT !.alone = b]
            BY <1>2, <4>1, StartForm
      <4> QED
          BY <4>2 DEF NoScan
    <3>2. job'[j].pc \in {"auth", "login"}
          BY <1>2, StartForm
    <3> QED
        BY <2>1, <3>1, <3>2 DEF ExactAt
  <2>2. CASE k # j
    <3>1. job'[k] = job[k] /\ Marked(k)
          BY <1>2, <2>2, StartForm DEF Others
    <3>2. scan'[k] = scan[k]
          BY <1>2, <3>1 DEF Marked, Lone, ScanShape, ScanRec
    <3>3. Lone(k) /\ snap' = snap /\ logged' = logged
          BY <1>0, <1>2, <3>1, <3>2 DEF Lone, Rating, Start
    <3> QED
        BY <1>1, <3>1, <3>2, <3>3
  <2> QED
      BY <2>1, <2>2
<1>3. ASSUME NEW j \in Jobs, ScanStep(j), NEW k \in Jobs, Lone(k)' PROVE ExactAt(k)'
  <2>1. CASE k = j
    <3>1. job'[j].pc # "idle" /\ Lone(j)
          BY <1>0, <1>3, <2>1, StepKeeps DEF Lone, Rating
    <3>2. ExactAt(j) /\ Rating(j)
          BY <3>1 DEF LoneIsExact, Lone
    <3> QED
        BY <1>3, <2>1, <3>1, <3>2, ExactOwn
  <2>2. CASE k # j
    <3>1. job'[k] = job[k] /\ scan'[k] = scan[k]
          BY <1>3, <2>2, StepKeeps DEF Besides, Others
    <3>2. Lone(k)
          BY <1>0, <1>3, <3>1 DEF Lone, Rating
    <3>3. ~Rating(j)
          BY <2>2, <3>2 DEF LoneIsAlone
    <3>4. snap' = snap /\ logged' = logged
          BY <1>3, <3>3, StepKeeps
    <3> QED
        BY <1>1, <3>1, <3>2, <3>4
  <2> QED
      BY <2>1, <2>2
<1>4. ASSUME Operate, NEW k \in Jobs, Lone(k)' PROVE ExactAt(k)'
  <2>1. job' = job /\ job[k].pc # "idle" /\ scan'[k].alone
        BY <1>4, OperateForm DEF Lone, Rating
  <2>2. UNCHANGED <<snap, logged, scan>>
        BY <1>4, <2>1, OperateForm
  <2>3. Lone(k)
        BY <1>0, <1>4, <2>1, <2>2 DEF Lone, Rating
  <2> QED
      BY <1>1, <2>1, <2>2, <2>3
<1>5. ASSUME World, NEW k \in Jobs, Lone(k)' PROVE ExactAt(k)'
  <2>1. job' = job /\ scan' = scan
        BY <1>5, WorldForm
  <2>2. snap' = snap /\ logged' = logged
        BY <1>5 DEF World, WindowEnds, Reoffer, Publish, Retain, scanVars, vars
  <2>3. Lone(k)
        BY <1>0, <1>5, <2>1 DEF Lone, Rating
  <2> QED
      BY <1>1, <2>1, <2>2, <2>3
<1> QED
    BY <1>2, <1>3, <1>4, <1>5, ScanNext DEF LoneIsExact

-----------------------------------------------------------------------------
(* The theorems about scans. *)

\* The scans are sound initially.
LEMMA ScanInitial == Init => SessionInv /\ ScanInv
<1> SUFFICES ASSUME Init PROVE SessionInv /\ ScanInv
    OBVIOUS
<1>0. SessionInv
      BY SessionInitial
<1>1. plan \in Scenarios
      BY <1>0 DEF SessionInv, SessionShape
<1>2. \A j \in Jobs : job[j].pc = "idle"
      BY DEF Init, SessionInit, Idle
<1>3. ScanShape
  <2>1. offered \in RatesOf /\ snap \in RatesOf /\ logged \in RatesOf /\ posts \subseteq Notices
        BY <1>1, ScenariosSound DEF Init
  <2>2. listed = {} /\ cooldown = "none" /\ window \in 1..Windows
        BY ScanAssumption DEF Init
  <2>3. told \in [Subscribers -> [Alerts -> Nat]] /\ scan \in [Jobs -> ScanRec]
        BY NoScanTyped DEF Init
  <2> QED
      BY <2>1, <2>2, <2>3 DEF ScanShape
<1>4. ScansSound
      BY <1>2 DEF ScansSound, SoundAt
<1>5. MailInv
  <2>1. \A j \in Jobs : \A s, a : ~Brings(j, s, a)
        BY <1>2 DEF Brings
  <2>2. \A s \in Subscribers : \A a \in Alerts : told[s][a] = 0
        BY DEF Init
  <2>3. CarriedOnce
    <3> SUFFICES ASSUME NEW s \in Subscribers, NEW a \in Alerts PROVE told[s][a] <= 1
        BY <2>1 DEF CarriedOnce
    <3>1. told[s][a] = 0
          BY <2>2
    <3> QED
        BY <3>1
  <2> QED
      BY <2>1, <2>2, <2>3 DEF MailInv, UnclaimedIsUntold
<1>6. LoneIsAlone /\ LoneIsExact
      BY <1>2 DEF LoneIsAlone, LoneIsExact, Lone, Rating
<1> QED
    BY <1>0, <1>3, <1>4, <1>5, <1>6 DEF ScanInv

\* Sessions, messages and scans are as SessionInv and ScanInv say.
THEOREM ScanInvariant == Spec => []IInv
<1>1. Init => IInv
      BY ScanInitial DEF IInv
<1>2. IInv /\ [Next]_vars => IInv'
  <2> SUFFICES ASSUME SessionInv, ScanInv, [Next]_vars PROVE SessionInv' /\ ScanInv'
      BY DEF IInv
  <2>1. SessionInv'
        BY SessionInvStep
  <2>2. SessionShape /\ ModesFit /\ ScanShape /\ ScansSound /\ MailInv /\ LoneIsAlone /\ LoneIsExact
        BY DEF SessionInv, ScanInv
  <2>3. ScanInv'
        BY <2>2, ScanShapeStep, SoundStep, MailStep, AloneStep, ExactStep DEF ScanInv
  <2> QED
      BY <2>1, <2>3
<1> QED
    BY <1>1, <1>2, PTL DEF Spec

\* However the scans overlap, nobody is told twice of one window's low balance, or
\* of an announcement as long as its row is kept, and a scan of the rates that was
\* alone reports what it found, no more and no less (TryClaimCooldown, Sync,
\* RefreshRates).
THEOREM NobodyIsToldTwice == Spec => []ToldOnce
<1>1. IInv => ToldOnce
  <2> SUFFICES ASSUME IInv PROVE ToldOnce
      OBVIOUS
  <2>1. \A s \in Subscribers, a \in Alerts : told[s][a] <= 1
        BY DEF IInv, ScanInv, MailInv, CarriedOnce
  <2>2. ASSUME NEW j \in Jobs, Is(j, "rates", "tell"), scan[j].alone
        PROVE  /\ snap = scan[j].results
               /\ \A g \in Named(snap) : scan[j].existing[g] \notin {Absent, snap[g]} => logged[g] = snap[g]
               /\ scan[j].outbox = Messages(Difference(scan[j]))
    <3>1. Lone(j) /\ job[j].pc = "tell"
          BY <2>2 DEF Lone, Rating, Is
    <3>2. Telling(j)
          BY <3>1 DEF IInv, ScanInv, LoneIsExact, ExactAt
    <3> QED
        BY <3>2 DEF Telling, LoggedWell
  <2> QED
      BY <2>1, <2>2 DEF ToldOnce, LoneScanIsExact
<1> QED
    BY <1>1, ScanInvariant, PTL

\* The variables keep their shape.
THEOREM TypeCorrect == Spec => []TypeOK
<1>1. IInv => TypeOK
  <2> SUFFICES ASSUME SessionShape, ScanShape PROVE TypeOK
      BY DEF IInv, SessionInv, ScanInv
  <2>1. issued \in Nat /\ \A t \in Held : t.n \in 0..issued
    <3>1. issued \in Nat \ {0}
          BY DEF SessionShape
    <3>2. \A t \in Real : t.n \in 1..issued
          BY DEF Real
    <3>3. NoToken.n = 0
          BY DEF NoToken
    <3> QED
        BY <3>1, <3>2, <3>3 DEF Held
  <2>2. row.live \in BOOLEAN /\ row.mode \in Modes /\ row.acct \in Accounts /\ row.tok \in Held
        BY DEF SessionShape, Rows
  <2>3. session \in Held /\ \A j \in Jobs : job[j].tok \in Held
        BY DEF SessionShape, JobRec
  <2>4. session.n \in 0..issued /\ row.tok.n \in 0..issued /\ \A j \in Jobs : job[j].tok.n \in 0..issued
        BY <2>1, <2>2, <2>3
  <2>5. SessionTypeOK
        BY <2>2, <2>4 DEF SessionTypeOK, SessionShape, Real
  <2> QED
      BY <2>5 DEF TypeOK, ScanShape
<1> QED
    BY <1>1, ScanInvariant, PTL

=============================================================================
