--------------------------- MODULE ChannelSession ---------------------------
(***************************************************************************)
(* How a job of the channel service gets hold of an upstream session       *)
(* (backend/channel/service.go): EnsureSession and the login, refresh and  *)
(* save it may need, beside the operator who edits, clears or deletes the  *)
(* channel.  One channel; what a job does with its session is left to the  *)
(* modules that extend this one.                                           *)
(*                                                                         *)
(* A token stands for the access and refresh token of one answer of the    *)
(* upstream panel.  A refresh gives a new one and spends the old.          *)
(* last_error, proxies, captchas and the fields nobody here reads are left *)
(* out.                                                                    *)
(***************************************************************************)
EXTENDS Integers, FiniteSets

CONSTANTS
    Jobs,
    Accounts,   \* upstream accounts; the channel starts with one of them
    First,      \* that one
    Scenarios   \* bounds, chosen together: the channel's credential mode, whether
                \* a session is saved, what each job is, what else may happen and
                \* how often

ASSUME SessionAssumption == First \in Accounts /\ IsFiniteSet(Jobs)

VARIABLES
    row,        \* the channel's row
    session,    \* its row in auth_sessions (password mode)
    issued,     \* how many tokens the upstream has handed out
    valid,      \* external: those it accepts, and not about to end
    spendable,  \* external: those it would still refresh
    job,        \* the calls in progress
    op,         \* the operator's, who does one thing at a time
    plan,       \* the scenario: never changes
    budget,     \* how often something may still expire, fail or be asked for
    lost,       \* the newest token of the row's chain was lost on its way
    late        \* the saved session was put back by a call an edit overtook

sessionVars == <<row, session, issued, valid, spendable, job, op, plan, budget, lost, late>>
tokens == <<issued, valid, spendable>>
rest == <<plan, budget>>

NoToken == [acct |-> "", n |-> 0]
Modes == {"password", "token"}
Idle == [pc |-> "idle", row |-> <<>>, tok |-> NoToken]
OpIdle == [pc |-> "idle", kind |-> "", copy |-> <<>>]

SessionInit ==
    /\ \E s \in Scenarios : plan = s /\ budget = s.budget
    /\ issued = 1
    /\ valid = {[acct |-> First, n |-> 1]}
    /\ spendable = valid
    /\ \E m \in plan.modes, saved \in plan.saved :
         /\ row = [live |-> TRUE, mode |-> m, acct |-> First,
                   tok |-> IF m = "token" THEN [acct |-> First, n |-> 1] ELSE NoToken]
         /\ saved => m = "password"
         /\ session = IF saved THEN [acct |-> First, n |-> 1] ELSE NoToken
    /\ job = [j \in Jobs |-> Idle]
    /\ op = OpIdle
    /\ lost = FALSE /\ late = FALSE

Happens(event) == event \in plan.events /\ budget > 0 /\ budget' = budget - 1 /\ UNCHANGED plan
Fault == Happens("fault")

Goto(j, pc) == job' = [job EXCEPT ![j].pc = pc]
Leave(j) == job' = [job EXCEPT ![j] = Idle]
Holding(j, pc, t) == job' = [job EXCEPT ![j].pc = pc, ![j].tok = t]

New(a) == [acct |-> a, n |-> issued + 1]
Issue(t, spent) ==
    /\ issued' = issued + 1
    /\ valid' = valid \cup {t}
    /\ spendable' = (spendable \ spent) \cup {t}

\* mutant: a new credential leaves the session of the old one.
DropsSession_KeepsOnEdit(kind) == kind \in {"clear", "delete"}

\* What the operator does to the saved session before the row is written.
DropsSession(kind) == kind \in {"credential", "clear", "delete"}

-----------------------------------------------------------------------------
\* A job takes its copy of the row: from the list a scan works through, or by
\* FindByID.  Scans come again and again, calls and tests of the login (which do
\* not look for a saved session) when somebody asks.
Begin(j) ==
    /\ job[j].pc = "idle" /\ row.live
    /\ IF plan.kind[j] \in {"call", "test"} THEN Happens("call") ELSE UNCHANGED rest
    /\ job' = [job EXCEPT ![j] =
                 [pc |-> IF plan.kind[j] = "test" /\ row.mode = "password" THEN "login" ELSE "auth",
                  row |-> row, tok |-> NoToken]]
    /\ UNCHANGED <<row, session, op, lost, late, tokens>>

\* The pasted token of a channel in token mode, or the session saved for one in
\* password mode, is asked about; one that is refused or near its end is refreshed.
HeldToken(j) == IF job[j].row.mode = "token" THEN job[j].row.tok ELSE session

EnsureSession(j) ==
    /\ job[j].pc = "auth"
    /\ LET t == HeldToken(j) IN
       \/ t = NoToken /\ IF job[j].row.mode = "token" THEN Leave(j) ELSE Goto(j, "login")
       \/ t \in valid /\ Holding(j, "ready", t)
       \/ t \notin valid \cup {NoToken} /\ Holding(j, "refresh", t)
    /\ UNCHANGED <<row, session, op, lost, late, tokens, rest>>

CheckFails(j) ==
    /\ job[j].pc = "auth" /\ HeldToken(j) # NoToken
    /\ Fault /\ Holding(j, "refresh", HeldToken(j))
    /\ UNCHANGED <<row, session, op, lost, late, tokens>>

\* A channel in password mode falls back on its password.
Refused(j) == IF job[j].row.mode = "token" THEN Leave(j) ELSE Holding(j, "login", NoToken)

refreshSession(j) ==
    /\ job[j].pc = "refresh"
    /\ LET old == job[j].tok  t == New(old.acct) IN
       \/ /\ old \in spendable
          /\ Issue(t, {old})
          /\ Holding(j, IF job[j].row.mode = "token" THEN "recheck" ELSE "persist", t)
       \/ /\ old \notin spendable
          /\ Refused(j) /\ UNCHANGED tokens
    /\ UNCHANGED <<row, session, op, lost, late, rest>>

\* The request, or its answer, is lost: the upstream may have spent the token.
RefreshLost(j) ==
    /\ job[j].pc = "refresh" /\ Fault /\ Refused(j)
    /\ \/ UNCHANGED <<tokens, lost>>
       \/ /\ job[j].tok \in spendable
          /\ Issue(New(job[j].tok.acct), {job[j].tok})
          /\ lost' = (lost \/ job[j].row.mode = "token")
    /\ UNCHANGED <<row, session, op, late>>

\* Only in token mode, and before it is saved: a failure forgets the new token.
CheckRefreshed(j) ==
    /\ job[j].pc = "recheck"
    /\ \/ job[j].tok \in valid /\ Goto(j, "persist") /\ UNCHANGED <<lost, rest>>
       \/ job[j].tok \notin valid /\ Leave(j) /\ lost' = TRUE /\ UNCHANGED rest
       \/ Fault /\ Leave(j) /\ lost' = TRUE
    /\ UNCHANGED <<row, session, op, late, tokens>>

\* mutant: the row is saved as it was read, without the new token.
Persisted_AsRead(j) == job[j].row

\* persistTokenCredential saves the whole row the job was given at its start,
\* and would insert it again; persistSession writes the session alone.
Persisted(j) == [job[j].row EXCEPT !.tok = job[j].tok, !.acct = job[j].tok.acct]

Persist(j) ==
    /\ job[j].pc = "persist"
    /\ IF job[j].row.mode = "token"
       THEN /\ row' = Persisted(j) /\ UNCHANGED session
            /\ late' = (late \/ row.mode # "token")
       ELSE /\ session' = job[j].tok /\ UNCHANGED row
            /\ late' = \/ job[j].row.acct # row.acct \/ job[j].row.mode # row.mode
                       \/ job[j].tok.acct # job[j].row.acct
                       \/ op.pc = "save" /\ DropsSession(op.kind)
    /\ job' = [job EXCEPT ![j].pc = "ready", ![j].row =
                 IF @.mode = "token" THEN Persisted(j) ELSE @]
    /\ UNCHANGED <<op, lost, tokens, rest>>

\* With the username and password of the copy, and one check of the answer; a
\* failure forgets whatever session was saved.
login(j) ==
    /\ job[j].pc = "login"
    /\ \/ LET t == New(job[j].row.acct) IN
          Issue(t, {}) /\ Holding(j, "persist", t) /\ UNCHANGED <<session, late, rest>>
       \/ Fault /\ session' = NoToken /\ late' = FALSE /\ Leave(j) /\ UNCHANGED tokens
    /\ UNCHANGED <<row, op, lost>>

\* What a call does with its session is not modelled.
CallDone(j) ==
    /\ job[j].pc = "ready" /\ plan.kind[j] \in {"call", "test"} /\ Leave(j)
    /\ UNCHANGED <<row, session, op, lost, late, tokens, rest>>

-----------------------------------------------------------------------------
(***************************************************************************)
(* The operator: Update with a new credential, with another user name only *)
(* or with other fields, ClearLoginInfo, Delete.  Each reads the row, some *)
(* drop the session, and all but the last save the whole row they read.    *)
(***************************************************************************)
Operations == {"credential", "username", "fields", "clear", "delete"}

Ask(kind) ==
    /\ op.pc = "idle" /\ row.live /\ Happens(kind)
    /\ op' = [pc |-> IF DropsSession(kind) THEN "drop" ELSE "save", kind |-> kind, copy |-> row]
    /\ UNCHANGED <<row, session, job, lost, late, tokens>>

Drop ==
    /\ op.pc = "drop"
    /\ session' = NoToken /\ late' = FALSE
    /\ op' = [op EXCEPT !.pc = "save"]
    /\ UNCHANGED <<row, job, lost, tokens, rest>>

\* The credential's mode changes with it; a pasted token is fresh.
SaveCredential ==
    /\ \E m \in Modes, a \in Accounts :
         /\ row' = [live |-> TRUE, mode |-> m, acct |-> a, tok |-> IF m = "token" THEN New(a) ELSE NoToken]
         /\ IF m = "token" THEN Issue(New(a), {}) ELSE UNCHANGED tokens
    /\ lost' = FALSE
    /\ UNCHANGED session

SaveFields ==
    /\ row' = op.copy
    /\ lost' = (lost \/ op.copy.tok # row.tok)
    /\ UNCHANGED <<session, tokens>>

\* Nothing is dropped when only the user name is new.
SaveUsername ==
    /\ \E a \in Accounts : row' = IF op.copy.mode = "token" THEN op.copy ELSE [op.copy EXCEPT !.acct = a]
    /\ lost' = (lost \/ op.copy.tok # row.tok)
    /\ UNCHANGED <<session, tokens>>

SaveCleared ==
    /\ row' = IF op.copy.mode = "token" THEN [op.copy EXCEPT !.tok = NoToken] ELSE row
    /\ UNCHANGED <<session, lost, tokens>>

DeleteChannel ==
    /\ row' = [row EXCEPT !.live = FALSE] /\ session' = NoToken
    /\ UNCHANGED <<lost, tokens>>

Save ==
    /\ op.pc = "save" /\ op' = OpIdle
    /\ CASE op.kind = "credential" -> SaveCredential
         [] op.kind = "fields" -> SaveFields
         [] op.kind = "username" -> SaveUsername
         [] op.kind = "clear" -> SaveCleared
         [] OTHER -> DeleteChannel
    /\ late' = (session' # NoToken /\ (late \/ op.kind = "username"))
    /\ UNCHANGED <<job, rest>>

\* A token comes near its end, or is refused from now on.
Expire ==
    /\ \E t \in valid : valid' = valid \ {t}
    /\ Happens("expire")
    /\ UNCHANGED <<row, session, issued, spendable, job, op, lost, late>>

SessionStep(j) ==
    \/ EnsureSession(j) \/ refreshSession(j) \/ CheckRefreshed(j)
    \/ Persist(j) \/ login(j) \/ CallDone(j)

-----------------------------------------------------------------------------
\* The refresh token of a channel in token mode exists once, and a refresh makes
\* a new one (persistTokenCredential): whatever jobs overlap, the one that still
\* works is in the row or in the hands of a job about to save it there.  It gets
\* lost with an answer, with a failed check of the new token, or under an edit
\* that saves the row it read before.
CredentialKept ==
    (row.live /\ row.mode = "token" /\ row.tok # NoToken /\ ~lost) =>
      \/ row.tok \in spendable
      \/ \E j \in Jobs : job[j].pc \in {"recheck", "persist"} /\ job[j].tok \in spendable

\* No session outlives the credential it was opened with (the Delete in Update
\* and in ClearLoginInfo), except where a login or a refresh begun before that
\* edit was over saves its session, or its copy of the row, behind it, and where
\* only the user name was changed.
SessionBelongs ==
    (row.live /\ session # NoToken /\ ~late) => row.mode = "password" /\ session.acct = row.acct

SessionTypeOK ==
    /\ row.live \in BOOLEAN /\ row.mode \in Modes /\ row.acct \in Accounts
    /\ valid \subseteq [acct : Accounts, n : 1..issued]
    /\ spendable \subseteq [acct : Accounts, n : 1..issued]
    /\ session.n \in 0..issued /\ row.tok.n \in 0..issued
    /\ \A j \in Jobs : job[j].tok.n \in 0..issued
    /\ budget \in Nat /\ lost \in BOOLEAN /\ late \in BOOLEAN
=============================================================================
