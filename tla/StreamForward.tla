---------------------------- MODULE StreamForward ----------------------------
(***************************************************************************)
(* forwardStreamIncrementalWithRecovery (backend/gateway/runtime_stream.go)*)
(* and the retry around it: one goroutine selects over the upstream's SSE  *)
(* events, the client's context, the first token timer, the idle ticker    *)
(* and the upstream deadline, converts each event and writes it on.        *)
(*                                                                         *)
(* Until a frame has reached the client the attempt may fail and another   *)
(* one start; from then on (committed) the client has half an answer and   *)
(* every ending is the stream's own.                                       *)
(*                                                                         *)
(* The upstream is external: it speaks its protocol correctly (Script) and *)
(* may fail, stop or fall silent anywhere.  The client is external too: it *)
(* is modelled by what a reader of its protocol accepts and puts together. *)
(* Virtual cache reads and zero usage rules are left out, and keepalive    *)
(* comments carry nothing a reader sees.                                   *)
(***************************************************************************)
EXTENDS StreamConverters

CONSTANTS
    Routes,        \* pairs of upstream and client protocol, "AC", "RA", ...
    Answers,       \* the answers an upstream may give: sequences of items
    MaxAttempts,   \* bound on the attempts of a request
    WholeOutput,   \* a Responses upstream behind a Chat client repeats the
                   \* answer in its last event (known to be doubled)
    NamesCalls,    \* argument events of a Responses upstream name their call
    ZeroDeltas,    \* message_delta may repeat a known count as zero
    CutsResponses  \* a Responses upstream may end after content, unfinished

ASSUME StreamAssumption ==
    /\ Routes \subseteq {"AC", "CA", "RA", "RC", "AR", "CR", "AA", "CC", "RR"}
    /\ MaxAttempts \in Nat \ {0}
    /\ {WholeOutput, NamesCalls, ZeroDeltas, CutsResponses} \subseteq BOOLEAN

VARIABLES
    route,     \* the request's route
    plan,      \* what the upstream of the running attempt will say
    pos,       \* how many of its events the loop has taken
    loop,      \* locals and result of the running attempt
    client,    \* what the client has read
    canceled,  \* the client's context has ended
    broken,    \* writes to the client fail
    attempt,   \* number of the running attempt
    outcome    \* how HandleForward books the request

vars == <<route, plan, pos, loop, client, canceled, broken, attempt, outcome>>

Up   == CASE route \in {"AC", "AR", "AA"} -> "A"
          [] route \in {"CA", "CR", "CC"} -> "C"
          [] route \in {"RA", "RC", "RR"} -> "R"
Down == CASE route \in {"CA", "RA", "AA"} -> "A"
          [] route \in {"AC", "RC", "CC"} -> "C"
          [] route \in {"AR", "CR", "RR"} -> "R"
Passthrough == route \in {"AA", "CC", "RR"}

(***************************************************************************)
(* The upstream: the events of a whole answer in each protocol.  Unit      *)
(* <<a, j, n>> is the n-th fragment of item j of attempt a.                *)
(***************************************************************************)
Units(a, answer, j) == [n \in 1..answer[j].len |-> <<a, j, n>>]

AnswerItems(a, answer) == [j \in DOMAIN answer |-> [k |-> answer[j].k, u |-> Units(a, answer, j)]]

Each(u, F(_)) == [n \in DOMAIN u |-> F(<<u[n]>>)]

\* The place of item j among the tool calls of a Chat answer.
ToolIndex(items, j) == Cardinality({h \in 1..(j - 1) : items[h].k = "tool"})

ScriptA(p, items) ==
    LET Item(j) == LET it == items[j]
                       D(u) == With("bdelta", j - 1, it.k, u)
                   IN  <<Of("bstart", j - 1, it.k)>> \o Each(it.u, D) \o <<At("bstop", j - 1)>>
    IN  <<[Ev("start") EXCEPT !.n = p.n0]>>
        \o FlattenSeq([j \in DOMAIN items |-> Item(j)])
        \o <<[Ev("mdelta") EXCEPT !.r = p.why, !.n = p.n1], Ev("stop")>>

ScriptC(p, items) ==
    LET Item(j) == LET it == items[j]
                       D(u) == CASE it.k = "text"  -> With("text", 0, "text", u)
                                 [] it.k = "think" -> With("reasoning", 0, "think", u)
                                 [] it.k = "tool"  -> With("args", ToolIndex(items, j), "tool", u)
                   IN  (IF it.k = "tool" THEN <<At("call", ToolIndex(items, j))>> ELSE <<>>)
                       \o Each(it.u, D)
    IN  <<Ev("role")>> \o FlattenSeq([j \in DOMAIN items |-> Item(j)])
        \o <<[Ev("finish") EXCEPT !.r = p.why], [Ev("usage") EXCEPT !.n = p.n0], Ev("done")>>

\* Three ways of a Responses upstream: fragments, tool calls only when done,
\* the whole answer only at the end.
ScriptR(p, items) ==
    LET Item(j) == LET it == items[j]
                       Call(e) == [e EXCEPT !.c = j]
                       Args(e) == IF NamesCalls \/ route # "RC" THEN Call(e) ELSE e
                       D(u) == Args(With("delta", j - 1, it.k, u))
                   IN  IF p.style = "done" /\ it.k = "tool"
                       THEN <<Call(With("idone", j - 1, it.k, it.u))>>
                       ELSE <<Call(Of("added", j - 1, it.k))>> \o Each(it.u, D)
                            \o <<Args(With("kdone", j - 1, it.k, it.u)),
                                 Call(With("idone", j - 1, it.k, it.u))>>
        whole == p.style = "final" \/ route # "RC" \/ WholeOutput
    IN  <<Ev("created")>>
        \o (IF p.style = "final" THEN <<>> ELSE FlattenSeq([j \in DOMAIN items |-> Item(j)]))
        \o <<[Ev("completed") EXCEPT !.r = IF p.why = "length" THEN "length" ELSE "stop",
                                     !.n = p.n0, !.o = IF whole THEN items ELSE <<>>]>>

Items == AnswerItems(attempt, plan.answer)

Script == CASE Up = "A" -> ScriptA(plan, Items)
            [] Up = "C" -> ScriptC(plan, Items)
            [] Up = "R" -> ScriptR(plan, Items)

\* Counts: n0 in the first (or only) usage, n1 in an Anthropic message_delta.
Plans(up) ==
    [answer : Answers, why : {"stop", "length"},
     style : IF up = "R" THEN {"delta", "done", "final"} ELSE {"delta"},
     n0 : IF up = "A" THEN {"none", "zero", "counted"} ELSE {"none", "counted"},
     n1 : IF up = "A" THEN {"none", "zero", "counted"} ELSE {"none"}]

LegalPlans(up) ==
    {p \in Plans(up) : ~ZeroDeltas => ~(p.n0 = "counted" /\ p.n1 = "zero")}

NoPlan == [answer |-> <<>>, why |-> "stop", style |-> "delta", n0 |-> "none", n1 |-> "none"]

Terminal == {"stop", "done", "completed"}

(***************************************************************************)
(* The converter of the route.                                             *)
(***************************************************************************)
NewConv(r) == CASE r = "AC" -> NewAC [] r = "CA" -> NewCA [] r = "RA" -> NewRA
                [] r = "RC" -> NewRC [] r = "AR" -> NewAR [] r = "CR" -> NewCR
                [] OTHER -> [out |-> <<>>]

FeedConv(s, e) == CASE route = "AC" -> FeedAC(s, e) [] route = "CA" -> FeedCA(s, e)
                    [] route = "RA" -> FeedRA(s, e) [] route = "RC" -> FeedRC(s, e)
                    [] route = "AR" -> FeedAR(s, e) [] route = "CR" -> FeedCR(s, e)
                    [] OTHER -> Put(s, e)

CloseConv(s) == CASE route = "AC" -> CloseAC(s) [] route = "CA" -> CloseCA(s)
                  [] route = "RA" -> CloseRA(s) [] route = "RC" -> CloseRC(s)
                  [] route = "AR" -> CloseAR(s) [] route = "CR" -> CloseCR(s)
                  [] OTHER -> s

(***************************************************************************)
(* The loop.  Its steps are functions on the record of its locals; the     *)
(* field sent collects the frames a step writes to the client.             *)
(***************************************************************************)
NewLoop(r) ==
    [conv |-> NewConv(r), hold |-> <<>>, deferred |-> <<>>, tokens |-> "none",
     saw |-> FALSE, due |-> FALSE, recovered |-> FALSE, sent |-> <<>>,
     committed |-> FALSE, gone |-> FALSE, complete |-> FALSE,
     err |-> FALSE, streamErr |-> "", billed |-> "none"]

IsTerminalFrame(f) == f.t \in {"stop", "done", "completed", "error", "failed"}

\* writeFrames: the client's context is looked at again before each write.
WriteFrames(x, frames) ==
    CASE frames = <<>> -> x
      [] frames # <<>> /\ canceled ->
           [x EXCEPT !.gone = TRUE, !.err = @ \/ ~x.committed]
      [] frames # <<>> /\ ~canceled /\ x.gone -> x
      [] frames # <<>> /\ ~canceled /\ ~x.gone /\ broken ->
           [x EXCEPT !.gone = TRUE, !.err = TRUE]
      [] OTHER ->
           [x EXCEPT !.sent = @ \o frames, !.committed = TRUE,
                     !.complete = @ \/ \E j \in DOMAIN frames : IsTerminalFrame(frames[j])]

Merge(x, e) == IF e.n = "counted" THEN [x EXCEPT !.tokens = "counted"] ELSE x

\* recoverAnthropicInput: count_tokens is asked once and may fail.
Recover(x, found) ==
    IF Up # "A" \/ x.tokens = "counted" \/ x.recovered THEN x
    ELSE [x EXCEPT !.recovered = TRUE, !.tokens = IF found THEN "counted" ELSE @]

ApplyConv(x) ==
    IF x.tokens # "counted" THEN x
    ELSE CASE route = "AC" -> [x EXCEPT !.conv = SetInputAC(@)]
           [] route = "AR" -> [x EXCEPT !.conv = SetInputAR(@)]
           [] OTHER -> x

ApplyEvent(x, e) ==
    IF x.tokens = "counted" /\ e.n = "zero" THEN [e EXCEPT !.n = "counted"] ELSE e

\* Responses events that carry content count as the first token; for the
\* other protocols every event does.
Visible(e) ==
    Up # "R" \/ \/ e.t \in {"delta", "kdone", "idone"} /\ e.u # <<>>
                \/ e.t = "completed" /\ \E j \in DOMAIN e.o : e.o[j].u # <<>>

\* The part of processEvent behind the deferral of usage: what the converter
\* made of the event (c) is held back while it is only structure, or written.
Emitted(x, e, counts, c) ==
    LET y    == [x EXCEPT !.conv = Taken(c)]
        both == y.hold \o c.out
    IN  CASE c.out = <<>> -> y
          [] c.out # <<>> /\ Up = "R" /\ ~counts /\ e.t \notin Terminal -> [y EXCEPT !.hold = both]
          [] OTHER -> WriteFrames([y EXCEPT !.hold = <<>>], both)

Emit(x, e, counts) == Emitted(x, e, counts, FeedConv(x.conv, e))

Replayed(x) ==
    LET a == ApplyConv(x)
    IN  IF x.deferred = <<>> THEN x
        ELSE FoldLeft(LAMBDA y, e : IF y.err THEN y ELSE Emit(y, ApplyEvent(y, e), FALSE),
                      [a EXCEPT !.deferred = <<>>], x.deferred)

\* mutant: what was held back is sent before the count is recovered
FlushDeferred_RecoversLate(x, found) ==
    IF x.deferred = <<>> THEN x ELSE Recover(Replayed(x), found)

FlushDeferred(x, found) == IF x.deferred = <<>> THEN x ELSE Replayed(Recover(x, found))

\* The last event, after what was deferred (f).
ProcessLast(f, e, counts, found) ==
    LET g == IF route = "AR" THEN Recover(f, found) ELSE f
    IN  IF f.err THEN f ELSE Emit(ApplyConv(g), ApplyEvent(g, e), counts)

ProcessEvent(x, e, counts, found) ==
    IF Up = "A" /\ e.t = "mdelta" /\ x.tokens # "counted" /\ e.n # "none"
    THEN [Merge(x, e) EXCEPT !.deferred = Append(@, e)]
    ELSE IF e.t \notin Terminal THEN Emit(Merge(x, e), e, counts)
    ELSE ProcessLast(FlushDeferred(Merge(x, e), found), e, counts, found)

\* mutant: an attempt that fails after the commit just stops
SendTerminalError_Silent(x) == x

SendTerminalError(x) ==
    IF x.gone \/ ~x.committed THEN x
    ELSE IF broken THEN [x EXCEPT !.gone = TRUE]
    ELSE [x EXCEPT !.complete = TRUE,
                   !.sent = Append(@, Ev(IF Down = "R" THEN "failed" ELSE "error"))]

CloseConverters(x) ==
    LET c == CloseConv(x.conv) IN WriteFrames([x EXCEPT !.conv = Taken(c)], c.out)

FinalizeTokens(x) == [x EXCEPT !.billed = x.tokens]

\* finalizeStreamClientDisconnect: a client that had the last frame left in
\* good order, one that had not is recorded as a disconnect.
FinalizeDisconnect(x) ==
    IF ~x.gone THEN x
    ELSE IF x.complete THEN [x EXCEPT !.gone = FALSE]
    ELSE [x EXCEPT !.streamErr = IF @ = "" THEN "client" ELSE @]

FinishTerminal(x) ==
    LET c == IF x.complete THEN x ELSE CloseConverters(x)
    IN  IF c.err THEN c ELSE FinalizeDisconnect(FinalizeTokens(c))

(***************************************************************************)
(* The client: what its protocol lets it accept, and what it reads.        *)
(***************************************************************************)
TextKey == 100
ThinkKey == 101
NewClient == [phase |-> "new", items |-> <<>>, n |-> "none", why |-> "", ok |-> TRUE]

OpenItems(c) == {i \in DOMAIN c.items : c.items[i].open}
ToolKeys(c) == {i \in DOMAIN c.items : c.items[i].k = "tool"}
Accumulated(c) == {[k |-> c.items[i].k, u |-> c.items[i].u] : i \in DOMAIN c.items}
OpenAs(c, f) == f.i \in OpenItems(c) /\ c.items[f.i].k = f.k

Accepts(c, f) ==
    IF c.phase \in {"end", "err"} THEN FALSE
    ELSE CASE f.t \in {"start", "role", "created"} -> c.phase = "new"
           [] f.t = "bstart" -> c.phase = "open" /\ f.i = Cardinality(DOMAIN c.items)
           [] f.t = "bdelta" -> c.phase = "open" /\ OpenAs(c, f)
           [] f.t = "bstop"  -> c.phase = "open" /\ f.i \in OpenItems(c)
           [] f.t = "mdelta" -> c.phase = "open" /\ OpenItems(c) = {}
           [] f.t = "stop"   -> c.phase = "last"
           [] f.t \in {"text", "reasoning"} -> c.phase = "open"
           [] f.t = "call"   -> c.phase = "open" /\ f.i = Cardinality(ToolKeys(c))
           [] f.t = "args"   -> c.phase = "open" /\ f.i \in ToolKeys(c)
           [] f.t = "finish" -> c.phase = "open"
           [] f.t = "usage"  -> c.phase = "last"
           [] f.t = "done"   -> TRUE
           [] f.t = "added"  -> c.phase = "open" /\ f.i \notin DOMAIN c.items
           [] f.t = "delta"  -> c.phase = "open" /\ OpenAs(c, f)
           [] f.t \in {"kdone", "idone"} ->
                /\ c.phase = "open"
                /\ f.i \in DOMAIN c.items => OpenAs(c, f) /\ c.items[f.i].u = f.u
           [] f.t = "completed" ->
                /\ c.phase = "open" /\ OpenItems(c) = {}
                /\ (f.o # <<>> /\ c.items # <<>>) => ToSet(f.o) = Accumulated(c)
           [] f.t \in {"error", "failed"} -> TRUE

Item(f, open) == [k |-> f.k, u |-> f.u, open |-> open]
Grown(c, i, f) ==
    IF i \in DOMAIN c.items THEN [c EXCEPT !.items[i].u = @ \o f.u]
    ELSE [c EXCEPT !.items = (i :> Item(f, FALSE)) @@ @]

Phase(c, p) == [c EXCEPT !.phase = p]
Told(c, f) == IF f.n = "none" THEN c ELSE [c EXCEPT !.n = f.n]

Taking(c, f) ==
    CASE f.t \in {"start", "role", "created"} -> Phase(Told(c, f), "open")
      [] f.t \in {"bstart", "added"} -> [c EXCEPT !.items = (f.i :> Item(f, TRUE)) @@ @]
      [] f.t \in {"bdelta", "delta", "args"} -> Grown(c, f.i, f)
      [] f.t = "bstop" -> [c EXCEPT !.items[f.i].open = FALSE]
      [] f.t = "call"  -> Grown(c, f.i, [f EXCEPT !.k = "tool"])
      [] f.t = "text"  -> Grown(c, TextKey, f)
      [] f.t = "reasoning" -> Grown(c, ThinkKey, f)
      [] f.t \in {"mdelta", "finish"} -> Phase([Told(c, f) EXCEPT !.why = f.r], "last")
      [] f.t = "usage" -> Told(c, f)
      [] f.t = "kdone" -> c
      [] f.t = "idone" -> [c EXCEPT !.items = (f.i :> Item(f, FALSE)) @@ @]
      [] f.t \in {"stop", "done"} -> Phase(c, "end")
      [] f.t = "completed" ->
           Phase(Told(IF c.items # <<>> THEN [c EXCEPT !.why = f.r]
                      ELSE [c EXCEPT !.why = f.r, !.items = [i \in 0..(Len(f.o) - 1) |->
                                                  Item(With("", i, f.o[i + 1].k, f.o[i + 1].u), FALSE)]],
                      f), "end")
      [] OTHER -> Phase(c, "err")

Read(c, f) == IF Accepts(c, f) THEN Taking(c, f) ELSE [c EXCEPT !.ok = FALSE]

(***************************************************************************)
(* Actions.                                                                *)
(***************************************************************************)
Init ==
    /\ route \in Routes
    /\ plan \in LegalPlans(Up)
    /\ pos = 0
    /\ loop = NewLoop(route)
    /\ client = NewClient
    /\ canceled = FALSE /\ broken = FALSE
    /\ attempt = 1
    /\ outcome = "running"

\* One pass of the loop: what it wrote reaches the client, and the next pass
\* looks at the client's context first.
Write(x) ==
    /\ loop' = [x EXCEPT !.sent = <<>>, !.due = canceled /\ ~x.gone]
    /\ client' = FoldLeft(Read, client, x.sent)

Pass(x) == Write(x) /\ UNCHANGED <<plan, outcome>>

\* The loop returns and HandleForward books the attempt: committed, the
\* answer stands as it is; not committed, an error leads to another attempt,
\* but never for a client that has left.  Nothing is kept of a lost attempt.
Return(x) ==
    IF x.err /\ ~x.committed /\ ~x.gone /\ attempt < MaxAttempts
    THEN /\ outcome' = "retry"
         /\ loop' = NewLoop(route) /\ plan' = NoPlan /\ UNCHANGED client
    ELSE /\ Write(x) /\ UNCHANGED plan
         /\ outcome' = CASE x.committed /\ x.gone /\ x.streamErr \in {"", "client"} -> "client"
                         [] x.committed /\ ~x.gone /\ x.streamErr = "" -> "ok"
                         [] ~x.committed /\ x.gone -> "client"
                         [] ~x.committed /\ ~x.gone /\ ~x.err -> "ok"
                         [] OTHER -> "failed"

Running == outcome = "running"
Selecting == Running /\ ~loop.due

\* What follows an event that left the loop with x.
Processed(e, x) ==
    IF x.err THEN Return(x)
    ELSE IF e.t \in Terminal THEN Return(FinishTerminal(x))
    ELSE Pass(x)

\* case ev := <-events: the next event of the upstream's script.
UpstreamEvent ==
    /\ Selecting /\ pos < Len(Script)
    /\ pos' = pos + 1
    /\ \E found \in BOOLEAN :
         LET e == Script[pos + 1]
         IN  Processed(e, ProcessEvent([loop EXCEPT !.saw = @ \/ Visible(e)], e, Visible(e), found))
    /\ UNCHANGED <<route, canceled, broken, attempt>>

\* An event that reports a failure: the converters stay open, since closing
\* them would make up a completion.
UpstreamFailure ==
    /\ Selecting /\ pos < Len(Script)
    /\ LET x == FinalizeTokens([loop EXCEPT !.err = TRUE])
       IN  Return(IF x.committed THEN SendTerminalError([x EXCEPT !.streamErr = "upstream"]) ELSE x)
    /\ UNCHANGED <<route, pos, canceled, broken, attempt>>

\* The body ends without a last event.
UpstreamEnds ==
    /\ Selecting /\ pos < Len(Script)
    /\ ~CutsResponses => (Up = "R" => ~loop.saw)
    /\ \E found \in BOOLEAN :
         IF Up = "R" /\ ~loop.saw THEN Return([loop EXCEPT !.err = TRUE])
         ELSE LET f == FlushDeferred(loop, found)
                  g == IF route = "AR" THEN ApplyConv(Recover(f, found)) ELSE f
                  h == IF Passthrough
                       THEN IF g.committed THEN g ELSE WriteFrames(g, <<Ev("done")>>)
                       ELSE CloseConverters(g)
              IN  Return(IF f.err THEN f ELSE IF h.err THEN h
                         ELSE FinalizeDisconnect(FinalizeTokens(h)))
    /\ UNCHANGED <<route, pos, canceled, broken, attempt>>

\* An ending with an error of the gateway's own: committed, the client is
\* told; a client that has left gets its disconnect recorded where finalize.
EndWith(finalize) ==
    LET x == FinalizeTokens(loop)
    IN  IF ~loop.committed THEN Return([loop EXCEPT !.err = TRUE])
        ELSE IF loop.gone /\ finalize THEN Return(FinalizeDisconnect(x))
        ELSE Return([SendTerminalError(x) EXCEPT !.streamErr = "gateway"])

ReadError ==
    /\ Selecting /\ EndWith(TRUE)
    /\ UNCHANGED <<route, pos, canceled, broken, attempt>>

UpstreamDeadline ==
    /\ Selecting /\ EndWith(TRUE)
    /\ UNCHANGED <<route, pos, canceled, broken, attempt>>

IdleTimeout ==
    /\ Selecting /\ loop.saw /\ EndWith(FALSE)
    /\ UNCHANGED <<route, pos, canceled, broken, attempt>>

FirstTokenTimeout ==
    /\ Selecting /\ ~loop.saw /\ ~loop.committed
    /\ Return([loop EXCEPT !.err = TRUE])
    /\ UNCHANGED <<route, pos, canceled, broken, attempt>>

\* Before the commit the upstream is given up; after it the loop reads on for
\* the usage and writes nothing more.
ObserveCancel ==
    /\ Running /\ canceled /\ ~loop.gone
    /\ IF loop.committed
       THEN Pass([loop EXCEPT !.gone = TRUE])
       ELSE Return([loop EXCEPT !.gone = TRUE, !.err = TRUE])
    /\ UNCHANGED <<route, pos, canceled, broken, attempt>>

\* A keepalive frame fails on a broken connection.
Keepalive ==
    /\ Selecting /\ loop.committed /\ ~loop.gone /\ broken
    /\ Pass([loop EXCEPT !.gone = TRUE])
    /\ UNCHANGED <<route, pos, canceled, broken, attempt>>

Retry ==
    /\ outcome = "retry"
    /\ attempt' = attempt + 1
    /\ plan' \in LegalPlans(Up)
    /\ pos' = 0
    /\ loop' = [NewLoop(route) EXCEPT !.due = canceled]
    /\ outcome' = "running"
    /\ UNCHANGED <<route, client, canceled, broken>>

ClientLeaves ==
    /\ outcome \in {"running", "retry"} /\ ~canceled
    /\ canceled' = TRUE
    /\ UNCHANGED <<route, plan, pos, loop, client, broken, attempt, outcome>>

LinkBreaks ==
    /\ Running /\ ~broken
    /\ broken' = TRUE
    /\ UNCHANGED <<route, plan, pos, loop, client, canceled, attempt, outcome>>

Done == outcome \in {"ok", "failed", "client"} /\ UNCHANGED vars

Next ==
    \/ UpstreamEvent \/ UpstreamFailure \/ UpstreamEnds
    \/ ReadError \/ UpstreamDeadline \/ IdleTimeout \/ FirstTokenTimeout
    \/ ObserveCancel \/ Keepalive \/ Retry
    \/ ClientLeaves \/ LinkBreaks \/ Done

Spec == Init /\ [][Next]_vars

(***************************************************************************)
(* Properties.                                                             *)
(***************************************************************************)
Finished == outcome \in {"ok", "failed", "client"}

TypeOK ==
    /\ route \in Routes /\ plan \in LegalPlans(Up)
    /\ pos \in Nat /\ (outcome # "retry" => pos <= Len(Script))
    /\ attempt \in 1..MaxAttempts
    /\ outcome \in {"running", "retry", "ok", "failed", "client"}
    /\ client.phase \in {"new", "open", "last", "end", "err"}
    /\ loop.tokens \in {"none", "counted"} /\ loop.billed \in {"none", loop.tokens}

\* The content of a kind, in the order of its places.
ContentOf(c, k) ==
    FlattenSeq([j \in 1..Cardinality({i \in DOMAIN c.items : c.items[i].k = k}) |->
                  c.items[SetToSortSeq({i \in DOMAIN c.items : c.items[i].k = k}, <)[j]].u])
ToolsOf(c) == [j \in 1..Cardinality(ToolKeys(c)) |-> c.items[SetToSortSeq(ToolKeys(c), <)[j]].u]
AnswerOf(k) == FlattenSeq([j \in DOMAIN Items |-> IF Items[j].k = k THEN Items[j].u ELSE <<>>])
AnswerTools ==
    LET tools == SelectSeq(Items, LAMBDA it : it.k = "tool") IN [j \in DOMAIN tools |-> tools[j].u]

\* Chat carries no reasoning back from a Responses upstream except as the
\* text of an answer that has nothing else; from Chat, Anthropic gets none.
Carried == CASE route = "CA" -> [text |-> AnswerOf("text"), think |-> <<>>]
             [] route = "RC" -> [text |-> IF AnswerOf("text") # <<>> THEN AnswerOf("text")
                                          ELSE IF \/ plan.style = "final"
                                                  \/ WholeOutput /\ AnswerTools = <<>>
                                               THEN AnswerOf("think") ELSE <<>>,
                                 think |-> <<>>]
             [] OTHER -> [text |-> AnswerOf("text"), think |-> AnswerOf("think")]

\* What a client of any protocol reads is a well-formed stream of it: blocks,
\* items and calls are opened before they grow, their done events repeat
\* exactly what was streamed, nothing follows the last frame.  From it the
\* client puts together a prefix of what one attempt said, and all of it, once,
\* when that answer came to its end: no fragment is lost, repeated, put into
\* another call or left over from an attempt given up - across every converter,
\* failure and retry (Feed and Close of the converters, the retained prefix,
\* the commit rule of writeFrames, sendTerminalError).
AnswerOnce ==
    /\ client.ok
    /\ IsPrefix(ContentOf(client, "text"), Carried.text)
    /\ IsPrefix(ContentOf(client, "think"), Carried.think)
    /\ Len(ToolsOf(client)) <= Len(AnswerTools)
    /\ \A j \in DOMAIN ToolsOf(client) : IsPrefix(ToolsOf(client)[j], AnswerTools[j])
    /\ client.phase = "end" /\ pos = Len(Script) =>
          /\ ContentOf(client, "text") = Carried.text
          /\ ContentOf(client, "think") = Carried.think
          /\ ToolsOf(client) = AnswerTools

\* A client that stays is told how its stream ended, and told the truth: a
\* failure after the commit ends in an error frame and never in a completion
\* a converter made up, a booked success has its last frame, a client that
\* went before that frame is booked as gone, and an answer cut short is told
\* as cut short unless it ends in calls (sendTerminalError, finishTerminal,
\* finalizeStreamClientDisconnect, the converters' stop reasons).
EndingIsTrue ==
    /\ outcome = "failed" /\ loop.committed /\ ~loop.gone => client.phase = "err"
    /\ outcome = "ok" /\ pos = Len(Script) => client.phase = "end"
    /\ client.phase = "err" => outcome = "failed"
    /\ outcome = "client" => client.phase # "end"
    /\ client.phase = "end" /\ pos = Len(Script) =>
          (client.why = "length" <=> plan.why = "length" /\ (AnswerTools # <<>> => client.why = "length"))

\* The count the client is told is the count that is billed, also when the
\* provider left it out and the gateway had to recover it late, and also for
\* a client that left and whose answer was only read on for its usage - as
\* long as it was its context that ended: a write that fails first ends the
\* loop without a count (deferred message_delta, applyRecoveredInput,
\* finalizeStreamTokens).
UsageSettled ==
    /\ (outcome = "ok" /\ Up = "A" /\ pos = Len(Script) /\ plan.n1 # "none") =>
          (client.n = "counted" <=> loop.billed = "counted")
    /\ outcome = "client" /\ loop.committed /\ ~broken => loop.billed = loop.tokens

==============================================================================
