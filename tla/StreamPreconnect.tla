--------------------------- MODULE StreamPreconnect ---------------------------
(***************************************************************************)
(* The stream that is opened before any upstream has answered:             *)
(* backend/gateway/stream_preconnect.go and its adapters _responses.go,    *)
(* _chat.go and _request.go.  A timer writes the first bytes to the client *)
(* while the handler still tries upstreams; what the handler writes        *)
(* afterwards must continue what the timer has begun.  The writer's mutex  *)
(* makes each action atomic.                                               *)
(*                                                                         *)
(* The client's stream is a sequence of events [k, at, items]: kind, output *)
(* index, the item or items carried.  An item is [id, text]; the one the   *)
(* gateway invents is Synthetic.  SSE comments carry nothing and are left  *)
(* out; a frame is written whole (an event is converted in one piece), so  *)
(* the adapter's buffer of a half frame is always empty here.              *)
(***************************************************************************)
EXTENDS Integers, Sequences, FiniteSets, SequencesExt

CONSTANTS
    Modes,          \* of {"comments", "responses", "multihop", "chat"}
    MaxItems,       \* bound: output items of an upstream's answer
    RewritesInPlace \* may an upstream's last snapshot change an item under its id

VARIABLES
    mode,       \* what beginStreamPreconnect chose for the request
    writer,     \* streamPreconnectWriter
    adapter,    \* preconnectResponsesStream, or the chat stream's rewrote
    upstream,   \* what the chosen upstream has sent
    handler,    \* where handleForward stands
    timer,      \* start's goroutine: "waiting" or "done"
    peer,       \* the client's end of the connection
    live,       \* the request's context is not canceled
    booked,     \* the result the handler records: "none", "ok", "error", "client"
    client,     \* the events the client has received
    replay      \* <<input>>: the client's next request as the upstream gets it

preconnectVars ==
    <<mode, writer, adapter, upstream, handler, timer, peer, live, booked, client, replay>>

\* A reasoning item whose id only the gateway makes.
Synthetic == [id |-> "synthetic", text |-> ""]
Frame(kind, at, items) == [k |-> kind, at |-> at, items |-> items]
UsesResponses == mode \in {"responses", "multihop"}

NewWriter ==
    [head |-> "none", preconnected |-> FALSE, committed |-> FALSE, stopped |-> FALSE,
     failed |-> FALSE, protocol |-> FALSE]
NewAdapter ==
    [items |-> <<>>, closed |-> FALSE, terminal |-> FALSE, degraded |-> FALSE,
     saw |-> FALSE, rewrote |-> FALSE, multihop |-> mode = "multihop"]
NewUpstream == [created |-> FALSE, open |-> <<>>, deltas |-> 0, done |-> <<>>, over |-> FALSE]

PreconnectInit ==
    /\ mode \in Modes
    /\ writer = NewWriter /\ adapter = NewAdapter /\ upstream = NewUpstream
    /\ handler = "trying" /\ timer = "waiting" /\ peer = "here" /\ live = TRUE
    /\ booked = "none" /\ client = <<>> /\ replay = <<>>

-----------------------------------------------------------------------------
(* The Responses adapter: what it makes of one event.  A result is the     *)
(* adapter, the frames emitted and whether the event is an error.          *)

Result(a, frames, err) == [adapter |-> a, frames |-> frames, err |-> err]

\* The prefix: a response, and an item that stays open until real output.
Preamble == <<Frame("begun", 0, <<>>), Frame("added", 0, <<Synthetic>>)>>

\* closeReasoning: once; in multihop mode its summary is closed with it.
Closing(a) == IF a.closed THEN <<>> ELSE <<Frame("done", 0, <<Synthetic>>)>>

\* observeItem: items are kept by index; a repeated or renamed one degrades
\* the stream and never ends it.
Observe(a, e) ==
    LET n == e.at + 1
        known == n <= Len(a.items)
        item == Head(e.items)
        seen == IF known THEN a.items ELSE Append(a.items, [id |-> "", done |-> <<>>])
    IN CASE e.k = "delta" -> [a EXCEPT !.saw = TRUE, !.items = seen]
         [] e.k = "added" -> [a EXCEPT !.saw = TRUE, !.degraded = @ \/ known,
                                       !.items = [seen EXCEPT ![n].id = item.id]]
         [] OTHER -> [a EXCEPT !.saw = TRUE, !.degraded = @ \/ seen[n].done # <<>>,
                               !.items = [seen EXCEPT ![n].id = item.id,
                                                      ![n].done = IF @ = <<>> THEN <<item>> ELSE @]]

\* preconnectResponsesSameItemExceptID
SameItemExceptID(s, t) == s.text = t.text

\* Mutant: an item that the last snapshot has under a new id is taken from it.
ReconcileOne_Snapshot(acc, n) == acc

\* An item whose id is not the streamed one, or any once the stream is
\* degraded, is replaced by what was streamed of it.
ReconcileOne(acc, n) ==
    LET state == acc.adapter.items[n] IN
    IF state.id # "" /\ state.done # <<>> /\ (acc.output[n].id # state.id \/ acc.adapter.degraded)
    THEN [acc EXCEPT !.output[n] = Head(state.done),
                     !.adapter.degraded = @ \/ ~SameItemExceptID(Head(state.done), acc.output[n])]
    ELSE acc

\* prependReasoning's loop runs over a map: in any order.
Reconciled(a, output, order) ==
    FoldLeft(ReconcileOne, [adapter |-> a, output |-> output], order)

\* prependReasoning for a response that succeeded.
Completed(a, e, order) ==
    LET missing == \E i \in DOMAIN a.items : a.items[i].done = <<>>
        all == Reconciled(a, e.output, order)
    IN CASE ~e.snapshot /\ missing -> Result(a, <<>>, TRUE)
         [] ~e.snapshot /\ ~missing ->
                IF a.items = <<>> /\ ~e.usage THEN Result(a, <<>>, TRUE)
                ELSE Result(a, <<Frame("completed", 0, <<Synthetic>> \o
                                  [i \in DOMAIN a.items |-> Head(a.items[i].done)])>>, FALSE)
         [] e.snapshot /\ (Len(a.items) > Len(e.output) \/ (e.output = <<>> /\ ~a.saw /\ ~e.usage)) ->
                Result(a, <<>>, TRUE)
         [] OTHER -> Result(all.adapter, <<Frame("completed", 0, <<Synthetic>> \o all.output)>>, FALSE)

\* A failure closes the item in multihop mode only: downstream of an empty one
\* a first event that fails can still be retried.
Failed(a) ==
    Result([a EXCEPT !.closed = @ \/ a.multihop, !.terminal = TRUE],
           (IF a.multihop THEN Closing(a) ELSE <<>>)
               \o <<Frame("failed", 0, IF a.closed THEN <<>> ELSE <<Synthetic>>)>>, FALSE)

\* A frame after the item it displaces.
Shifted(a, r) ==
    Result([r.adapter EXCEPT !.closed = TRUE], Closing(a) \o r.frames, FALSE)

\* event: the upstream's own lifecycle is not passed on, output moves up by
\* one, whatever cannot be fitted into the stream begun is an error.
Event(a, e, order) ==
    CASE a.terminal \/ e.k = "created" -> Result(a, <<>>, FALSE)
      [] e.k = "bad" -> Result(a, <<>>, TRUE)
      [] e.k = "failed" -> Failed(a)
      [] e.k = "completed" ->
            LET r == Completed(a, e, order) IN
            IF r.err THEN r ELSE Shifted(a, [r EXCEPT !.adapter.terminal = TRUE])
      [] OTHER -> Shifted(a, Result(Observe(a, e), <<Frame(e.k, e.at + 1, e.items)>>, FALSE))

-----------------------------------------------------------------------------
(* The writer                                                              *)

\* A write to the client: it arrives; or the peer is gone and the socket does
\* not know yet, or does, and the request is canceled.
Sends(frames, w, ctx) ==
    \/ peer = "here" /\ client' = client \o frames /\ writer' = w /\ live' = ctx
    \/ peer = "gone" /\ UNCHANGED client /\ writer' = w /\ live' = ctx
    \/ /\ peer = "gone" /\ UNCHANGED client /\ live' = FALSE
       /\ writer' = [w EXCEPT !.failed = TRUE, !.stopped = TRUE, !.committed = writer.committed]

Stopped(w) == [w EXCEPT !.stopped = TRUE]
Headed(w) == [Stopped(w) EXCEPT !.head = IF @ = "none" THEN "sse" ELSE @]
Committing(w, frames) == [w EXCEPT !.committed = @ \/ frames # <<>>]

\* failResponsesLocked: the client gets a failure unless it has its terminal;
\* the request is canceled, and nothing is written after it.
FailResponses(a) ==
    LET frames == IF a.terminal THEN <<>> ELSE Failed(a).frames IN
    /\ adapter' = IF a.terminal THEN a ELSE Failed(a).adapter
    /\ Sends(frames, [Committing(Headed(writer), frames) EXCEPT !.failed = TRUE, !.protocol = TRUE], FALSE)

\* keepalive: the first one opens the stream, in the mode's way.  A goroutine
\* that is told to stop ends; one whose timer has fired as well looks first.
Keepalive ==
    /\ timer = "waiting"
    /\ IF writer.stopped \/ ~live \/ writer.committed \/ writer.failed
       THEN timer' = "done" /\ UNCHANGED <<writer, live, client>>
       ELSE /\ UNCHANGED timer
            /\ LET opening == CASE writer.preconnected \/ mode = "comments" -> <<>>
                                [] UsesResponses -> Preamble
                                [] OTHER -> <<Frame("chunk", 0, <<Synthetic>>)>>
               IN Sends(opening, [writer EXCEPT !.preconnected = TRUE,
                                    !.head = IF @ = "none" THEN "sse" ELSE @], live)
    /\ UNCHANGED <<mode, adapter, upstream, handler, peer, booked, replay>>

\* The first real chunk takes the invented id, when it is written alone.
RewriteFirst(e) ==
    IF mode = "chat" /\ writer.preconnected /\ ~adapter.rewrote /\ e.k = "chunk" /\ Len(e.items) = 1
    THEN Frame("chunk", 0, <<[Head(e.items) EXCEPT !.id = "synthetic"]>>) ELSE Frame(e.k, e.at, e.items)

Ends(e) == e.k \in {"completed", "failed"}
Verdict(e) == CASE e.k = "completed" -> "ok" [] e.k = "failed" -> "error" [] OTHER -> booked

\* Write of one event.  To the forwarder a write that fails is a client that
\* has gone.
WriteEvent(e) ==
    IF writer.failed THEN
        /\ handler' = "finalize" /\ booked' = "client"
        /\ UNCHANGED <<writer, adapter, live, client>>
    ELSE IF UsesResponses /\ writer.preconnected THEN
        \E order \in SetToSeqs(DOMAIN adapter.items) :
        \E r \in {Event(adapter, e, order)} :
            /\ IF r.err THEN FailResponses(adapter)
               ELSE adapter' = r.adapter /\ Sends(r.frames, Committing(Headed(writer), r.frames), live)
            /\ handler' = IF r.err \/ Ends(e) THEN "finalize" ELSE "streaming"
            /\ booked' = IF r.err THEN "client" ELSE Verdict(e)
    ELSE
        /\ Sends(<<RewriteFirst(e)>>, [Headed(writer) EXCEPT !.committed = TRUE], live)
        /\ adapter' = [adapter EXCEPT !.rewrote = @ \/ RewriteFirst(e) # Frame(e.k, e.at, e.items)]
        /\ handler' = IF Ends(e) THEN "finalize" ELSE "streaming"
        /\ booked' = Verdict(e)

-----------------------------------------------------------------------------
(* The upstream that was chosen                                            *)

Ev(kind, at, items) ==
    [k |-> kind, at |-> at, items |-> items, snapshot |-> FALSE, output |-> <<>>, usage |-> FALSE]

Sent(e, u) ==
    /\ handler = "streaming" /\ ~upstream.over
    /\ WriteEvent(e)
    /\ upstream' = u
    /\ UNCHANGED <<mode, timer, peer, replay>>

\* A response of items, one at a time; an item may have another id at its end,
\* and its end may be missing.
SendCreated ==
    /\ ~upstream.created /\ UsesResponses
    /\ Sent(Ev("created", 0, <<>>), [upstream EXCEPT !.created = TRUE])
SendAdded ==
    /\ UsesResponses /\ upstream.open = <<>> /\ Len(upstream.done) < MaxItems
    /\ LET item == [id |-> "a", text |-> "t"] IN
       Sent(Ev("added", Len(upstream.done), <<item>>), [upstream EXCEPT !.created = TRUE, !.open = <<item>>, !.deltas = 0])
SendDelta ==
    /\ UsesResponses /\ upstream.open # <<>> /\ upstream.deltas = 0
    /\ Sent(Ev("delta", Len(upstream.done), upstream.open), [upstream EXCEPT !.deltas = 1])
SendDone ==
    /\ UsesResponses /\ upstream.open # <<>>
    /\ \E id \in {"a", "b"} :
         LET item == [Head(upstream.open) EXCEPT !.id = id] IN
         Sent(Ev("done", Len(upstream.done), <<item>>),
              [upstream EXCEPT !.open = <<>>, !.done = Append(@, item)])

\* What the last snapshot may make of an item that was begun: the same, under
\* another id, rewritten under another id.
Snapshots(item) ==
    {item, [item EXCEPT !.id = "c"], [id |-> "c", text |-> "u"]}
        \cup (IF RewritesInPlace THEN {[item EXCEPT !.text = "u"]} ELSE {})
Outputs(items) ==
    {o \in [DOMAIN items -> UNION {Snapshots(i) : i \in ToSet(items)}] :
        \A n \in DOMAIN items : o[n] \in Snapshots(items[n])}

\* The end of the answer, with or without the items once more.
SendCompleted ==
    /\ UsesResponses /\ upstream.created
    /\ \E usage \in BOOLEAN, snapshot \in BOOLEAN :
       \E o \in IF snapshot THEN Outputs(upstream.done \o upstream.open) \cup {<<>>} ELSE {<<>>} :
         Sent([Ev("completed", 0, <<>>) EXCEPT !.usage = usage, !.snapshot = snapshot, !.output = o],
              [upstream EXCEPT !.over = TRUE])

\* Something that does not fit the protocol; chat chunks, one or two a Write.
SendBad == UsesResponses /\ Sent(Ev("bad", 0, <<>>), [upstream EXCEPT !.over = TRUE])
SendChunk ==
    /\ mode = "chat" /\ Len(upstream.done) < MaxItems
    /\ \E n \in {1, 2} :
         LET chunks == [i \in 1..n |-> [id |-> "a", text |-> "t"]] IN
         Sent(Ev("chunk", 0, chunks), [upstream EXCEPT !.done = @ \o chunks])
SendPlain ==
    /\ mode = "comments" /\ upstream.done = <<>>
    /\ Sent(Ev("chunk", 0, <<[id |-> "a", text |-> "t"]>>), [upstream EXCEPT !.done = <<[id |-> "a", text |-> "t"]>>])

\* The upstream breaks off with an error: told to a client that has output,
\* otherwise a reason to try another.
SendFailed ==
    /\ handler = "streaming" /\ ~upstream.over
    /\ IF writer.committed THEN WriteEvent(Ev("failed", 0, <<>>))
       ELSE booked' = "error" /\ handler' = "finalize" /\ UNCHANGED <<writer, adapter, live, client>>
    /\ UNCHANGED <<mode, upstream, timer, peer, replay>>

\* It just ends: an error only when nothing was sent.
EndOfFile ==
    /\ handler = "streaming"
    /\ booked' = IF upstream.open = <<>> /\ upstream.done = <<>> THEN "error" ELSE "ok"
    /\ handler' = "finalize"
    /\ UNCHANGED <<mode, writer, adapter, upstream, timer, peer, live, client, replay>>

-----------------------------------------------------------------------------
(* The handler                                                             *)

Choose ==
    /\ handler = "trying" /\ live
    /\ handler' = "streaming" /\ upstream' = NewUpstream /\ booked' = "none"
    /\ UNCHANGED <<mode, writer, adapter, timer, peer, live, client, replay>>
GiveUp ==
    /\ handler = "trying"
    /\ handler' = "giveup" /\ booked' = "error"
    /\ UNCHANGED <<mode, writer, adapter, upstream, timer, peer, live, client, replay>>

\* Mutant: a stream that ends without its terminal is booked as it came.
Finalize_Trusting ==
    /\ handler = "finalize"
    /\ booked' = IF writer.protocol THEN "error" ELSE booked
    /\ handler' = IF booked' = "error" /\ ~writer.committed THEN "trying" ELSE "finish"
    /\ UNCHANGED <<mode, writer, adapter, upstream, timer, peer, live, client, replay>>

\* finalizeStreamPreconnect, before the result is recorded: a stream that was
\* begun here must have come to its end, and a failure of the adapter is no
\* client's going.
Finalize ==
    /\ handler = "finalize"
    /\ LET unended == /\ UsesResponses /\ writer.preconnected /\ writer.committed /\ booked = "ok"
                      /\ ~writer.protocol /\ ~adapter.terminal /\ ~writer.failed /\ live
       IN /\ IF unended THEN FailResponses(adapter) ELSE UNCHANGED <<writer, adapter, live, client>>
          /\ booked' = IF unended \/ writer.protocol THEN "error" ELSE booked
    /\ handler' = IF booked' = "error" /\ ~writer.committed THEN "trying" ELSE "finish"
    /\ UNCHANGED <<mode, upstream, timer, peer, replay>>

\* writeFinalError: the timer is stopped and JSON or an event chosen under one
\* lock.
FinalError ==
    /\ handler = "giveup"
    /\ handler' = "finish"
    /\ CASE writer.failed -> writer' = Stopped(writer) /\ UNCHANGED <<adapter, live, client>>
         [] ~writer.failed /\ ~writer.preconnected ->
                /\ UNCHANGED adapter
                /\ Sends(<<Frame("json", 0, <<>>)>>,
                         [Stopped(writer) EXCEPT !.head = "json", !.committed = TRUE], live)
         [] ~writer.failed /\ writer.preconnected /\ UsesResponses ->
                \E r \in {Event(adapter, Ev("failed", 0, <<>>), <<>>)} :
                    /\ adapter' = r.adapter
                    /\ Sends(r.frames, Committing(Stopped(writer), r.frames), live)
         [] OTHER -> UNCHANGED adapter /\ Sends(<<Frame("failed", 0, <<>>)>>, Committing(Stopped(writer), <<1>>), live)
    /\ UNCHANGED <<mode, upstream, timer, peer, booked, replay>>

\* finish, up to its wait for the timer's goroutine.
Finish ==
    /\ handler = "finish"
    /\ writer' = Stopped(writer)
    /\ handler' = "closing"
    /\ UNCHANGED <<mode, adapter, upstream, timer, peer, live, booked, client, replay>>

\* The rest: no stream that was begun here is left without an end.
Close ==
    /\ handler = "closing" /\ timer = "done"
    /\ IF UsesResponses /\ writer.preconnected /\ ~adapter.terminal /\ ~writer.failed /\ live
       THEN FailResponses(adapter)
       ELSE live' = FALSE /\ UNCHANGED <<writer, adapter, client>>
    /\ handler' = "over"
    /\ UNCHANGED <<mode, upstream, timer, peer, booked, replay>>

Leave ==
    /\ peer = "here" /\ peer' = "gone"
    /\ UNCHANGED <<mode, writer, adapter, upstream, handler, timer, live, booked, client, replay>>
Notice ==
    /\ peer = "gone" /\ live /\ live' = FALSE
    /\ UNCHANGED <<mode, writer, adapter, upstream, handler, timer, peer, booked, client, replay>>

-----------------------------------------------------------------------------
(* The client's next request                                               *)

\* What the client holds as the answer: the items of its last event, or those
\* whose end it has seen.
Held ==
    IF client # <<>> /\ Last(client).items # <<>> /\ Ends(Last(client)) THEN Last(client).items
    ELSE FlattenSeq([i \in DOMAIN client |-> IF client[i].k = "done" THEN client[i].items ELSE <<>>])

\* streamPreconnectIsReplayItem: the very item, nothing that only looks like it.
IsReplayItem(item) == item = Synthetic

\* stripStreamPreconnectReplay
Stripped(input) == SelectSeq(input, LAMBDA i : ~IsReplayItem(i))

NextRequest ==
    /\ handler = "over" /\ peer = "here" /\ UsesResponses /\ replay = <<>>
    /\ \E own \in {<<>>, <<[id |-> "synthetic", text |-> "own"]>>} :
         replay' = <<Stripped(Held \o own)>>
    /\ UNCHANGED <<mode, writer, adapter, upstream, handler, timer, peer, live, booked, client>>

PreconnectNext ==
    \/ Keepalive \/ Leave \/ Notice
    \/ SendCreated \/ SendAdded \/ SendDelta \/ SendDone \/ SendCompleted \/ SendBad
    \/ SendChunk \/ SendPlain \/ SendFailed \/ EndOfFile
    \/ Choose \/ GiveUp \/ Finalize \/ FinalError \/ Finish \/ Close \/ NextRequest
    \/ handler = "over" /\ UNCHANGED preconnectVars

PreconnectSpec == PreconnectInit /\ [][PreconnectNext]_preconnectVars

-----------------------------------------------------------------------------
Of(kind) == {i \in DOMAIN client : client[i].k = kind}
Begun == client # <<>> /\ client[1] = Head(Preamble)

\* What the timer began and the handler went on with is one response: nothing
\* but events after an event, one beginning, the invented item first and
\* closed before anything real, each item begun once, one end and nothing
\* behind it; and a successful end names the items exactly as they were
\* streamed, whatever the upstream's last snapshot made of them.
OneResponse ==
    /\ Of("json") # {} => Len(client) = 1
    /\ \A i \in Of("completed") \cup Of("failed") : i = Len(client)
    /\ Begun =>
        /\ Of("begun") = {1} /\ Of("created") = {}
        /\ \A i, j \in Of("added") : client[i].at = client[j].at => i = j
        /\ \A i \in Of("added") \cup Of("delta") \cup Of("completed") : i > 2 =>
              \E j \in Of("done") : j < i /\ client[j].at = 0
        /\ \A i \in Of("done"), j \in Of("completed") :
              client[j].items[client[i].at + 1] = client[i].items[1]

\* The end the client sees is the one that is recorded: a begun response always
\* ends while the client is there, a success in the books is a success to the
\* client, the invented output alone is no answer, and the next request brings
\* the upstream its own items and nothing of ours.
EndIsRecorded ==
    /\ handler = "over" /\ Begun /\ peer = "here" => Of("completed") \cup Of("failed") # {}
    /\ handler \in {"finish", "closing", "over"} /\ Begun /\ peer = "here" =>
          (booked = "ok" <=> Of("completed") # {})
    /\ writer.committed => Len(client) > (CASE Begun -> 2 [] writer.preconnected /\ mode = "chat" -> 1 [] OTHER -> 0)
                           \/ peer = "gone"
    /\ \A input \in ToSet(replay) : input = SelectSeq(Held, LAMBDA i : i.id # "synthetic")
                                   \/ Last(input) = [id |-> "synthetic", text |-> "own"]
=============================================================================
