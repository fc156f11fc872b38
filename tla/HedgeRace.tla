----------------------------- MODULE HedgeRace -----------------------------
(***************************************************************************)
(* A hedged streaming request: backend/gateway/hedge.go (runHedge and      *)
(* collectActiveHedgeAttempts), the hooks that handleForwardCoordinated    *)
(* gives it, the goroutine pair of runCoordinatedStreamAttempt and the     *)
(* attempt-local writer of stream_prefix_gate.go.                          *)
(*                                                                         *)
(* Per attempt there are two goroutines.  The RUNNER is the one runHedge   *)
(* starts: it prepares the call, registers the gate, starts the FORWARDER  *)
(* and waits for the gate's signal, the forwarder's result or              *)
(* cancellation.  The forwarder copies the upstream stream into the gate,  *)
(* which buffers it until the COORDINATOR (the HTTP handler) picks a       *)
(* winner.  Each action is the code between two points at which another    *)
(* goroutine can get in: a channel operation, a mutex or a start of a      *)
(* goroutine.  Where a loop of the code visits attempts in the order of a  *)
(* map, the model visits them by number: the visits are independent.       *)
(* Locals that are read no more (due, the completions after the grace      *)
(* period, a dropped buffer) are reset.                                    *)
(***************************************************************************)
EXTENDS Integers, Sequences, FiniteSets

CONSTANTS
    MaxAttempts,    \* policy.MaxAttempts after normalized(): attempts in all
    MaxParallel,    \* policy.MaxParallel after normalized(): attempts at once
    Chunks,         \* bound: writes an upstream stream is made of
    MaxUpsets       \* bound: failing streams, rejections, prefix timers, disconnects

\* runHedge leaves a policy of one attempt, or of one at a time, to
\* runSequentialHedge.
ASSUME PolicySound ==
    MaxAttempts \in Nat /\ MaxParallel \in 2..MaxAttempts /\ Chunks \in Nat /\ MaxUpsets \in Nat

AttemptIds == 1..MaxAttempts

VARIABLES
    hedgePc,        \* where the handler stands
    ctxDone,        \* the client's request context is done
    started, running, due, completions, outcome, \* runHedge's locals; running is active
    winner,         \* result.Winner's number, 0 when nil
    ending,         \* how runHedge returned
    sweep,          \* attempts cleanupCoordinatedStreamLosers has not visited
    visiting,       \* the one whose result it is about to look for, or 0
    att,            \* coordinatedForwardAttempt, its gate and its goroutines
    upsets,         \* bound: how many of MaxUpsets are left
    client          \* <<attempt, write>> pairs the client has received

hedgeVars == <<hedgePc, ctxDone, started, running, due, completions, outcome,
          winner, ending, sweep, visiting, att, upsets, client>>

RunnerStates == {"idle", "prepare", "select", "await", "receive", "done"}
ForwarderStates ==
    {"none", "streaming", "parked", "finish", "report", "sent", "done"}
Errors == {"nil", "error", "canceled", "terminal", "stopped"}
Outcomes == {"accepted", "error", "rejected", "canceled", "lost"}

\* An attempt before launch() reaches its number: where its runner and its
\* forwarder stand, how the stream ended, the coordinator's decision on the
\* gate ("failed": chosen, but the client could not be written to), the
\* validator's verdict on the prefix, and the writes the gate has taken.
NewAttempt ==
    [runner |-> "idle", fwd |-> "none", end |-> "ok",
     decided |-> "no", verdict |-> "pending", chunks |-> 0]

\* What only the handler's goroutine changes.
handler == <<hedgePc, started, running, due, outcome, winner, ending, sweep, visiting>>

RaceInit ==
    /\ hedgePc = "top" /\ ctxDone = FALSE
    /\ started = 0 /\ running = {} /\ due = TRUE /\ completions = <<>>
    /\ outcome = [a \in AttemptIds |-> "none"]
    /\ winner = 0 /\ ending = "none" /\ sweep = {} /\ visiting = 0
    /\ att = [a \in AttemptIds |-> NewAttempt]
    /\ upsets = MaxUpsets
    /\ client = <<>>

\* coordCtx, a child of the request's context, is done: cancel() is called
\* whenever the loop is left.
Canceled == ctxDone \/ hedgePc \notin {"top", "select"}

\* One of the bounded number of events that make a run unusual.
Upset == upsets > 0 /\ upsets' = upsets - 1
Usual == UNCHANGED upsets

-----------------------------------------------------------------------------
(* The gate and what the goroutines of an attempt read of each other.      *)
(* Several fields are functions of where the forwarder stands: the gate is *)
(* registered when it starts, Err, Status and Terminal are published       *)
(* before Finish, the final Validation and streamReady before the send.    *)
(* The gate's ready channel holds its first verdict, which stands until    *)
(* the runner has read it.                                                 *)

Registered(r) == r.fwd # "none"
Published(r) == r.fwd \in {"finish", "report", "sent", "done"}
StreamReady(r) == r.fwd \in {"sent", "done"}
Failed(r) == Published(r) /\ r.end = "error"
Terminal(r) == Published(r) /\ r.end = "terminal"
Refused(r) == \/ Published(r) /\ r.end = "rejected"
              \/ StreamReady(r) /\ r.verdict = "rejected"

\* streamDone holds one result; whoever receives it takes it.
Taken(r) == IF r.fwd = "sent" THEN [r EXCEPT !.fwd = "done"] ELSE r

\* Lose(): the first decision stands; the buffer is dropped.
Lost(r) == IF r.decided = "no" THEN [r EXCEPT !.decided = "lost", !.chunks = 0] ELSE r

\* cancelStreamLoser(): nothing to cancel before the gate is registered.
Cancel(r) == IF Registered(r) THEN Lost(r) ELSE r

-----------------------------------------------------------------------------
(* The coordinator: runHedge                                               *)

RoomLeft == started < MaxAttempts /\ Cardinality(running) < MaxParallel

\* launch(): the next attempt starts; the one after it is due a delay later.
Launch ==
    /\ hedgePc = "top" /\ ~ctxDone /\ RoomLeft /\ due
    /\ started' = started + 1
    /\ running' = running \cup {started + 1}
    /\ att' = [att EXCEPT ![started + 1].runner = "prepare"]
    /\ due' = FALSE
    /\ UNCHANGED <<hedgePc, ctxDone, completions, outcome, winner, ending,
                   sweep, visiting, upsets, client>>

\* startedAt + started * Delay passes.
DelayPasses ==
    /\ ~due /\ RoomLeft /\ hedgePc \in {"top", "select"}
    /\ due' = TRUE
    /\ UNCHANGED <<hedgePc, ctxDone, started, running, completions, outcome,
                   winner, ending, sweep, visiting, att, upsets, client>>

Exhausted == running = {} /\ started = MaxAttempts

\* The loop's head, when there is nothing to launch: give up when cancelled
\* or exhausted, else wait.
LoopHead ==
    /\ hedgePc = "top"
    /\ \/ /\ ctxDone
          /\ ending' = "aborted" /\ hedgePc' = "collect" /\ due' = FALSE
          /\ UNCHANGED sweep
       \/ /\ ~ctxDone /\ ~(RoomLeft /\ due)
          /\ Exhausted
          /\ ending' = "exhausted" /\ hedgePc' = "cleanup" /\ due' = FALSE
          /\ sweep' = 1..started
       \/ /\ ~ctxDone /\ ~(RoomLeft /\ due)
          /\ ~Exhausted
          /\ hedgePc' = "select"
          /\ UNCHANGED <<due, ending, sweep>>
    /\ UNCHANGED <<ctxDone, started, running, completions, outcome, winner,
                   visiting, att, upsets, client>>

\* select: the context is done or the timer fires.
WakeUp ==
    /\ hedgePc = "select"
    /\ ctxDone \/ (RoomLeft /\ due)
    /\ hedgePc' = "top"
    /\ UNCHANGED <<ctxDone, started, running, due, completions, outcome,
                   winner, ending, sweep, visiting, att, upsets, client>>

\* What a completion says: an error, or what validate makes of the attempt.
Judged(c) ==
    CASE c.err # "nil" -> "error"
      [] c.err = "nil" /\ Refused(att[c.a]) -> "rejected"
      [] OTHER -> "accepted"

\* select: a completion.  A terminal error ends the race, an accepted attempt
\* wins it (cancel() comes before OnWinner), anything else frees its place at
\* once.
Receive ==
    /\ hedgePc = "select" /\ completions # <<>>
    /\ LET c == Head(completions)
           room == started < MaxAttempts /\ Cardinality(running \ {c.a}) < MaxParallel
       IN /\ running' = running \ {c.a}
          /\ outcome' = [outcome EXCEPT ![c.a] = Judged(c)]
          /\ \/ /\ c.err \in {"terminal", "stopped"}
                /\ ending' = "aborted" /\ hedgePc' = "collect"
                /\ due' = FALSE
                /\ UNCHANGED winner
             \/ /\ Judged(c) = "accepted"
                /\ ending' = "won" /\ hedgePc' = "win"
                /\ winner' = c.a
                /\ due' = FALSE
             \/ /\ c.err \notin {"terminal", "stopped"} /\ Judged(c) # "accepted"
                /\ due' = (due \/ room)
                /\ hedgePc' = "top"
                /\ UNCHANGED <<ending, winner>>
    /\ completions' = Tail(completions)
    /\ UNCHANGED <<ctxDone, started, sweep, visiting, att, upsets, client>>

\* OnWinner: the winner's gate opens and its buffered writes go out.  A gate
\* that has been rejected refuses, one decided before keeps its decision; a
\* client that has gone makes the write fail.
OpenGate ==
    /\ hedgePc = "win"
    /\ LET r == att[winner] IN
         IF r.decided # "no" \/ r.verdict = "rejected"
         THEN UNCHANGED <<att, client>>
         ELSE \/ /\ ~ctxDone
                 /\ att' = [att EXCEPT ![winner].decided = "won"]
                 /\ client' = client \o [i \in 1..r.chunks |-> <<winner, i>>]
              \/ /\ ctxDone
                 /\ att' = [att EXCEPT ![winner].decided = "failed"]
                 /\ UNCHANGED client
    /\ hedgePc' = "collect"
    /\ UNCHANGED <<ctxDone, started, running, due, completions, outcome,
                   winner, ending, sweep, visiting, upsets>>

\* collectActiveHedgeAttempts: what a canceled attempt's completion counts as.
Collected(c) ==
    CASE winner = 0 -> "canceled"
      [] winner # 0 /\ c.err \in {"canceled", "stopped"} -> "canceled"
      [] winner # 0 /\ c.err \in {"error", "terminal"} -> "error"
      [] winner # 0 /\ c.err = "nil" ->
            IF Refused(att[c.a]) THEN "rejected" ELSE "lost"

\* Where the handler goes once runHedge has returned.
AfterRace == IF winner # 0 THEN "winnerStream" ELSE "cleanup"

\* A completion arrives within the grace period.
Collect ==
    /\ hedgePc = "collect" /\ running # {} /\ completions # <<>>
    /\ LET c == Head(completions) IN
         /\ running' = running \ {c.a}
         /\ outcome' = [outcome EXCEPT ![c.a] = Collected(c)]
         /\ att' = [att EXCEPT ![c.a] = Cancel(@)]
    /\ completions' = Tail(completions)
    /\ UNCHANGED <<hedgePc, ctxDone, started, due, winner, ending, sweep, visiting, upsets, client>>

\* The grace period is over: the attempts left are recorded without waiting
\* for them, and cancelled one by one.
GraceEnds ==
    /\ hedgePc = "collect" /\ running # {}
    /\ hedgePc' = "expire" /\ completions' = <<>>
    /\ UNCHANGED <<ctxDone, started, running, due, outcome,
                   winner, ending, sweep, visiting, att, upsets, client>>

GiveUpOn(a) ==
    /\ hedgePc = "expire" /\ a \in running /\ \A b \in running : a <= b
    /\ running' = running \ {a}
    /\ outcome' = [outcome EXCEPT ![a] = IF winner # 0 THEN "lost" ELSE "canceled"]
    /\ att' = [att EXCEPT ![a] = Cancel(@)]
    /\ UNCHANGED <<hedgePc, ctxDone, started, due, completions, winner, ending,
                   sweep, visiting, upsets, client>>

RaceOver ==
    /\ hedgePc \in {"collect", "expire"} /\ running = {}
    /\ hedgePc' = AfterRace
    /\ sweep' = (1..started) \ {winner}
    /\ UNCHANGED <<ctxDone, started, running, due, completions, outcome,
                   winner, ending, visiting, att, upsets, client>>

\* awaitStreamResult() on the winner: its stream has ended.
WinnerEnds ==
    /\ hedgePc = "winnerStream"
    /\ StreamReady(att[winner])
    /\ hedgePc' = "cleanup"
    /\ UNCHANGED <<ctxDone, started, running, due, completions, outcome,
                   winner, ending, sweep, visiting, att, upsets, client>>

\* cleanupCoordinatedStreamLosers visits a loser: it takes a snapshot and
\* cancels; a result that was not ready in the snapshot is looked for after.
VisitLoser(a) ==
    /\ hedgePc = "cleanup" /\ a \in sweep /\ \A b \in sweep : a <= b
    /\ att' = [att EXCEPT ![a] = Cancel(@)]
    /\ sweep' = sweep \ {a}
    /\ IF Registered(att[a]) /\ ~StreamReady(att[a])
       THEN hedgePc' = "take" /\ visiting' = a
       ELSE UNCHANGED <<hedgePc, visiting>>
    /\ UNCHANGED <<ctxDone, started, running, due, completions, outcome,
                   winner, ending, upsets, client>>

\* The non-blocking receive from the loser's streamDone.
TakeResult ==
    /\ hedgePc = "take"
    /\ att' = [att EXCEPT ![visiting] = Taken(@)]
    /\ hedgePc' = "cleanup" /\ visiting' = 0
    /\ UNCHANGED <<ctxDone, started, running, due, completions, outcome,
                   winner, ending, sweep, upsets, client>>

\* Every loser visited: the attempts are audited and the handler returns.
Finish ==
    /\ hedgePc = "cleanup" /\ sweep = {}
    /\ hedgePc' = "done"
    /\ UNCHANGED <<ctxDone, started, running, due, completions, outcome,
                   winner, ending, sweep, visiting, att, upsets, client>>

\* The client disconnects, or its time runs out.
ClientLeaves ==
    /\ ~ctxDone /\ hedgePc # "done"
    /\ ctxDone' = TRUE
    /\ Upset
    /\ UNCHANGED <<handler, completions, att, client>>

-----------------------------------------------------------------------------
(* The runner of attempt a                                                 *)

\* run() returns and runHedge's goroutine sends the completion.  A status the
\* caller is to see ends the race; an error is one.
Returned(r) ==
    CASE Refused(r) -> "nil"
      [] ~Refused(r) /\ Failed(r) -> "error"
      [] ~Refused(r) /\ Terminal(r) -> "terminal"
      [] OTHER -> "nil"

Reports(a, r, err) ==
    /\ att' = [att EXCEPT ![a] = [r EXCEPT !.runner = "done"]]
    /\ completions' = IF hedgePc \in {"top", "select", "win", "collect"}
                      THEN Append(completions, [a |-> a, err |-> err])
                      ELSE completions

\* The plan slot is skipped (its route is excluded, its retries are used up)
\* or the call cannot be prepared; claimRequestAttempt, which comes before the
\* preparation, finds coordCtx done; or the gate is registered and the
\* forwarder started, be it that coordCtx was done meanwhile.
Prepare(a) ==
    /\ att[a].runner = "prepare"
    /\ \/ Reports(a, att[a], "error") /\ Usual
       \/ Canceled /\ Reports(a, att[a], "stopped") /\ Usual
       \/ /\ att' = [att EXCEPT ![a].runner = "select", ![a].fwd = "streaming"]
          /\ UNCHANGED <<completions, upsets>>

\* select: the gate has a verdict.  A rejected stream is cancelled and its
\* result waited for.
GateSignals(a) ==
    /\ att[a].runner = "select" /\ att[a].verdict # "pending"
    /\ IF att[a].verdict = "rejected" \/ Refused(att[a])
       THEN /\ att' = [att EXCEPT ![a].runner = "await"]
            /\ UNCHANGED completions
       ELSE Reports(a, att[a], Returned(att[a]))

\* awaitStreamResult(): the snapshot, then, if it was too early, the receive.
Await(a) ==
    /\ att[a].runner = "await"
    /\ IF StreamReady(att[a])
       THEN Reports(a, att[a], "nil")
       ELSE /\ att' = [att EXCEPT ![a].runner = "receive"]
            /\ UNCHANGED completions

ReceiveResult(a) ==
    /\ att[a].runner = "receive" /\ att[a].fwd = "sent"
    /\ Reports(a, Taken(att[a]), "nil")

\* select: the forwarder has finished.
StreamDone(a) ==
    /\ att[a].runner = "select" /\ att[a].fwd = "sent"
    /\ Reports(a, Taken(att[a]), Returned(att[a]))

\* select: coordCtx is done.
RunnerCanceled(a) ==
    /\ att[a].runner = "select" /\ Canceled
    /\ Reports(a, Lost(att[a]), "canceled")

Runner(a) ==
    /\ \/ Prepare(a)
       \/ /\ \/ GateSignals(a) \/ Await(a) \/ ReceiveResult(a)
             \/ StreamDone(a) \/ RunnerCanceled(a)
          /\ Usual
    /\ UNCHANGED <<handler, ctxDone, client>>

-----------------------------------------------------------------------------
(* The forwarder of attempt a                                              *)

\* forwardStream returns: the attempt's error and status are published before
\* the gate can signal.
StreamEnds(r, how) == [r EXCEPT !.fwd = "finish", !.end = how]

\* Write() before the decision: the chunk is buffered; the validator needs
\* more, accepts (the write then waits for the decision) or rejects.
WriteBuffered(a) ==
    /\ att[a].decided = "no"
    /\ LET r == [att[a] EXCEPT !.chunks = @ + 1] IN
         \/ /\ r.verdict = "pending"
            /\ att' = [att EXCEPT ![a] = r]
            /\ Usual
         \/ /\ r.verdict # "rejected"
            /\ att' = [att EXCEPT ![a] = [r EXCEPT !.verdict = "accepted",
                                                   !.fwd = "parked"]]
            /\ Usual
         \/ /\ r.verdict = "pending"
            /\ att' = [att EXCEPT ![a] =
                          StreamEnds([@ EXCEPT !.verdict = "rejected"], "rejected")]
            /\ Upset
         \/ /\ r.verdict = "rejected"
            /\ att' = [att EXCEPT ![a] = StreamEnds(@, "rejected")]
            /\ Usual
    /\ UNCHANGED client

\* Write() on the winner's gate goes straight to the client, if it is there.
WriteThrough(a) ==
    /\ att[a].decided = "won"
    /\ att' = [att EXCEPT ![a].chunks = @ + 1]
    /\ client' = IF ctxDone THEN client ELSE Append(client, <<a, att[a].chunks + 1>>)
    /\ Usual

Write(a) ==
    /\ att[a].fwd = "streaming" /\ att[a].chunks < Chunks
    /\ WriteBuffered(a) \/ WriteThrough(a)

\* The upstream stream ends; it fails, by itself or because it was cancelled
\* or its gate closed; or there is no stream but a status the caller is to see.
EndStream(a) ==
    /\ att[a].fwd = "streaming"
    /\ \/ /\ att[a].chunks > 0
          /\ att' = [att EXCEPT ![a] = StreamEnds(@, "ok")]
          /\ Usual
       \/ /\ att' = [att EXCEPT ![a] = StreamEnds(@, "error")]
          /\ IF att[a].decided \in {"lost", "failed"} THEN Usual ELSE Upset
       \/ /\ att[a].chunks = 0
          /\ att' = [att EXCEPT ![a] = StreamEnds(@, "terminal")]
          /\ Upset
    /\ UNCHANGED client

\* The write that waits for the decision gets it.
UnparkOnLoss(a) ==
    /\ att[a].fwd = "parked" /\ att[a].decided = "lost"
    /\ att' = [att EXCEPT ![a] = StreamEnds(@, "error")]
    /\ UNCHANGED <<upsets, client>>

UnparkAndRepeat(a) ==
    /\ att[a].fwd = "parked" /\ att[a].decided # "no"
    /\ att' = [att EXCEPT ![a] = IF @.decided = "won" THEN [@ EXCEPT !.fwd = "streaming"]
                                                      ELSE StreamEnds(@, "error")]
    /\ client' = IF att[a].decided = "won" THEN Append(client, <<a, att[a].chunks>>)
                                           ELSE client
    /\ UNCHANGED upsets

Unpark(a) ==
    /\ att[a].fwd = "parked" /\ att[a].decided # "no"
    /\ att' = [att EXCEPT ![a] = IF @.decided = "won" THEN [@ EXCEPT !.fwd = "streaming"]
                                                      ELSE StreamEnds(@, "error")]
    /\ UNCHANGED <<upsets, client>>

\* Finish(): an uncommitted gate gives its verdict on what it holds.  A prefix
\* that was accepted stays so, unless a write came after it.  The verdict on a
\* gate that has lost is not looked at.
FinishGate(a) ==
    /\ att[a].fwd = "finish"
    /\ LET r == [att[a] EXCEPT !.fwd = "report"] IN
         \/ /\ r.verdict = "rejected" \/ r.decided = "won"
            /\ att' = [att EXCEPT ![a] = r]
            /\ Usual
         \/ /\ r.verdict # "rejected" /\ r.decided # "won"
            /\ att' = [att EXCEPT ![a] = [r EXCEPT !.verdict = "accepted"]]
            /\ Usual
         \/ /\ r.chunks > 0
            /\ \/ r.decided = "no" /\ r.verdict = "pending"
               \/ r.decided = "failed" /\ r.verdict = "accepted"
            /\ att' = [att EXCEPT ![a] = [r EXCEPT !.verdict = "rejected"]]
            /\ Upset
    /\ UNCHANGED client

\* The final validation is published, streamReady with it, and the result sent.
Report(a) ==
    /\ att[a].fwd = "report"
    /\ att' = [att EXCEPT ![a].fwd = "sent"]
    /\ UNCHANGED <<upsets, client>>

\* validateStreamMetadata: the model or the usage an event declares refuses the
\* attempt although its prefix was accepted, and perhaps chosen, before.
MetadataRejects(a) ==
    /\ att[a].fwd = "streaming" /\ att[a].decided = "no" /\ att[a].verdict = "accepted"
    /\ att' = [att EXCEPT ![a] = StreamEnds([@ EXCEPT !.verdict = "rejected"], "rejected")]
    /\ UNCHANGED <<upsets, client>>

Forwarder(a) ==
    /\ Write(a) \/ EndStream(a) \/ MetadataRejects(a) \/ Unpark(a) \/ FinishGate(a) \/ Report(a)
    /\ UNCHANGED <<handler, ctxDone, completions>>

\* The prefix timer: what is buffered is judged although the stream goes on.
\* It is stopped by Finish, not by the end of the stream.
PrefixTimer(a) ==
    /\ att[a].fwd \in {"streaming", "finish"} /\ att[a].chunks > 0
    /\ att[a].decided = "no" /\ att[a].verdict = "pending"
    /\ \E v \in {"accepted", "rejected"} : att' = [att EXCEPT ![a].verdict = v]
    /\ Upset
    /\ UNCHANGED <<handler, ctxDone, completions, client>>

-----------------------------------------------------------------------------

Coordinator ==
    \/ Launch \/ LoopHead \/ WakeUp \/ Receive \/ OpenGate
    \/ Collect \/ (\E a \in AttemptIds : GiveUpOn(a)) \/ RaceOver
    \/ WinnerEnds \/ (\E a \in AttemptIds : VisitLoser(a)) \/ TakeResult \/ Finish

RaceNext ==
    \/ Coordinator \/ DelayPasses \/ GraceEnds \/ ClientLeaves
    \/ \E a \in AttemptIds : Runner(a) \/ Forwarder(a) \/ PrefixTimer(a)

RaceSpec == RaceInit /\ [][RaceNext]_hedgeVars

-----------------------------------------------------------------------------
(* Properties                                                              *)

AttemptRecord ==
    [runner : RunnerStates, fwd : ForwarderStates,
     end : {"ok", "error", "rejected", "terminal"},
     decided : {"no", "won", "failed", "lost"},
     verdict : {"pending", "accepted", "rejected"}, chunks : 0..Chunks]

\* The types of the variables.
RaceTypeOK ==
    /\ hedgePc \in {"top", "select", "win", "collect", "expire", "winnerStream",
               "cleanup", "take", "done"}
    /\ ctxDone \in BOOLEAN /\ due \in BOOLEAN
    /\ started \in 0..MaxAttempts /\ running \subseteq 1..started
    /\ completions \in Seq([a : AttemptIds, err : Errors])
    /\ outcome \in [AttemptIds -> Outcomes \cup {"none"}]
    /\ winner \in 0..MaxAttempts /\ visiting \in 0..MaxAttempts
    /\ ending \in {"none", "won", "exhausted", "aborted"}
    /\ sweep \subseteq 1..started
    /\ att \in [AttemptIds -> AttemptRecord]
    /\ upsets \in 0..MaxUpsets
    /\ client \in Seq(AttemptIds \X (1..Chunks))

\* The client receives one stream, the winner's, from its first write and
\* without a gap or a repetition, whatever the other attempts were writing when
\* the winner was chosen (the gate's buffer, Win and the writes that follow it).
ClientSeesOneStream ==
    \A i \in DOMAIN client : client[i] = <<winner, i>>

\* The handler never waits for a stream that waits for it: until it has
\* returned, it, an attempt's goroutine or a timer it waits for can go on.
\* (Every one of them makes a bounded number of steps.)
NeverStuck ==
    hedgePc # "done" =>
        ENABLED (Coordinator \/ DelayPasses \/ GraceEnds
                  \/ \E a \in AttemptIds : Runner(a) \/ Forwarder(a))

=============================================================================
