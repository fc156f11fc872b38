------------------------- MODULE ResponseValidation -------------------------
(***************************************************************************)
(* One attempt's answer under the response rules: the gate of              *)
(* backend/gateway/stream_prefix_gate.go around the validator of           *)
(* ResponseRules, the forwarder that copies the upstream's events into it  *)
(* (processEvent of runtime_stream.go, with the metadata checks of         *)
(* response_model.go), and the runner that waits for the verdict           *)
(* (runCoordinatedStreamAttempt).  The coordinator's choice of a winner is *)
(* nondeterministic here: HedgeRace models it, with the verdict chosen.    *)
(*                                                                         *)
(* The gate's mutex makes each action atomic.  A timer that has fired may  *)
(* still be waiting for it while a Write, Win or Lose stops the timer.     *)
(* The model and the usage an event declares are checked under two         *)
(* acquisitions of the mutex, in one step here.                            *)
(***************************************************************************)
EXTENDS ResponseRules

CONSTANT GateScenarios  \* bound: [stream, protocol, model, rows, events, length]

\* The pieces an upstream may send in them.
Pieces == UNION {Range(e.pieces) : e \in UNION {c.events : c \in GateScenarios}}

ASSUME GateAssumption ==
    \A c \in GateScenarios :
        c.stream \in BOOLEAN /\ \A e \in c.events : e.pieces \in Seq(Pieces)

VARIABLES
    case,       \* the scenario
    validator,  \* streamResponseValidator
    gate,       \* streamPrefixGateWriter
    forwarder,  \* forwardStream's goroutine
    runner,     \* where the attempt stands for the coordinator
    sent,       \* pieces given to the validator
    got         \* pieces the client has received

gateVars == <<case, validator, gate, forwarder, runner, sent, got>>

\* An event as the upstream sends it: the model and the usage it declares, the
\* pieces written for it.  After a terminal event the upstream has ended.
NewForwarder(n) ==
    [at |-> "reading", end |-> "ok", write |-> <<>>, last |-> "none",
     positive |-> FALSE, over |-> FALSE, left |-> n]

NewGate ==
    [decided |-> "no", rejection |-> Pending, late |-> Pending, buffer |-> <<>>,
     signal |-> <<>>, timer |-> "none", after |-> 0]

GateInit ==
    \E c \in GateScenarios :
        /\ case = c
        /\ validator = NewStreamValidator(c.rows, c.protocol, c.model)
        /\ gate = NewGate
        /\ forwarder = NewForwarder(c.length)
        /\ runner = "wait" /\ sent = <<>> /\ got = <<>>

Committed == gate.decided = "won"

\* ready has room for one verdict; a second one waits for nobody.
Signal(g, r) == IF g.signal = <<>> THEN [g EXCEPT !.signal = <<r>>] ELSE g

\* Stop does not call back a timer that has fired already.
StopTimer(g) == [g EXCEPT !.timer = IF @ = "armed" THEN "none" ELSE @]

\* The window opens with the first content, once.
StartTimer(g, v, w) == IF g.timer = "none" /\ v.eligible THEN [g EXCEPT !.timer = "armed"] ELSE g

Stop(f, why) == [f EXCEPT !.at = "finish", !.end = why, !.write = <<>>]

-----------------------------------------------------------------------------
(* The forwarder                                                           *)

\* validateStreamMetadataWithPolicy: before the commit a match refuses the
\* attempt; after it it goes on record, and only a strict one ends the stream.
OnRecord(g, match, strict) ==
    CASE ~IsRejected(match) -> g
      [] IsRejected(match) /\ Committed ->
            [g EXCEPT !.late = IF strict \/ ~IsRejected(@) THEN [match EXCEPT !.late = TRUE] ELSE @]
      [] OTHER -> Signal(StopTimer([g EXCEPT !.rejection = match]), match)
EndsStream(match, strict) == IsRejected(match) /\ (strict \/ ~Committed)

\* processEvent up to the conversion: a failed frame is judged like a body and
\* never written; else the declared model, and at the terminal event the usage.
Receive(e) ==
    /\ forwarder.at = "reading" /\ forwarder.left > 0 /\ ~forwarder.over
    /\ LET f == [forwarder EXCEPT !.left = @ - 1, !.over = e.terminal,
                                  !.positive = @ \/ e.positive,
                                  !.last = IF e.declares = "none" THEN @ ELSE e.declares]
           byModel == ValidateModel(validator, forwarder.last, e.declares)
           byUsage == IF e.terminal THEN ValidateZeroUsage(validator, f.positive) ELSE Accepted
           byRules == Validate(validator, e.pieces)
       IN \/ /\ e.kind = "failure"
             /\ gate' = OnRecord(gate, byRules, FALSE)
             /\ forwarder' = Stop(f, IF EndsStream(byRules, FALSE) THEN "rejected" ELSE "error")
          \/ /\ e.kind = "data" /\ EndsStream(byModel, FALSE)
             /\ gate' = OnRecord(gate, byModel, FALSE)
             /\ forwarder' = Stop(f, "rejected")
          \/ /\ e.kind = "data" /\ ~EndsStream(byModel, FALSE)
             /\ gate' = OnRecord(OnRecord(gate, byModel, FALSE), byUsage, TRUE)
             /\ forwarder' = IF EndsStream(byUsage, TRUE) THEN Stop(f, "rejected")
                             ELSE [f EXCEPT !.at = "writing", !.write = e.pieces]
    /\ UNCHANGED <<case, validator, runner, sent, got>>

\* The upstream's end of file; without a terminal event the usage is due now.
EndOfFile ==
    /\ forwarder.at = "reading"
    /\ LET byUsage == IF forwarder.over THEN Accepted ELSE ValidateZeroUsage(validator, forwarder.positive)
       IN /\ gate' = OnRecord(gate, byUsage, TRUE)
          /\ forwarder' = Stop(forwarder, IF EndsStream(byUsage, TRUE) THEN "rejected" ELSE "ok")
    /\ UNCHANGED <<case, validator, runner, sent, got>>

\* Write on a gate that lost.
WriteLost ==
    /\ forwarder.at = "writing" /\ gate.decided = "lost"
    /\ forwarder' = Stop(forwarder, "lost")
    /\ UNCHANGED <<case, validator, gate, runner, sent, got>>

\* Write on a committed gate: straight to the client.
WriteThrough ==
    /\ forwarder.at = "writing" /\ Committed
    /\ validator' = Consume(validator, forwarder.write)
    /\ gate' = [gate EXCEPT !.late = IF IsRejected(validator'.late) /\ ~IsRejected(@) THEN validator'.late ELSE @]
    /\ got' = got \o forwarder.write /\ sent' = sent \o forwarder.write
    /\ forwarder' = [forwarder EXCEPT !.at = "reading", !.write = <<>>]
    /\ UNCHANGED <<case, runner>>

\* More than the gate may hold, or a frame that does not end.
WriteOverLimit ==
    /\ forwarder.at = "writing" /\ gate.decided \in {"no", "failed"}
    /\ LET full == HoldsResponses(validator) /\ Len(gate.buffer) + Len(forwarder.write) > Limit
       IN \/ full /\ UNCHANGED validator
          \/ ~full /\ validator' = Consume(validator, forwarder.write) /\ validator'.overflow
    /\ gate' = StopTimer(gate)
    /\ forwarder' = Stop(forwarder, "error")
    /\ UNCHANGED <<case, runner, sent, got>>

\* Write before the decision: judged, buffered, and once accepted parked until
\* the coordinator has decided.
WriteHeld ==
    /\ forwarder.at = "writing" /\ gate.decided \in {"no", "failed"}
    /\ ~(HoldsResponses(validator) /\ Len(gate.buffer) + Len(forwarder.write) > Limit)
    /\ \E w \in {forwarder.write}, v \in {Consume(validator, forwarder.write)},
          held \in {[gate EXCEPT !.buffer = @ \o forwarder.write,
                                 !.after = @ + (IF validator.ready THEN 1 ELSE 0)]} :
          /\ ~v.overflow
          /\ validator' = v
          /\ sent' = sent \o w
          /\ \/ /\ IsRejected(Current(v)) /\ ~Current(v).late
                /\ gate' = Signal(StopTimer([gate EXCEPT !.rejection = Current(v)]), Current(v))
                /\ forwarder' = Stop(forwarder, "rejected")
             \/ /\ ~IsRejected(Current(v)) /\ v.ready
                /\ gate' = Signal(StopTimer(held), Accepted)
                /\ forwarder' = [forwarder EXCEPT !.at = "parked", !.write = <<>>]
             \/ /\ ~IsRejected(Current(v)) /\ ~v.ready
                /\ gate' = StartTimer(held, v, w)
                /\ forwarder' = [forwarder EXCEPT !.at = "reading", !.write = <<>>]
    /\ UNCHANGED <<case, runner, got>>

\* The parked Write sees the decision.
Unpark ==
    /\ forwarder.at = "parked" /\ gate.decided # "no"
    /\ forwarder' = CASE gate.decided = "won" -> [forwarder EXCEPT !.at = "reading"]
                      [] gate.decided = "failed" -> Stop(forwarder, "client")
                      [] OTHER -> Stop(forwarder, "lost")
    /\ UNCHANGED <<case, validator, gate, runner, sent, got>>

\* Finish: what was never accepted gets its last look, what was sent its audit.
Finish ==
    /\ forwarder.at = "finish"
    /\ \E settled \in {IF IsRejected(gate.rejection) \/ Committed THEN validator ELSE Finalize(validator)} :
       \E audited \in {IF IsRejected(gate.rejection) THEN settled ELSE Audit(settled)},
          verdict \in {IF settled.overflow THEN Pending ELSE Current(settled)} :
       LET late == IF IsRejected(audited.late) THEN audited.late ELSE gate.late
       IN /\ validator' = audited
          /\ gate' = CASE IsRejected(gate.rejection) -> gate
                       [] ~IsRejected(gate.rejection) /\ Committed -> [gate EXCEPT !.late = late]
                       [] OTHER -> Signal(StopTimer([gate EXCEPT !.late = late,
                                       !.rejection = IF IsRejected(verdict) THEN verdict ELSE @]), verdict)
          /\ forwarder' = [forwarder EXCEPT !.at = "done",
                             !.end = IF IsRejected(gate'.rejection) THEN "rejected" ELSE @]
    /\ UNCHANGED <<case, runner, sent, got>>

-----------------------------------------------------------------------------
(* The timer                                                               *)

WindowPasses ==
    /\ gate.timer = "armed"
    /\ gate' = [gate EXCEPT !.timer = "firing"]
    /\ UNCHANGED <<case, validator, forwarder, runner, sent, got>>

TimerFires ==
    /\ gate.timer = "firing"
    /\ \E idle \in {gate.decided # "no" \/ IsRejected(gate.rejection)} :
       \E v \in {IF idle THEN validator ELSE AfterWindow(validator)} :
       LET r == IF v.overflow THEN Pending ELSE Current(v)
           fired == [gate EXCEPT !.timer = "fired"]
       IN /\ validator' = v
          /\ gate' = IF idle \/ r = Pending THEN fired
                     ELSE Signal([fired EXCEPT !.rejection = IF IsRejected(r) THEN r ELSE @], r)
    /\ UNCHANGED <<case, forwarder, runner, sent, got>>

-----------------------------------------------------------------------------
(* The runner and the coordinator                                          *)

Published == forwarder.at \in {"finish", "done"}

\* The gate's first verdict; the forwarder may have published more.
TakeSignal ==
    /\ runner = "wait" /\ gate.signal # <<>> /\ case.stream
    /\ runner' = CASE IsRejected(Head(gate.signal)) \/ (Published /\ forwarder.end = "rejected") -> "refused"
                   [] OTHER -> IF Published /\ forwarder.end = "error" THEN "failed" ELSE "ready"
    /\ gate' = [gate EXCEPT !.signal = <<>>]
    /\ UNCHANGED <<case, validator, forwarder, sent, got>>

\* Or the forwarder's result, when that is what the select sees.
TakeResult ==
    /\ runner = "wait" /\ forwarder.at = "done" /\ case.stream
    /\ runner' = CASE forwarder.end = "rejected" -> "refused"
                   [] forwarder.end = "error" -> "failed"
                   [] OTHER -> "ready"
    /\ UNCHANGED <<case, validator, gate, forwarder, sent, got>>

\* cancel(): the forwarder's next read of the upstream fails.
ReadCanceled ==
    /\ forwarder.at = "reading" /\ runner \in {"refused", "failed", "left"}
    /\ forwarder' = Stop(forwarder, "error")
    /\ UNCHANGED <<case, validator, gate, runner, sent, got>>

\* Win: refused when a rejection came in meanwhile; the client may be gone.
Win ==
    /\ runner = "ready" /\ gate.decided = "no"
    /\ \/ /\ IsRejected(gate.rejection)
          /\ runner' = "failed" /\ UNCHANGED <<gate, got, validator>>
       \/ /\ ~IsRejected(gate.rejection)
          /\ gate' = [StopTimer(gate) EXCEPT !.decided = "won", !.buffer = <<>>]
          /\ got' = got \o gate.buffer
          /\ validator' = Commit(validator) /\ runner' = "won"
       \/ /\ ~IsRejected(gate.rejection) /\ gate.buffer # <<>>
          /\ gate' = [StopTimer(gate) EXCEPT !.decided = "failed", !.buffer = <<>>]
          /\ validator' = Commit(validator) /\ runner' = "failed" /\ UNCHANGED got
    /\ UNCHANGED <<case, forwarder, sent>>

\* Lose: another attempt won, or the request was given up; after a refusal the
\* losers are visited only when its result is in.
Lose ==
    /\ gate.decided = "no" /\ runner # "won" /\ case.stream
    /\ runner = "refused" => forwarder.at = "done"
    /\ gate' = [StopTimer(gate) EXCEPT !.decided = "lost", !.buffer = <<>>]
    /\ runner' = IF runner \in {"wait", "ready"} THEN "left" ELSE runner
    /\ UNCHANGED <<case, validator, forwarder, sent, got>>

\* runCoordinatedNonStreamAttempt: the whole answer is judged, then delivered.
JudgeAnswer(e) ==
    /\ ~case.stream /\ runner = "wait"
    /\ LET verdict == JudgeBody(validator, e.pieces, e.declares, e.positive)
       IN /\ gate' = [gate EXCEPT !.rejection = IF IsRejected(verdict) THEN verdict ELSE @]
          /\ runner' = IF IsRejected(verdict) THEN "refused" ELSE "won"
          /\ got' = IF IsRejected(verdict) THEN <<>> ELSE e.pieces
          /\ sent' = e.pieces
    /\ forwarder' = [forwarder EXCEPT !.at = "done"]
    /\ UNCHANGED <<case, validator>>

-----------------------------------------------------------------------------
\* The attempt is over; anything else that stops here is stuck.
AttemptOver ==
    /\ forwarder.at = "done" /\ runner \notin {"wait", "ready"}
    /\ UNCHANGED gateVars

GateWrite == WriteLost \/ WriteThrough \/ WriteOverLimit \/ WriteHeld
GateNext ==
    \/ \E e \in case.events : case.stream /\ Receive(e)
    \/ \E e \in case.events : JudgeAnswer(e)
    \/ case.stream /\ EndOfFile
    \/ GateWrite \/ Unpark \/ Finish \/ WindowPasses \/ TimerFires
    \/ TakeSignal \/ TakeResult \/ ReadCanceled \/ Win \/ Lose \/ AttemptOver

GateSpec == GateInit /\ [][GateNext]_gateVars

-----------------------------------------------------------------------------
\* What the gate lets out has been looked at: no rule matches the pieces that
\* were there when the prefix was accepted, as far as the buffers keep all of
\* them, and at most one Write slipped in between the timer and the winner.
AcceptedIsJudged ==
    Committed /\ validator.rules # <<>> /\ sent # <<>> =>
        /\ gate.after <= 1
        /\ validator.seen > 0
        /\ (validator.seen <= PrefixBytes + Ring =>
               Match(validator.all, validator.rules, SubSeq(sent, 1, validator.seen), FALSE) = Accepted)

\* A refused attempt stays invisible: whatever refused it, and however late,
\* the client has nothing of it; and what a client gets is a stream's start,
\* nothing left out or repeated.
RejectedStaysHidden ==
    /\ IsRejected(gate.rejection) => got = <<>>
    /\ IsPrefix(got, sent)

\* What the client has was let out by the rules: nothing leaves the gate
\* unjudged, and nothing of a refused attempt leaves it at all.
ReleasedIsJudged == AcceptedIsJudged /\ RejectedStaysHidden

\* The rule on record is the first, by priority and age, of those that match
\* what was held, however the stream was cut into frames and Writes and
\* whichever scan saw it.
FirstRuleDecides ==
    IsRejected(gate.rejection) /\ forwarder.end # "error" /\ forwarder.write = <<>>
    /\ Len(sent) <= PrefixBytes + Ring =>
        \A decider, other \in case.rows :
            /\ decider.id = gate.rejection.rule /\ decider.target \in TextTargets
            /\ other.enabled /\ other.target \in TextTargets /\ Applies(other, case.protocol, case.model)
            /\ Occurs(other.pattern, TextOf(other.target, sent))
            => \/ decider.priority < other.priority
               \/ decider.priority = other.priority /\ decider.id <= other.id
=============================================================================
