--------------------------- MODULE ResponseRules ---------------------------
(***************************************************************************)
(* The response rules of a group and the validator that reads a stream     *)
(* with them: backend/gateway/response_validation.go, with the audits of   *)
(* response_model.go and response_usage.go.  Everything here is a function *)
(* of what has arrived; ResponseValidation gives it its callers.           *)
(*                                                                         *)
(* A stream is a sequence of PIECES, parts of SSE frames that cross a      *)
(* Write whole; the limits of the code, counted in bytes there, count      *)
(* pieces here.  A piece has the names of its frame (event: field and the  *)
(* type inside data:), the words at an assistant-bearing field (text), at  *)
(* an error-bearing one (error) and anywhere else (meta), and tells        *)
(* whether the frame's blank line comes with it (ends).  A pattern is a    *)
(* sequence of words found anywhere, at the end ($) or alone (^...$).      *)
(***************************************************************************)
EXTENDS Integers, Sequences, FiniteSets, SequencesExt

CONSTANTS
    PrefixBytes,    \* responseValidator.prefixBytes
    MaxPrefix,      \* maxValidationPrefixBytes
    Ring,           \* postCommitValidationBytes
    FirstScan       \* initialValidationScanBytes

ASSUME LimitsAssumption ==
    {PrefixBytes, MaxPrefix, Ring, FirstScan} \subseteq Nat \ {0} /\ PrefixBytes <= MaxPrefix

\* maxResponsesPreCommitBytes
Limit == MaxPrefix + Ring

Pending == [is |-> "pending", rule |-> 0, late |-> FALSE]
Accepted == [is |-> "accepted", rule |-> 0, late |-> FALSE]
Rejection(id, late) == [is |-> "rejected", rule |-> id, late |-> late]
IsRejected(r) == r.is = "rejected"

-----------------------------------------------------------------------------
(* Frames                                                                  *)

\* A terminal name decides, whichever field it stands in; then any name that
\* is not of the lifecycle; data without a name must not hold the gate.
FrameClass(p) ==
    CASE "terminal" \in {p.event, p.type} -> "terminal"
      [] "content" \in {p.event, p.type} -> "content"
      [] "lifecycle" \in {p.event, p.type} -> "lifecycle"
      [] OTHER -> IF p.data THEN "content" ELSE "empty"

\* The pieces up to the last blank line.
Frames(pending) ==
    LET n == SelectLastInSeq(pending, LAMBDA p : p.ends) IN SubSeq(pending, 1, n)

\* The rest stays with the classifier for the next Write.
Unfinished(pending) ==
    LET n == SelectLastInSeq(pending, LAMBDA p : p.ends) IN SubSeq(pending, n + 1, Len(pending))

\* The complete frames a client would see something of.
Candidate(pending) ==
    SelectSeq(Frames(pending), LAMBDA p : FrameClass(p) \in {"content", "terminal"})

\* What a Write shows: for Responses clients the complete frames decide; for
\* any other protocol every Write that does not start with a comment counts.
Observe(v, w) ==
    IF v.protocol # "openai_responses" THEN
        LET visible == Head(w).event # "none" \/ Head(w).type # "none" \/ Head(w).data IN
        [eligible |-> visible, terminal |-> FALSE, bytes |-> IF visible THEN Len(w) ELSE 0,
         candidate |-> <<>>, pending |-> <<>>, overflow |-> FALSE]
    ELSE
        LET all == v.pending \o w
            seen == Candidate(all)
        IN [eligible |-> seen # <<>>, bytes |-> Len(seen), candidate |-> seen,
            terminal |-> \E i \in DOMAIN seen : FrameClass(seen[i]) = "terminal",
            pending |-> Unfinished(all), overflow |-> Len(Unfinished(all)) >= Limit]

-----------------------------------------------------------------------------
(* What a rule reads                                                       *)

\* Every byte that was buffered.
RawBody(ps) == FoldLeft(LAMBDA t, p : t \o p.text \o p.meta \o p.error, <<>>, ps)

\* What stands at assistant-bearing fields; an event that breaks off is read as
\* far as it goes, and a string anywhere else is never taken for text.
AssistantFields(p) == p.text

\* What stands at error-bearing fields, read the same way.
ErrorFields(p) == p.error

\* A frame whose type is of the lifecycle, or ends the answer, has no visible
\* text, whatever it carries.
VisibleText(p) == IF p.type \in {"lifecycle", "terminal"} THEN <<>> ELSE AssistantFields(p)
AssistantText(ps) == FoldLeft(LAMBDA t, p : t \o VisibleText(p), <<>>, ps)

\* The first error message of the stream, not all of them.
ErrorMessage(ps) ==
    LET i == SelectInSeq(ps, LAMBDA p : ErrorFields(p) # <<>>) IN
    IF i = 0 THEN <<>> ELSE ErrorFields(ps[i])

TextTargets == {"raw_body", "assistant_text", "error_message"}
TextOf(target, ps) ==
    CASE target = "raw_body" -> RawBody(ps)
      [] target = "error_message" -> ErrorMessage(ps)
      [] OTHER -> AssistantText(ps)

Occurs(pattern, t) ==
    LET n == Len(pattern.words) IN
    CASE pattern.at = "whole" -> t = pattern.words
      [] pattern.at = "end" -> IsSuffix(pattern.words, t)
      [] OTHER -> \E i \in 1..(Len(t) - n + 1) : SubSeq(t, i, i + n - 1) = pattern.words

-----------------------------------------------------------------------------
(* Rules                                                                   *)

\* The order of the rules: priority, then age.
Before(r, s) == r.priority < s.priority \/ (r.priority = s.priority /\ r.id < s.id)

\* newResponseValidator: the enabled rules, in that order.
Compiled(rows) == SetToSortSeq({r \in rows : r.enabled}, Before)

\* No selector selects everything.
Selected(selectors, value) == selectors = {} \/ value \in selectors
Applies(r, protocol, model) == Selected(r.protocols, protocol) /\ Selected(r.models, model)

\* One combined expression for the rules of a target, when there are several.
Possible(all, target, t) ==
    LET same == {i \in DOMAIN all : all[i].target = target} IN
    Cardinality(same) < 2 \/ \E i \in same : Occurs(all[i].pattern, t)

\* The first rule, in their order, that the text of its target matches.
Match(all, rules, ps, late) ==
    LET hits == SelectSeq(rules, LAMBDA r :
                    /\ r.target \in TextTargets
                    /\ Possible(all, r.target, TextOf(r.target, ps))
                    /\ Occurs(r.pattern, TextOf(r.target, ps)))
    IN IF hits = <<>> THEN Accepted ELSE Rejection(Head(hits).id, late)

\* Validate: the rules that apply, on a whole body.
Validate(v, ps) ==
    Match(v.all, SelectSeq(v.all, LAMBDA r : Applies(r, v.protocol, v.model)), ps, FALSE)

\* The first rule of a metadata target that applies; zero_usage has no pattern.
MetadataMatch(v, target, words) ==
    LET hits == SelectSeq(v.all, LAMBDA r :
                    /\ r.target = target /\ Applies(r, v.protocol, v.model)
                    /\ (target = "zero_usage" \/ Occurs(r.pattern, words)))
    IN IF hits = <<>> THEN Accepted ELSE Rejection(Head(hits).id, FALSE)

\* A declared model that changes nothing is not looked at again.
ValidateModel(v, last, declared) ==
    IF declared \in {"none", last} THEN Accepted ELSE MetadataMatch(v, "response_model", <<declared>>)

\* Positive usage rules the condition out for good; missing usage does not.
ValidateZeroUsage(v, positive) == IF positive THEN Accepted ELSE MetadataMatch(v, "zero_usage", <<>>)

\* A whole answer: the declared model, then the usage, then the text.
JudgeBody(v, ps, declared, positive) ==
    LET byModel == ValidateModel(v, "none", declared)
        byUsage == ValidateZeroUsage(v, positive)
    IN CASE IsRejected(byModel) -> byModel
         [] IsRejected(byUsage) -> byUsage
         [] OTHER -> Validate(v, ps)

-----------------------------------------------------------------------------
(* The validator of one stream.  prefixDirty and preCommitDirty are one    *)
(* flag: both rise with every byte kept, and the scan in use clears it.    *)

\* NewStreamValidator: without a text rule that applies the stream is accepted.
NewStreamValidator(rows, protocol, model) ==
    LET all == Compiled(rows)
        rules == SelectSeq(all, LAMBDA r : r.target \in TextTargets /\ Applies(r, protocol, model))
    IN [protocol |-> protocol, model |-> model, all |-> all, rules |-> rules,
        every |-> \E i \in DOMAIN rules : rules[i].pattern.at # "any",
        prefix |-> <<>>, post |-> <<>>, pending |-> <<>>, dirty |-> FALSE,
        seen |-> 0, nextScan |-> 0, bytes |-> 0,
        eligible |-> FALSE, elapsed |-> FALSE, terminal |-> FALSE, overflow |-> FALSE,
        scanned |-> Pending, result |-> IF rules = <<>> THEN Accepted ELSE Pending,
        ready |-> rules = <<>>, late |-> Pending, audited |-> FALSE]

Current(v) ==
    CASE IsRejected(v.late) -> v.late
      [] IsRejected(v.result) -> v.result
      [] OTHER -> IF v.ready THEN Accepted ELSE Pending

\* The ring keeps the newest.
AppendPost(v, w) ==
    LET all == v.post \o w IN
    IF w = <<>> THEN v
    ELSE [v EXCEPT !.dirty = TRUE,
                   !.post = IF Len(all) > Ring THEN SubSeq(all, Len(all) - Ring + 1, Len(all)) ELSE all]

\* The sizes at which ordinary patterns are looked for: 1, 2, 4, ... FirstScan.
NextScan(seen) ==
    LET sizes == {FirstScan * 2^k : k \in 0..Limit}
        above == {n \in sizes : n > seen /\ n < 2 * Limit}
    IN IF above = {} THEN seen + 1 ELSE CHOOSE n \in above : \A m \in above : n <= m

\* matchPreCommitBuffered: everything that is held, unless nothing is new.
Scan(v) ==
    IF ~v.dirty THEN v
    ELSE [v EXCEPT !.scanned = Match(v.all, v.rules, v.prefix \o v.post, FALSE),
                   !.dirty = FALSE, !.nextScan = NextScan(v.seen)]

ShouldScan(v) == v.dirty /\ (v.every \/ v.nextScan = 0 \/ v.seen >= v.nextScan)

\* A Responses stream is not accepted before a client would see something.
CanCommit(v) == v.protocol = "openai_responses" => v.eligible
HoldsResponses(v) ==
    v.protocol = "openai_responses" /\ ~v.ready /\ ~IsRejected(v.result)

Accept(v) == [v EXCEPT !.ready = TRUE, !.result = Accepted, !.pending = <<>>]

\* What a scan found decides, or lets the stream go on.
KeptVerdict(v) == IF IsRejected(v.scanned) THEN [v EXCEPT !.result = v.scanned] ELSE v

\* Mutant: the window's end lets the prefix go as the last scan left it.
Settle_Unscanned(v) == IF IsRejected(v.scanned) THEN KeptVerdict(v) ELSE Accept(v)

\* The last look before the prefix is let go.
SettleScanned(v) == IF IsRejected(v.scanned) THEN KeptVerdict(v) ELSE Accept(v)
Settle(v) == SettleScanned(Scan(v))

\* The bytes of a Write join the prefix while it has room, then the ring.
Take(v, w, o) ==
    LET room == PrefixBytes - Len(v.prefix) IN
    AppendPost([v EXCEPT !.prefix = @ \o SubSeq(w, 1, IF Len(w) > room THEN room ELSE Len(w)),
                         !.dirty = TRUE, !.pending = o.pending, !.bytes = @ + o.bytes,
                         !.eligible = @ \/ o.eligible, !.terminal = @ \/ o.terminal],
               SubSeq(w, room + 1, Len(w)))

\* Mutant: a frame that matches alone decides, whatever the rest would say.
JudgeFrame_Alone(v, frame) == [v EXCEPT !.result = frame]

\* A frame that matches alone calls for the full scan, which keeps the rules'
\* order; if that finds nothing, the frame's own match stands.
FrameOrAll(v, frame) == [v EXCEPT !.result = IF IsRejected(v.scanned) THEN v.scanned ELSE frame]
JudgeFrame(v, frame) == FrameOrAll(Scan(v), frame)

\* After the scan that was due: the new frames, then the end of the window.
Look(v, frames) ==
    CASE frames # <<>> /\ IsRejected(Match(v.all, v.rules, frames, FALSE)) ->
            JudgeFrame(v, Match(v.all, v.rules, frames, FALSE))
      [] v.bytes >= PrefixBytes \/ v.elapsed \/ v.terminal -> IF CanCommit(v) THEN Settle(v) ELSE v
      [] OTHER -> v

DueScan(v, frames) == IF IsRejected(v.scanned) THEN KeptVerdict(v) ELSE Look(v, frames)
Judge(v, frames) == IF ShouldScan(v) THEN DueScan(Scan(v), frames) ELSE Look(v, frames)

ConsumeHeld(v, w, o) ==
    IF o.overflow THEN [v EXCEPT !.overflow = TRUE, !.pending = <<>>]
    ELSE Judge(Take(v, w, o), o.candidate)

Consume(v, w) ==
    IF v.rules = <<>> \/ w = <<>> \/ IsRejected(v.late) THEN v
    ELSE IF v.ready THEN AppendPost(v, w)
    ELSE ConsumeHeld([v EXCEPT !.seen = @ + Len(w)], w, Observe(v, w))

\* Ready, when the window after the first content has passed.
AfterWindow(v) ==
    IF v.overflow \/ IsRejected(v.result) \/ v.ready THEN v
    ELSE IF CanCommit(v) THEN Settle([v EXCEPT !.elapsed = TRUE]) ELSE [v EXCEPT !.elapsed = TRUE]

Finalize(v) == IF v.overflow \/ IsRejected(v.result) THEN v ELSE Settle(v)

\* AuditPostCommit: once, over what was kept of the whole stream.
Audit(v) ==
    IF v.audited \/ v.post = <<>> THEN [v EXCEPT !.audited = TRUE]
    ELSE [v EXCEPT !.audited = TRUE,
                   !.late = LET found == Match(v.all, v.rules, v.prefix \o v.post, TRUE) IN
                            IF IsRejected(found) THEN found ELSE @]

\* Commit: whatever has come is out; a rejection stays on record.
Commit(v) == [v EXCEPT !.ready = TRUE, !.pending = <<>>,
                       !.result = IF IsRejected(@) THEN @ ELSE Accepted]
=============================================================================
