--------------------------- MODULE StreamConverters ---------------------------
(***************************************************************************)
(* The six converters of backend/gateway/protocol that turn the SSE events *)
(* of one model API into those of another while the answer is still being  *)
(* written: Anthropic Messages (A), OpenAI Chat Completions (C) and OpenAI *)
(* Responses (R).  A route "XY" reads protocol X upstream and speaks Y to  *)
(* the client.                                                             *)
(*                                                                         *)
(* The converters are pure: a converter is a record (the Go struct), Feed  *)
(* and Close return the record after the call, and its field out holds the *)
(* frames the call returns.  Handlers compose as functions on the record.  *)
(*                                                                         *)
(* An event (or frame) is a record with a type t, an index i (of a block,  *)
(* an output item or a tool call), a kind k, a call identifier c, the      *)
(* units of content u it carries, a finish reason r, a token count n and,  *)
(* in the last event of a Responses stream, the whole output o.  A unit    *)
(* stands for one fragment of text, of reasoning or of tool arguments; the *)
(* text itself, ids, models and JSON layout are abstracted away.           *)
(***************************************************************************)
EXTENDS Naturals, Sequences, SequencesExt, FiniteSets, TLC

Ev(t) == [t |-> t, i |-> 0, k |-> "", c |-> 0, u |-> <<>>, r |-> "", n |-> "none", o |-> <<>>]
At(t, i) == [Ev(t) EXCEPT !.i = i]
Of(t, i, k) == [At(t, i) EXCEPT !.k = k]
With(t, i, k, u) == [Of(t, i, k) EXCEPT !.u = u]

Put(s, e) == [s EXCEPT !.out = Append(@, e)]
Taken(s) == [s EXCEPT !.out = <<>>]

(***************************************************************************)
(* A -> C: AnthropicToOpenAIStream.                                        *)
(***************************************************************************)
NewAC == [role |-> FALSE, done |-> FALSE, tool |-> <<>>, next |-> 0, n |-> "none", out |-> <<>>]

RoleAC(s) == IF s.role THEN s ELSE Put([s EXCEPT !.role = TRUE], Ev("role"))

StartAC(s, e) == RoleAC([s EXCEPT !.n = e.n])

BlockStartAC(s, e) ==
    IF e.k # "tool" THEN s
    ELSE Put(RoleAC([s EXCEPT !.tool = (e.i :> s.next) @@ @, !.next = @ + 1]),
             At("call", s.next))

BlockDeltaAC(s, e) ==
    CASE e.k = "text"  -> Put(RoleAC(s), With("text", 0, "text", e.u))
      [] e.k = "tool"  -> Put(s, With("args", IF e.i \in DOMAIN s.tool THEN s.tool[e.i] ELSE 0,
                                      "tool", e.u))
      [] e.k = "think" -> Put(s, With("reasoning", 0, "think", e.u))

\* The usage of message_delta is copied over that of message_start key by key:
\* a count it leaves out survives, a zero it repeats replaces it.
MessageDeltaAC(s, e) ==
    LET n == IF e.n = "none" THEN s.n ELSE e.n
    IN  Put([s EXCEPT !.n = n], [Ev("finish") EXCEPT !.r = e.r, !.n = n])

\* SetInputTokens: a count the gateway knows fills a missing or zero one.
SetInputAC(s) == IF s.n = "counted" THEN s ELSE [s EXCEPT !.n = "counted"]

FeedAC(s, e) ==
    IF s.done THEN s
    ELSE CASE e.t = "start"  -> StartAC(s, e)
           [] e.t = "bstart" -> BlockStartAC(s, e)
           [] e.t = "bdelta" -> BlockDeltaAC(s, e)
           [] e.t = "mdelta" -> MessageDeltaAC(s, e)
           [] OTHER -> s

CloseAC(s) == IF s.done THEN s ELSE Put([s EXCEPT !.done = TRUE], Ev("done"))

(***************************************************************************)
(* C -> A: OpenAIToAnthropicStream.  Reasoning has no place in its output  *)
(* and is dropped.                                                         *)
(***************************************************************************)
NewCA == [started |-> FALSE, done |-> FALSE, textOpen |-> FALSE, textIndex |-> 0, next |-> 0,
          block |-> <<>>, open |-> {}, finish |-> "", out |-> <<>>]

EnsureStartedCA(s) ==
    IF s.started \/ s.done THEN s ELSE Put([s EXCEPT !.started = TRUE], Ev("start"))

CloseTextCA(s) ==
    IF ~s.textOpen THEN s
    ELSE Put([s EXCEPT !.textOpen = FALSE], At("bstop", s.textIndex))

OpenTextCA(s) ==
    IF s.textOpen THEN s
    ELSE Put([s EXCEPT !.textOpen = TRUE, !.textIndex = s.next, !.next = @ + 1],
             Of("bstart", s.next, "text"))

TextCA(s, e) ==
    LET o == OpenTextCA(s) IN Put(o, With("bdelta", o.textIndex, "text", e.u))

OpenToolCA(s, i) ==
    IF i \in s.open THEN s
    ELSE LET c == CloseTextCA(s)
         IN  Put([c EXCEPT !.block = (i :> c.next) @@ @, !.open = @ \cup {i}, !.next = @ + 1],
                 Of("bstart", c.next, "tool"))

ToolCA(s, e) ==
    LET o == OpenToolCA(s, e.i)
    IN  IF e.u = <<>> THEN o ELSE Put(o, With("bdelta", o.block[e.i], "tool", e.u))

FeedCA(s, e) ==
    IF s.done THEN s
    ELSE LET b == EnsureStartedCA(s)
         IN  CASE e.t = "text"             -> TextCA(b, e)
               [] e.t \in {"call", "args"} -> ToolCA(b, e)
               [] e.t = "finish"           -> [b EXCEPT !.finish = e.r]
               [] OTHER -> b

\* Go ranges over the map of open tools in any order; the order of their
\* stops carries no meaning, so the model takes the lowest index first.
CloseToolsCA(s) ==
    [s EXCEPT !.out = @ \o [j \in 1..Cardinality(s.open) |->
                              At("bstop", SetToSortSeq({s.block[i] : i \in s.open}, <)[j])],
              !.open = {}]

CloseCA(s) ==
    IF s.done THEN s
    ELSE LET c == CloseToolsCA(CloseTextCA([EnsureStartedCA(s) EXCEPT !.done = TRUE]))
             p == IF c.next # 0 THEN c
                  ELSE Put(Put(c, Of("bstart", 0, "text")), At("bstop", 0))
         IN  Put(Put(p, [Ev("mdelta") EXCEPT !.r = IF c.finish = "" THEN "stop" ELSE c.finish]),
                 Ev("stop"))

(***************************************************************************)
(* R -> A: ResponsesToAnthropicStream.  One block at most is open; its     *)
(* index is idx, its kind kind; blockOf maps an output index to a block.   *)
(***************************************************************************)
NewRA == [started |-> FALSE, stopped |-> FALSE, done |-> FALSE, idx |-> 0, open |-> FALSE,
          kind |-> "", had |-> FALSE, tools |-> FALSE, blockOf |-> <<>>, out |-> <<>>]

EnsureStartRA(s) == IF s.started THEN s ELSE Put([s EXCEPT !.started = TRUE], Ev("start"))

CloseBlockRA(s) ==
    IF ~s.open THEN s
    ELSE Put([s EXCEPT !.open = FALSE, !.idx = @ + 1, !.had = FALSE, !.kind = ""],
             At("bstop", s.idx))

OpenBlockRA(s, k) == Put([s EXCEPT !.open = TRUE, !.kind = k], Of("bstart", s.idx, k))

ItemAddedRA(s, e) ==
    LET b == EnsureStartRA(s)
        c == CloseBlockRA(b)
    IN  CASE e.k = "tool"  -> OpenBlockRA([c EXCEPT !.blockOf = (e.i :> c.idx) @@ @,
                                                    !.had = FALSE, !.tools = TRUE], "tool")
          [] e.k = "think" -> OpenBlockRA([c EXCEPT !.blockOf = (e.i :> c.idx) @@ @], "think")
          [] e.k = "text"  -> b

TextDeltaRA(s, e) ==
    LET b == EnsureStartRA(s)
        o == IF b.open /\ b.kind = "text" THEN b ELSE OpenBlockRA(CloseBlockRA(b), "text")
    IN  Put(o, With("bdelta", o.idx, "text", e.u))

ArgsDeltaRA(s, e) ==
    LET known == e.i \in DOMAIN s.blockOf
        b == IF known THEN s.blockOf[e.i] ELSE s.idx
        m == IF s.kind = "tool" THEN [s EXCEPT !.had = TRUE] ELSE s
    IN  IF known \/ (s.open /\ s.kind = "tool") THEN Put(m, With("bdelta", b, "tool", e.u)) ELSE s

ArgsDoneRA(s, e) ==
    IF s.kind # "tool" THEN CloseBlockRA(s)
    ELSE CloseBlockRA(IF e.u # <<>> /\ ~s.had THEN Put(s, With("bdelta", s.idx, "tool", e.u)) ELSE s)

ThinkDeltaRA(s, e) ==
    LET b == EnsureStartRA(s)
        c == CloseBlockRA(b)
        o == IF b.open /\ b.kind = "think" THEN b
             ELSE OpenBlockRA([c EXCEPT !.blockOf = (e.i :> c.idx) @@ @], "think")
    IN  IF e.i \in DOMAIN s.blockOf THEN Put(s, With("bdelta", s.blockOf[e.i], "think", e.u))
        ELSE Put(o, With("bdelta", o.idx, "think", e.u))

\* A tool call that appears only when it is done is made up from the item.
ItemDoneRA(s, e) ==
    LET a == ItemAddedRA(s, e)
    IN  IF e.k = "tool" /\ ~(s.open /\ s.kind = "tool") /\ e.i \notin DOMAIN s.blockOf
        THEN CloseBlockRA(IF e.u = <<>> THEN a ELSE Put(a, With("bdelta", a.idx, "tool", e.u)))
        ELSE CloseBlockRA(s)

StopReasonRA(s) == IF s.tools THEN "tool" ELSE "stop"

\* stopReasonFromResponse: tool calls first, then an answer cut short.
StopReasonOfRA(s, e) ==
    IF s.tools THEN "tool"
    ELSE IF e.r = "length" THEN "length"
    ELSE IF \E j \in DOMAIN e.o : e.o[j].k = "tool" THEN "tool" ELSE "stop"

FinalizeRA(s, reason) ==
    IF s.stopped THEN s
    ELSE Put(Put([CloseBlockRA(s) EXCEPT !.stopped = TRUE, !.done = TRUE],
                 [Ev("mdelta") EXCEPT !.r = reason]),
             Ev("stop"))

\* synthesizeFromOutput: one whole block for every item that has content; a
\* tool call without arguments still gets its block.
SynthesizedRA(s, o) ==
    LET Add(it, t) ==
          IF it.u = <<>> /\ it.k # "tool" THEN t
          ELSE LET b == OpenBlockRA(CloseBlockRA(IF it.k = "tool" THEN [t EXCEPT !.tools = TRUE] ELSE t),
                                    it.k)
               IN  CloseBlockRA(Put(b, With("bdelta", b.idx, it.k, it.u)))
    IN  FoldLeft(LAMBDA t, it : Add(it, t), s, o)

CompletedRA(s, e) ==
    IF s.stopped THEN s
    ELSE LET fallback == ~s.open /\ s.idx = 0 /\ SynthesizedRA(s, e.o).out # s.out
             body == IF fallback THEN SynthesizedRA(EnsureStartRA(s), e.o) ELSE EnsureStartRA(s)
         IN  FinalizeRA(body, StopReasonOfRA(body, e))

\* handleFailed: the forwarding loop keeps failures from ever reaching it.
FailedRA(s) ==
    Put([CloseBlockRA(s) EXCEPT !.done = TRUE, !.stopped = TRUE], Ev("error"))

FeedRA(s, e) ==
    IF s.done \/ s.stopped THEN s
    ELSE CASE e.t = "added"     -> ItemAddedRA(s, e)
           [] e.t = "delta" /\ e.k = "text"  -> TextDeltaRA(s, e)
           [] e.t = "delta" /\ e.k = "tool"  -> ArgsDeltaRA(s, e)
           [] e.t = "delta" /\ e.k = "think" -> ThinkDeltaRA(s, e)
           [] e.t = "kdone" /\ e.k # "tool"  -> CloseBlockRA(s)
           [] e.t = "kdone" /\ e.k = "tool"  -> ArgsDoneRA(s, e)
           [] e.t = "idone"     -> ItemDoneRA(s, e)
           [] e.t = "completed" -> CompletedRA(s, e)
           [] e.t = "failed"    -> FailedRA(s)
           [] OTHER -> s

CloseRA(s) ==
    IF s.done THEN s
    ELSE IF s.stopped THEN [s EXCEPT !.done = TRUE]
    ELSE FinalizeRA(EnsureStartRA(s), IF s.started THEN StopReasonRA(s) ELSE "stop")

(***************************************************************************)
(* R -> C: ResponsesToOpenAIStream.  Calls are known by their call id; an  *)
(* argument event may leave it out (c = 0).  Reasoning is dropped unless   *)
(* it is all the answer has.                                               *)
(***************************************************************************)
NewRC == [role |-> FALSE, done |-> FALSE, tools |-> FALSE, index |-> <<>>, args |-> {},
          named |-> {}, next |-> 0, finish |-> "", out |-> <<>>]

RoleRC(s) == IF s.role THEN s ELSE Put([s EXCEPT !.role = TRUE], Ev("role"))

AllocRC(s, c) ==
    IF c # 0 /\ c \in DOMAIN s.index THEN s
    ELSE [s EXCEPT !.next = @ + 1, !.index = IF c = 0 THEN @ ELSE (c :> s.next) @@ @]

\* resolveToolIndex: without a call id the only tool, else the output index.
ResolveRC(s, e) ==
    IF e.c # 0 THEN AllocRC(s, e.c).index[e.c] ELSE IF s.next = 1 THEN 0 ELSE e.i

ItemAddedRC(s, e) ==
    IF e.k # "tool" THEN RoleRC(s)
    ELSE LET a == AllocRC([s EXCEPT !.tools = TRUE], e.c)
         IN  Put(RoleRC([a EXCEPT !.named = @ \cup {e.c}]), At("call", a.index[e.c]))

ArgsDeltaRC(s, e) ==
    LET a == IF e.c = 0 THEN s ELSE [AllocRC(s, e.c) EXCEPT !.args = @ \cup {e.c}]
    IN  Put(a, With("args", ResolveRC(s, e), "tool", e.u))

ArgsDoneRC(s, e) ==
    IF e.u = <<>> \/ (e.c # 0 /\ e.c \in s.args) THEN s ELSE ArgsDeltaRC(s, e)

\* mutant: the whole arguments are sent although they were streamed
ItemDoneRC_Repeats(s, e) ==
    LET a == AllocRC([s EXCEPT !.tools = TRUE], e.c)
        m == [a EXCEPT !.named = @ \cup {e.c}]
    IN  CASE e.k # "tool" -> s
          [] e.k = "tool" /\ e.c \notin s.named ->
               Put(RoleRC(m), With("call", a.index[e.c], "tool", e.u))
          [] OTHER -> Put(RoleRC(m), With("args", a.index[e.c], "tool", e.u))

\* The whole item: what was neither announced nor streamed is sent now.
ItemDoneRC(s, e) ==
    LET a     == AllocRC([s EXCEPT !.tools = TRUE], e.c)
        had   == e.c \in s.args
        known == e.c \in s.named
        m     == [a EXCEPT !.named = @ \cup {e.c},
                           !.args = IF had \/ e.u = <<>> THEN @ ELSE @ \cup {e.c}]
        u     == IF had THEN <<>> ELSE e.u
    IN  CASE e.k # "tool" -> s
          [] e.k = "tool" /\ ~known -> Put(RoleRC(m), With("call", a.index[e.c], "tool", u))
          [] e.k = "tool" /\ known /\ u # <<>> ->
               Put(RoleRC(m), With("args", a.index[e.c], "tool", u))
          [] OTHER -> a

\* responsesObjectToOpenAIChat and emitChatMessageAsChunks: the whole answer
\* again, tool calls numbered from 0; reasoning only where there is no text.
WholeRC(s, e) ==
    LET texts  == FlattenSeq([j \in DOMAIN e.o |-> IF e.o[j].k = "text" THEN e.o[j].u ELSE <<>>])
        thinks == FlattenSeq([j \in DOMAIN e.o |-> IF e.o[j].k = "think" THEN e.o[j].u ELSE <<>>])
        calls  == SelectSeq(e.o, LAMBDA it : it.k = "tool")
        text   == IF texts = <<>> THEN thinks ELSE texts
        b      == RoleRC(s)
        m      == [b EXCEPT !.tools = calls # <<>>,
                            !.out = @ \o (IF text = <<>> THEN <<>> ELSE <<With("text", 0, "text", text)>>)
                                     \o [j \in DOMAIN calls |-> With("call", j - 1, "tool", calls[j].u)]]
        reason == IF calls # <<>> THEN "tool" ELSE IF e.r = "length" THEN "length" ELSE "stop"
    IN  Put([m EXCEPT !.finish = reason], [Ev("finish") EXCEPT !.r = reason])

CompletedRC(s, e) ==
    LET reason == IF s.tools THEN "tool" ELSE IF e.r = "length" THEN "length" ELSE "stop"
        body == IF ~s.role \/ (s.next = 0 /\ ~s.tools) THEN WholeRC(s, e)
                ELSE Put(RoleRC([s EXCEPT !.finish = reason]), [Ev("finish") EXCEPT !.r = reason])
    IN  Put(Put([body EXCEPT !.done = TRUE], Ev("usage")), Ev("done"))

FailedRC(s) == Put(Put([s EXCEPT !.done = TRUE], Ev("error")), Ev("done"))

FeedRC(s, e) ==
    IF s.done THEN s
    ELSE CASE e.t = "added"     -> ItemAddedRC(s, e)
           [] e.t = "delta" /\ e.k = "text" -> Put(RoleRC(s), With("text", 0, "text", e.u))
           [] e.t = "delta" /\ e.k = "tool" -> ArgsDeltaRC(s, e)
           [] e.t = "kdone" /\ e.k = "tool" -> ArgsDoneRC(s, e)
           [] e.t = "idone"     -> ItemDoneRC(s, e)
           [] e.t = "completed" -> CompletedRC(s, e)
           [] e.t = "failed"    -> FailedRC(s)
           [] OTHER -> s

CloseRC(s) ==
    IF s.done THEN s
    ELSE LET reason == IF s.finish # "" THEN s.finish ELSE IF s.tools THEN "tool" ELSE "stop"
         IN  Put(Put([RoleRC(s) EXCEPT !.done = TRUE], [Ev("finish") EXCEPT !.r = reason]), Ev("done"))

(***************************************************************************)
(* A -> R: AnthropicToResponsesStream.  One output item is open at most;   *)
(* finished collects the items for the last event.  Adjacent text blocks   *)
(* become one message item.                                                *)
(***************************************************************************)
NewAR == [created |-> FALSE, completed |-> FALSE, done |-> FALSE, idx |-> 0, kind |-> "",
          u |-> <<>>, part |-> FALSE, finished |-> <<>>, reason |-> "", n |-> "none", out |-> <<>>]

CreatedAR(s) == IF s.created THEN s ELSE Put([s EXCEPT !.created = TRUE], Ev("created"))

CloseItemAR(s) ==
    IF s.kind = "" THEN s
    ELSE LET b == [s EXCEPT !.kind = "", !.u = <<>>, !.part = FALSE, !.idx = @ + 1,
                            !.finished = Append(@, [k |-> s.kind, u |-> s.u])]
             t == IF s.kind = "text" /\ s.part THEN Put(b, With("kdone", s.idx, "text", s.u)) ELSE b
         IN  Put(t, With("idone", s.idx, s.kind, s.u))

BlockStartAR(s, e) ==
    LET b == CreatedAR(s)
        c == CloseItemAR(b)
    IN  IF e.k = "text" /\ b.kind = "text" THEN b
        ELSE Put([c EXCEPT !.kind = e.k], Of("added", c.idx, e.k))

BlockDeltaAR(s, e) ==
    LET b == CreatedAR(s)
        o == IF e.k = "tool" \/ b.kind = e.k THEN b ELSE BlockStartAR(b, e)
    IN  Put([o EXCEPT !.u = @ \o e.u, !.part = @ \/ e.k = "text"],
            With("delta", o.idx, e.k, e.u))

\* A text block's end is left to closeItem.
BlockStopAR(s) ==
    IF s.kind \in {"think", "tool"}
    THEN CloseItemAR(Put(s, With("kdone", s.idx, s.kind, s.u)))
    ELSE s

EmitCompletedAR(s, reason) ==
    IF s.completed THEN s
    ELSE Put([s EXCEPT !.completed = TRUE, !.done = TRUE],
             [Ev("completed") EXCEPT !.r = reason, !.n = s.n, !.o = s.finished])

MessageStopAR(s) ==
    IF s.completed THEN s
    ELSE EmitCompletedAR(CloseItemAR(s), IF s.reason = "length" THEN "length" ELSE "stop")

\* ingestUsage: a zero never replaces a count.
IngestAR(s, e) == IF e.n = "counted" THEN [s EXCEPT !.n = "counted"] ELSE s

SetInputAR(s) == [s EXCEPT !.n = "counted"]

FeedAR(s, e) ==
    IF s.done \/ s.completed THEN s
    ELSE CASE e.t = "start"  -> CreatedAR(IngestAR(s, e))
           [] e.t = "bstart" -> BlockStartAR(s, e)
           [] e.t = "bdelta" -> BlockDeltaAR(s, e)
           [] e.t = "bstop"  -> BlockStopAR(s)
           [] e.t = "mdelta" -> [IngestAR(s, e) EXCEPT !.reason = e.r]
           [] e.t = "stop"   -> MessageStopAR(s)
           [] OTHER -> s

CloseAR(s) ==
    IF s.done THEN s
    ELSE IF s.completed THEN [s EXCEPT !.done = TRUE]
    ELSE EmitCompletedAR(CloseItemAR(CreatedAR(s)), "stop")

(***************************************************************************)
(* C -> R: ChatToResponsesStream.  A tool call is announced with its first *)
(* arguments or its name; tool items stay open until Close, which finishes *)
(* them by rising chat index.                                              *)
(***************************************************************************)
NewCR == [created |-> FALSE, completed |-> FALSE, done |-> FALSE, next |-> 0,
          msgOpen |-> FALSE, msgIdx |-> 0, text |-> <<>>, rsOpen |-> FALSE, rsIdx |-> 0,
          think |-> <<>>, tools |-> <<>>, finished |-> <<>>, finish |-> "", out |-> <<>>]

CreatedCR(s) == IF s.created THEN s ELSE Put([s EXCEPT !.created = TRUE], Ev("created"))

\* The done event of an item's content, then of the item, which is kept.
FinishCR(s, i, k, u) ==
    LET f == [s EXCEPT !.finished = Append(@, [k |-> k, u |-> u])]
    IN  Put(Put(f, With("kdone", i, k, u)), With("idone", i, k, u))

CloseReasoningCR(s) ==
    IF ~s.rsOpen THEN s
    ELSE [FinishCR(s, s.rsIdx, "think", s.think) EXCEPT !.rsOpen = FALSE, !.think = <<>>]

CloseMessageCR(s) ==
    IF ~s.msgOpen THEN s
    ELSE [FinishCR(s, s.msgIdx, "text", s.text) EXCEPT !.msgOpen = FALSE, !.text = <<>>]

EnsureReasoningCR(s) ==
    IF s.rsOpen THEN s
    ELSE Put([s EXCEPT !.rsOpen = TRUE, !.rsIdx = s.next, !.next = @ + 1, !.think = <<>>],
             Of("added", s.next, "think"))

EnsureMessageCR(s) ==
    IF s.msgOpen THEN s
    ELSE Put([s EXCEPT !.msgOpen = TRUE, !.msgIdx = s.next, !.next = @ + 1, !.text = <<>>],
             Of("added", s.next, "text"))

ReasoningCR(s, e) ==
    LET b == EnsureReasoningCR(s)
    IN  Put([b EXCEPT !.think = @ \o e.u], With("delta", b.rsIdx, "think", e.u))

TextCR(s, e) ==
    LET b == EnsureMessageCR(CloseReasoningCR(s))
    IN  Put([b EXCEPT !.text = @ \o e.u], With("delta", b.msgIdx, "text", e.u))

ToolCR(s, e) ==
    LET b == IF e.i \in DOMAIN s.tools THEN s
             ELSE LET c == CloseMessageCR(CloseReasoningCR(s))
                  IN  Put([c EXCEPT !.next = @ + 1,
                                    !.tools = (e.i :> [at |-> c.next, u |-> <<>>]) @@ @],
                          Of("added", c.next, "tool"))
    IN  IF e.u = <<>> THEN b
        ELSE Put([b EXCEPT !.tools[e.i].u = @ \o e.u], With("delta", b.tools[e.i].at, "tool", e.u))

EmitCompletedCR(s) ==
    Put([s EXCEPT !.completed = TRUE],
        [Ev("completed") EXCEPT !.r = IF s.finish = "length" THEN "length" ELSE "stop",
                                !.n = "counted", !.o = s.finished])

CloseCR(s) ==
    IF s.done THEN s
    ELSE LET c == CloseMessageCR(CloseReasoningCR(CreatedCR([s EXCEPT !.done = TRUE])))
             t == FoldLeft(LAMBDA b, i : FinishCR(b, b.tools[i].at, "tool", b.tools[i].u), c,
                           SetToSortSeq(DOMAIN c.tools, <))
         IN  EmitCompletedCR(t)

FeedCR(s, e) ==
    IF s.done THEN s
    ELSE CASE e.t = "done"      -> CloseCR(s)
           [] e.t = "reasoning" -> ReasoningCR(CreatedCR(s), e)
           [] e.t = "text"      -> TextCR(CreatedCR(s), e)
           [] e.t \in {"call", "args"} -> ToolCR(CreatedCR(s), e)
           [] e.t = "finish"    -> [CreatedCR(s) EXCEPT !.finish = e.r]
           [] OTHER -> CreatedCR(s)
=============================================================================
