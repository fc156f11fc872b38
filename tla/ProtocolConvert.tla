--------------------------- MODULE ProtocolConvert ---------------------------
(***************************************************************************)
(* The conversions of package protocol (backend/gateway/protocol) between  *)
(* the three protocols the gateway speaks, on whole bodies: a request from *)
(* the client's protocol to the upstream's, an answer back.                *)
(*                                                                         *)
(* A body is a sequence of turns [as |-> role or item type, has |-> atoms].*)
(* A string content is the sequence of the texts joined in it (<<>> for    *)
(* ""); separators, argument strings, schemas and names are left out.      *)
(* Anthropic and Responses requests keep the system text apart, in `sys`.  *)
(***************************************************************************)
EXTENDS Naturals, SequencesExt

Chat == "openai_chat"
Responses == "openai_responses"
Anthropic == "anthropic"
Protocols == {Chat, Responses, Anthropic}

\* A part of a message. A result names the call it answers and may hold images.
Part(is, v) == [is |-> is, v |-> v, pics |-> <<>>]
Text(t) == Part("text", t)
Result(call, pics) == [Part("result", call) EXCEPT !.pics = pics]
Turn(as, has) == [as |-> as, has |-> has]

Only(kinds, s) == SelectSeq(s, LAMBDA a : a.is \in kinds)
\* A concatenation of texts: the empty ones leave no trace.
Joined(s) == SelectSeq(s, LAMBDA a : a.is = "text" /\ a.v # "")
Shown(s) == SelectSeq(s, LAMBDA a : a.is = "image" \/ (a.is = "text" /\ a.v # ""))
Calls(s) == Only({"call"}, s)
HasImage(s) == Only({"image"}, s) # <<>>
OrEmptyText(s) == IF s = <<>> THEN <<Text("")>> ELSE s
Each(Op(_), s) == FlattenSeq([i \in DOMAIN s |-> Op(s[i])])
If(c, s) == IF c THEN s ELSE <<>>

-----------------------------------------------------------------------------
(* Requests from an Anthropic client.                                      *)

ChoiceFromAnthropic(c, one) == CASE c = "any" -> "required" [] c = "tool" -> one [] OTHER -> c
\* An option is <<>> when it is not set, else <<value>>.
Effort(budget) == LET n == budget[1] IN
  IF budget = <<>> THEN <<>>
  ELSE <<IF n > 16000 THEN "high" ELSE IF n > 2048 \/ n = 0 THEN "medium" ELSE "low">>

\* The texts of the system blocks, joined.
AnthropicSystemToText(sys) == Joined(sys)

\* A result on its way out: its text stays, its images do not.
ToolOutput(a) == [a EXCEPT !.pics = <<>>]

\* Images force the list form, which keeps empty texts; else the texts are joined.
UserContent(s) == IF HasImage(s) THEN Only({"text", "image"}, s) ELSE Joined(s)

\* mutant: a turn with text in it loses its results.
UserToChat_ResultsLost(e) ==
  LET results == Only({"result"}, e.has)
      content == UserContent(e.has)
  IN  IF content # <<>> \/ results = <<>> THEN <<Turn("user", content)>>
      ELSE [i \in DOMAIN results |-> Turn("tool", <<results[i]>>)]

\* The results of a turn become messages of their own, behind its other content.
UserToChat(e) ==
  LET results == [i \in DOMAIN Only({"result"}, e.has) |->
                    Turn("tool", <<ToolOutput(Only({"result"}, e.has)[i])>>)]
      content == UserContent(e.has)
  IN  If(content # <<>> \/ results = <<>>, <<Turn("user", content)>>) \o results

AssistantToChat(e) == <<Turn("assistant", Joined(e.has) \o Calls(e.has))>>

AnthropicToOpenAIRequest(r) ==
  [proto |-> Chat, sys |-> <<>>,
   turns |-> If(AnthropicSystemToText(r.sys) # <<>>, <<Turn("system", AnthropicSystemToText(r.sys))>>)
             \o Each(LAMBDA e : IF e.as = "user" THEN UserToChat(e) ELSE AssistantToChat(e), r.turns),
   tools |-> r.tools, choice |-> ChoiceFromAnthropic(r.choice, "function"),
   effort |-> Effort(r.effort)]

\* Results first, then everything else, the images of the results included.
UserToResponses(e) ==
  LET outputs == [i \in DOMAIN Only({"result"}, e.has) |->
                    Turn("function_call_output", <<ToolOutput(Only({"result"}, e.has)[i])>>)]
      parts == Each(LAMBDA a : IF a.is = "result" THEN a.pics ELSE Shown(<<a>>), e.has)
  IN  outputs \o If(parts # <<>> \/ outputs = <<>>, <<Turn("user", OrEmptyText(parts))>>)

\* The texts before a call are put out before it.
AssistantToResponses(e) ==
  LET flush(st) == [items |-> st.items \o If(st.texts # <<>>, <<Turn("assistant", st.texts)>>), texts |-> <<>>]
      step(st, a) == CASE a.is = "call" -> [flush(st) EXCEPT !.items = Append(@, Turn("function_call", <<a>>))]
                       [] OTHER -> [st EXCEPT !.texts = @ \o Joined(<<a>>)]
  IN  flush(FoldLeft(step, [items |-> <<>>, texts |-> <<>>], e.has)).items

AnthropicToResponsesRequest(r) ==
  LET items == Each(LAMBDA e : IF e.as = "assistant" THEN AssistantToResponses(e) ELSE UserToResponses(e), r.turns)
  IN  [proto |-> Responses, sys |-> AnthropicSystemToText(r.sys),
       turns |-> IF items = <<>> THEN <<Turn("user", <<Text("")>>)>> ELSE items,
       tools |-> r.tools, choice |-> ChoiceFromAnthropic(r.choice, "function"),
       effort |-> Effort(r.effort)]

-----------------------------------------------------------------------------
(* Requests from a Chat client.                                            *)

ChoiceToAnthropic(c) == CASE c = "required" -> "any" [] c = "function" -> "tool"
                          [] c \in {"unset", "none"} -> c [] OTHER -> "auto"
Budget(effort) == CASE effort = <<>> -> <<>> [] effort = <<"low">> -> <<1024>>
                    [] effort = <<"high">> -> <<32000>> [] OTHER -> <<8192>>

\* mutant: the turns are left as they come.
MergeConsecutive_Apart(turns) == turns

\* Parallel results and turns of one role become one turn.
MergeConsecutive(turns) ==
  LET add(out, e) == IF out # <<>> /\ Last(out).as = e.as
                     THEN [out EXCEPT ![Len(out)].has = @ \o e.has] ELSE Append(out, e)
  IN  FoldLeft(add, <<>>, turns)

ChatToAnthropicTurn(e) ==
  LET blocks == OrEmptyText(Only({"text", "image"}, e.has))
  IN  CASE e.as = "user" -> <<Turn("user", blocks)>>
        [] e.as = "assistant" -> <<Turn("assistant", blocks \o Calls(e.has))>>
        [] e.as = "tool" -> <<Turn("user", e.has)>>
        [] OTHER -> <<>>

\* A tool without a name (a server tool) has no Anthropic form.
OpenAIToAnthropicRequest(r) ==
  [proto |-> Anthropic,
   sys |-> Each(LAMBDA e : If(e.as = "system", OrEmptyText(e.has)), r.turns),
   turns |-> MergeConsecutive(Each(ChatToAnthropicTurn, r.turns)),
   tools |-> r.tools \cap {"function"}, choice |-> ChoiceToAnthropic(r.choice), effort |-> Budget(r.effort)]

ChatToResponsesItems(e) ==
  LET items == If(Joined(e.has) # <<>>, <<Turn("assistant", Joined(e.has))>>)
               \o Each(LAMBDA a : <<Turn("function_call", <<a>>)>>, Calls(e.has))
  IN  CASE e.as = "system" -> <<>>
        [] e.as = "assistant" -> IF items = <<>> THEN <<Turn("assistant", <<>>)>> ELSE items
        [] e.as = "tool" -> <<Turn("function_call_output", e.has)>>
        [] OTHER -> <<Turn("user", Shown(e.has))>>

OpenAIChatToResponsesRequest(r) ==
  LET items == Each(ChatToResponsesItems, r.turns)
  IN  [proto |-> Responses,
       sys |-> Each(LAMBDA e : If(e.as = "system", Joined(e.has)), r.turns),
       turns |-> IF items = <<>> THEN <<Turn("user", <<>>)>> ELSE items,
       tools |-> r.tools, choice |-> r.choice, effort |-> r.effort]

-----------------------------------------------------------------------------
(* Requests from a Responses client.                                       *)

\* Adjacent calls are gathered into one assistant turn, which the first
\* output or message behind them closes; reasoning items are passed over.
ItemsToChat(items) ==
  LET flush(st) == [turns |-> st.turns \o If(st.calls # <<>>, <<Turn("assistant", st.calls)>>), calls |-> <<>>]
      add(st, e) == [flush(st) EXCEPT !.turns = Append(@, e)]
      step(st, e) ==
        CASE e.as = "function_call" -> [st EXCEPT !.calls = @ \o e.has]
          [] e.as = "function_call_output" -> add(st, Turn("tool", <<ToolOutput(e.has[1])>>))
          [] e.as = "reasoning" -> st
          [] e.as = "system" -> IF Joined(e.has) = <<>> THEN flush(st) ELSE add(st, Turn("system", Joined(e.has)))
          [] OTHER -> add(st, Turn(e.as, UserContent(e.has)))
  IN  flush(FoldLeft(step, [turns |-> <<>>, calls |-> <<>>], items)).turns

ResponsesToOpenAIChatRequest(r) ==
  LET turns == If(Joined(r.sys) # <<>>, <<Turn("system", Joined(r.sys))>>) \o ItemsToChat(r.turns)
  IN  [proto |-> Chat, sys |-> <<>>,
       turns |-> IF turns = <<>> THEN <<Turn("user", <<>>)>> ELSE turns,
       tools |-> r.tools \cap {"function"}, choice |-> r.choice, effort |-> r.effort]

\* Responses to Anthropic goes by way of Chat.
ConvertRequest(r, up) ==
  CASE r.proto = up -> r
    [] r.proto = Anthropic /\ up = Chat -> AnthropicToOpenAIRequest(r)
    [] r.proto = Anthropic /\ up = Responses -> AnthropicToResponsesRequest(r)
    [] r.proto = Chat /\ up = Anthropic -> OpenAIToAnthropicRequest(r)
    [] r.proto = Chat /\ up = Responses -> OpenAIChatToResponsesRequest(r)
    [] r.proto = Responses /\ up = Chat -> ResponsesToOpenAIChatRequest(r)
    [] OTHER -> OpenAIToAnthropicRequest(ResponsesToOpenAIChatRequest(r))

-----------------------------------------------------------------------------
(* Answers. An answer is its protocol, the turns it adds and why it ended. *)
(* A call id that carries an old "fc_" prefix is <<id, "fc">>.             *)

FromResponsesCallID(a) ==
  IF a.is = "call" /\ Len(a.v) = 2 THEN [a EXCEPT !.v = <<@[1]>>] ELSE a
StripIDs(s) == [i \in DOMAIN s |-> FromResponsesCallID(s[i])]

NoUsage == [input |-> 0, output |-> 0, read |-> 0, write |-> 0]

\* An answer sent as events is put together again: the object of the closing
\* event, else the items, of which the finished form replaces the announced.
ExtractResponsesObject(frames) ==
  LET closing == SelectSeq(frames, LAMBDA f : f.type = "closed")
      upsert(items, f) == IF \E i \in DOMAIN items : items[i].id = f.id
                          THEN [i \in DOMAIN items |-> IF items[i].id = f.id THEN f ELSE items[i]]
                          ELSE Append(items, f)
      items == FoldLeft(upsert, <<>>, SelectSeq(frames, LAMBDA f : f.type \in {"added", "done"}))
  IN  IF closing # <<>> THEN Last(closing).answer
      ELSE [proto |-> Responses, turns |-> [i \in DOMAIN items |-> items[i].item], end |-> "completed",
            usage |-> NoUsage]

\* Input is all of it in the OpenAI protocols and what no cache served in Anthropic's.
UsageToOpenAI(u) == [u EXCEPT !.input = u.input + u.read + u.write]
UsageToAnthropic(u) == [u EXCEPT !.input = IF u.read + u.write > u.input THEN 0 ELSE u.input - u.read - u.write]
NormalizeUsageBuckets(u, proto) == IF proto = Anthropic THEN u ELSE UsageToAnthropic(u)

MapStopReason(end) ==
  CASE end = "tool_use" -> "tool_calls" [] end = "max_tokens" -> "length" [] OTHER -> "stop"
MapFinishReason(end) ==
  CASE end = "tool_calls" -> "tool_use" [] end = "length" -> "max_tokens" [] OTHER -> "end_turn"

AnthropicToOpenAIResponse(a) ==
  [proto |-> Chat, turns |-> AssistantToChat(a.turns[1]), end |-> MapStopReason(a.end),
   usage |-> UsageToOpenAI(a.usage)]

OpenAIToAnthropicResponse(a) ==
  [proto |-> Anthropic, turns |-> <<Turn("assistant", OrEmptyText(a.turns[1].has))>>, end |-> MapFinishReason(a.end),
   usage |-> UsageToAnthropic(a.usage)]

\* A message item always, then the calls; the status is always "completed".
OpenAIChatToResponsesResponse(a) ==
  [proto |-> Responses,
   turns |-> <<Turn("assistant", Joined(a.turns[1].has))>>
             \o Each(LAMBDA c : <<Turn("function_call", <<c>>)>>, Calls(a.turns[1].has)),
   end |-> "completed", usage |-> a.usage]

\* The thoughts stand in for the text only when there is none.
ResponsesObjectToOpenAIChat(a) ==
  LET parts == StripIDs(Each(LAMBDA e : e.has, a.turns))
      thoughts == Only({"think"}, parts)
      text == IF Joined(parts) # <<>> THEN Joined(parts)
              ELSE [i \in DOMAIN thoughts |-> Text(thoughts[i].v)]
  IN  [proto |-> Chat, turns |-> <<Turn("assistant", text \o Calls(parts))>>,
       end |-> IF Calls(parts) # <<>> THEN "tool_calls" ELSE IF a.end = "incomplete" THEN "length" ELSE "stop",
       usage |-> a.usage]

ResponsesObjectToAnthropic(a) ==
  LET parts == StripIDs(Each(LAMBDA e : SelectSeq(e.has, LAMBDA x : x.is = "call" \/ x.v # ""), a.turns))
  IN  [proto |-> Anthropic, turns |-> <<Turn("assistant", OrEmptyText(parts))>>,
       end |-> IF Calls(parts) # <<>> THEN "tool_use" ELSE IF a.end = "incomplete" THEN "max_tokens" ELSE "end_turn",
       usage |-> UsageToAnthropic(a.usage)]

ConvertResponse(client, a) ==
  CASE client = a.proto -> a
    [] client = Chat /\ a.proto = Anthropic -> AnthropicToOpenAIResponse(a)
    [] client = Chat -> ResponsesObjectToOpenAIChat(a)
    [] client = Anthropic /\ a.proto = Chat -> OpenAIToAnthropicResponse(a)
    [] client = Anthropic -> ResponsesObjectToAnthropic(a)
    [] a.proto = Chat -> OpenAIChatToResponsesResponse(a)
    [] OTHER -> OpenAIChatToResponsesResponse(AnthropicToOpenAIResponse(a))
=============================================================================
