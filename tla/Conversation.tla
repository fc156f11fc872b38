----------------------------- MODULE Conversation -----------------------------
(***************************************************************************)
(* A client that keeps one conversation in its own protocol and sends all  *)
(* of it with every request. The gateway routes every request, and every   *)
(* failover of it, to an upstream of any protocol: it converts the request *)
(* (prepareUpstreamRequest) and converts the answer back                   *)
(* (convertUpstreamResponse). The client then appends the answer it was    *)
(* shown, and the results of the calls in it, and goes on.                 *)
(*                                                                         *)
(* The upstream and the client are the environment. `spoken` is a history  *)
(* variable: what the user, the model and the tools have really said.      *)
(***************************************************************************)
EXTENDS ProtocolConvert

CONSTANTS Clients,   \* the protocols of the client
          Exchanges, \* bound: answers in a conversation
          Failures,  \* bound: failed attempts in a conversation
          Openings,  \* the tools, choice and effort of the first request, in Chat's words
          Says,      \* what a user turn may hold: sets of "text", "image"
          Replies,   \* what an upstream may answer: [parts, calls, end]
          Notes      \* the text beside the results in one turn: subset of BOOLEAN

VARIABLES client, \* the client's protocol
          body,   \* the conversation as the client sends it
          phase,  \* "user", "ready", "sent" or "told"
          asked,  \* the request the upstream was sent last
          raw,    \* its answer
          told,   \* the answer as the client sees it
          spoken, \* history: every part of the conversation, in order
          left    \* the answers and failures still allowed

vars == <<client, body, phase, asked, raw, told, spoken, left>>

Nothing == [proto |-> "none"]
Flat(turns) == FlattenSeq([i \in DOMAIN turns |-> turns[i].has])
Name(prefix) == prefix \o ToString(left.answers)

\* The client's own words for the options of a request.
InWords(proto, o) ==
  IF proto = Anthropic THEN [tools |-> o.tools, choice |-> ChoiceToAnthropic(o.choice), effort |-> Budget(o.effort)]
  ELSE [tools |-> o.tools, choice |-> o.choice, effort |-> o.effort]

Init ==
  /\ client \in Clients
  /\ \E o \in Openings : LET w == InWords(client, o) IN
       body = [proto |-> client, sys |-> IF client = Chat THEN <<>> ELSE <<Text("rules")>>,
               turns |-> IF client = Chat THEN <<Turn("system", <<Text("rules")>>)>> ELSE <<>>,
               tools |-> w.tools, choice |-> w.choice, effort |-> w.effort]
  /\ phase = "user" /\ asked = Nothing /\ raw = Nothing /\ told = Nothing /\ spoken = <<>>
  /\ left = [answers |-> Exchanges, failures |-> Failures]

\* The user's turn: text, an image, or both.
UserSays(kinds) ==
  LET parts == If("image" \in kinds, <<Part("image", Name("i"))>>) \o If("text" \in kinds, <<Text(Name("u"))>>)
  IN  /\ phase = "user" /\ left.answers > 0
      /\ body' = [body EXCEPT !.turns = Append(@, Turn("user", parts))]
      /\ spoken' = spoken \o parts
      /\ phase' = "ready"
      /\ UNCHANGED <<client, asked, raw, told, left>>

\* The route's protocol decides the form of the request.
SendTo(up) ==
  /\ phase = "ready"
  /\ asked' = ConvertRequest(body, up)
  /\ phase' = "sent"
  /\ UNCHANGED <<client, body, raw, told, spoken, left>>

\* A failed attempt: the next one is prepared from the client's body again.
Fails ==
  /\ phase = "sent" /\ left.failures > 0
  /\ phase' = "ready"
  /\ left' = [left EXCEPT !.failures = @ - 1]
  /\ UNCHANGED <<client, body, asked, raw, told, spoken>>

\* An upstream's answer in its own protocol; with "fc" its call ids carry the prefix.
Answer(up, r) ==
  LET parts == If("think" \in r.parts /\ up # Chat, <<Part("think", Name("k"))>>)
               \o If("text" \in r.parts, <<Text(Name("a"))>>)
               \o [i \in 1..r.calls |-> Part("call", <<Name("c") \o ToString(i)>> \o If(r.fc /\ up = Responses, <<"fc">>))]
      item(a) == Turn(CASE a.is = "text" -> "assistant" [] a.is = "call" -> "function_call" [] OTHER -> "reasoning", <<a>>)
      truncated == r.calls = 0 /\ r.cut
  IN  [proto |-> up,
       turns |-> IF up = Responses THEN [i \in DOMAIN parts |-> item(parts[i])]
                 ELSE IF up = Chat THEN <<Turn("assistant", parts)>> ELSE <<Turn("assistant", OrEmptyText(parts))>>,
       end |-> CASE up = Responses -> IF truncated THEN "incomplete" ELSE "completed"
                 [] up = Chat -> IF truncated THEN "length" ELSE IF r.calls > 0 THEN "tool_calls" ELSE "stop"
                 [] OTHER -> IF truncated THEN "max_tokens" ELSE IF r.calls > 0 THEN "tool_use" ELSE "end_turn",
       usage |-> [input |-> IF up = Anthropic THEN 5 ELSE 10, output |-> 1, read |-> 3, write |-> 2]]

\* The same answer as events: every item announced (a call by its id, a text
\* empty) and then finished; the closing event may come without the object.
Frames(a, closes) ==
  [i \in DOMAIN a.turns |-> [type |-> "added", id |-> i, item |-> [a.turns[i] EXCEPT !.has = Calls(@)]]]
  \o [i \in DOMAIN a.turns |-> [type |-> "done", id |-> i, item |-> a.turns[i]]]
  \o If(closes, <<[type |-> "closed", answer |-> a]>>)

\* The answer arrives and is converted. An upstream may send events unasked; an
\* object that arrives whole is its own closing event.
Answered(r, whole) ==
  LET a == Answer(asked.proto, r)
      received == IF a.proto = Responses /\ client # Responses
                  THEN ExtractResponsesObject(Frames(a, whole)) ELSE a
  IN  /\ phase = "sent" /\ left.answers > 0
      /\ ~whole => /\ asked.proto = Responses /\ client # Responses /\ a.end = "completed" /\ a.turns # <<>>
      /\ raw' = a
      /\ told' = ConvertResponse(client, received)
      /\ spoken' = spoken \o Flat(a.turns)
      /\ phase' = "told"
      /\ left' = [left EXCEPT !.answers = @ - 1]
      /\ UNCHANGED <<client, body, asked>>

\* The client appends what it was shown and the results of its calls, as its
\* protocol has them; an Anthropic client may say something in the same turn.
GoesOn(note, picture) ==
  LET calls == Calls(Flat(told.turns))
      results == [i \in DOMAIN calls |-> Result(calls[i].v, If(picture, <<Part("image", Name("p"))>>))]
      words == If(note, <<Text(Name("n"))>>)
      replies == CASE client = Anthropic -> <<Turn("user", results \o words)>>
                   [] client = Chat -> [i \in DOMAIN results |-> Turn("tool", <<results[i]>>)]
                   [] OTHER -> [i \in DOMAIN results |-> Turn("function_call_output", <<results[i]>>)]
                               \o If(note, <<Turn("user", words)>>)
  IN  /\ phase = "told"
      /\ (note \/ picture) => calls # <<>> /\ client # Chat
      /\ body' = [body EXCEPT !.turns = @ \o told.turns \o If(calls # <<>>, replies)]
      /\ spoken' = spoken \o If(calls # <<>>, results \o words)
      /\ phase' = IF calls # <<>> THEN "ready" ELSE "user"
      /\ UNCHANGED <<client, asked, raw, told, left>>

Next ==
  \/ \E kinds \in Says : UserSays(kinds)
  \/ \E up \in Protocols : SendTo(up)
  \/ Fails
  \/ \E r \in Replies, whole \in BOOLEAN : Answered(r, whole)
  \/ \E note \in Notes, picture \in BOOLEAN : GoesOn(note, picture)

Spec == Init /\ [][Next]_vars

-----------------------------------------------------------------------------
Sent == phase = "sent"
Ids(s) == [i \in DOMAIN s |-> s[i].v[1]]
Values(s) == [i \in DOMAIN s |-> s[i].v]
Told(kinds) == Only(kinds, Flat(told.turns))

\* The system text wherever the protocol keeps it.
SystemText(r) == IF r.proto = Chat THEN Flat(SelectSeq(r.turns, LAMBDA e : e.as = "system")) ELSE r.sys
\* What the choice of tools asks for, whatever its word.
Demand(c) == CASE c = "any" -> "required" [] c = "tool" -> "function" [] OTHER -> c

\* In every request an upstream is sent, whatever protocols the earlier answers
\* came from: the system text, every text the user, the model and the tools said,
\* every image of the user, every call and every result, each in its order; a
\* result still names its call, although ids lose their prefix on the way; the
\* same functions on offer, the same demand on their use, reasoning asked for alike.
RequestKept ==
  Sent =>
    LET got == Flat(SelectSeq(asked.turns, LAMBDA e : e.as # "system"))
        said == {a.v : a \in ToSet(Joined(spoken))}
    IN  /\ Values(SystemText(asked)) = <<"rules">>
        /\ SelectSeq(Joined(got), LAMBDA a : a.v \in said) = Joined(spoken)
        /\ Only({"image"}, spoken) = SelectSeq(Only({"image"}, got), LAMBDA a : a \in ToSet(spoken))
        /\ \A kind \in {"call", "result"} : Ids(Only({kind}, got)) = Ids(Only({kind}, spoken))
        /\ ToSet(Values(Only({"result"}, got))) \subseteq ToSet(Values(Calls(got)))
        /\ "function" \in asked.tools <=> "function" \in body.tools
        /\ Demand(asked.choice) = Demand(body.choice)
        /\ asked.effort = <<>> <=> body.effort = <<>>

\* The rules of the upstream's protocol on the place of results. Chat: a turn with
\* calls is followed at once by one result for each. Anthropic: user and assistant
\* alternate, and the results of all calls open the next turn. Responses: only
\* calls and outputs stand between a call and its output. One case is left out,
\* the turn of an Anthropic client that holds results and text: its text goes to
\* a Chat upstream before the results (README, section 5).
ResultsFollowCalls ==
  LET t == asked.turns
      noted(i) == client = Anthropic /\ i + 1 \in DOMAIN t /\ t[i + 1].as = "user"
      answers(i) == Ids(Calls(t[i].has))
  IN  Sent =>
        /\ asked.proto = Chat => \A i \in DOMAIN t : LET from == IF noted(i) THEN i + 1 ELSE i IN
             answers(i) # <<>> =>
               /\ from + Len(answers(i)) <= Len(t)
               /\ \A k \in DOMAIN answers(i) : t[from + k].as = "tool" /\ t[from + k].has[1].v[1] = answers(i)[k]
        /\ asked.proto = Anthropic => \A i \in DOMAIN t :
             /\ t[i].as = IF i % 2 = 1 THEN "user" ELSE "assistant"
             /\ answers(i) # <<>> => /\ i < Len(t) /\ Len(t[i + 1].has) >= Len(answers(i))
                                     /\ Ids(SubSeq(t[i + 1].has, 1, Len(answers(i)))) = answers(i)
        /\ asked.proto = Responses => \A i \in DOMAIN t : t[i].as = "function_call" =>
             \E j \in i + 1 .. Len(t) : /\ t[j].as = "function_call_output" /\ t[j].has[1].v = t[i].has[1].v
                                        /\ \A k \in i..j : t[k].as \in {"function_call", "function_call_output"}

\* The client is shown every text and every call of the answer, in order, is told
\* that tools are wanted exactly when there is a call and that the answer was cut
\* (a Responses client learns the latter only from a Responses upstream), and the
\* usage it reads falls into the buckets the gateway bills.
AnswerKept ==
  phase = "told" =>
    LET parts == Flat(raw.turns) IN
    /\ Joined(Told({"text"})) = Joined(parts) \/ (Joined(parts) = <<>> /\ Values(Joined(Told({"text"}))) = Values(Only({"think"}, parts)))
    /\ Ids(Told({"call"})) = Ids(Calls(parts))
    /\ client # Responses => told.end \in {"tool_calls", "tool_use"} <=> Calls(parts) # <<>>
    /\ (client # Responses \/ raw.proto = Responses) =>
         told.end \in {"length", "max_tokens", "incomplete"} <=> raw.end \in {"length", "max_tokens", "incomplete"}
    /\ NormalizeUsageBuckets(told.usage, client) \in {NormalizeUsageBuckets(raw.usage, raw.proto), NoUsage}
=============================================================================
