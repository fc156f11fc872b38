--------------------------- MODULE MCStreamForward ---------------------------
(***************************************************************************)
(* What a streaming client gets: the conversion of an upstream's events    *)
(* (StreamForward), on answers of at most two items, the gate that holds   *)
(* them back until the response rules have seen them (ResponseValidation), *)
(* and the stream that may have been opened before (StreamPreconnect).     *)
(* The gate and the writer below it take events as they come, so one of    *)
(* the three is followed, the others at rest.                              *)
(***************************************************************************)
EXTENDS StreamForward, ResponseValidation

A(k, n) == [k |-> k, len |-> n]

\* Text, reasoning and calls in every order a model may give them; text after
\* a call is left out: ChatToResponsesStream lists it before the call.
MCAnswers ==
    {<<>>, <<A("text", 2)>>, <<A("tool", 0)>>}
    \cup {<<A("text", 1), A(k, 1)>> : k \in {"text", "think"}}
    \cup {<<A("think", 1), A(k, 1)>> : k \in {"text", "tool"}}
    \cup {<<A("text", 1), A("tool", 2)>>, <<A("tool", 2), A("tool", 1)>>}

MCRoutes == {"AC", "CA", "RA", "RC", "AR", "CR", "AA", "CC", "RR"}

-----------------------------------------------------------------------------
Piece(event, type, text, meta, error, ends) ==
  [event |-> event, type |-> type, data |-> type # "comment", text |-> text, meta |-> meta,
   error |-> error, ends |-> ends]
Data(pieces) ==
  [kind |-> "data", pieces |-> pieces, declares |-> "none", positive |-> FALSE, terminal |-> FALSE]

Created == Piece("lifecycle", "lifecycle", <<>>, <<"x">>, <<>>, TRUE)
Delta(w) == Piece("none", "content", <<w>>, <<>>, <<>>, TRUE)
Half(w) == Piece("none", "content", <<w>>, <<>>, <<>>, FALSE)
Comment == [Piece("none", "none", <<>>, <<>>, <<>>, TRUE) EXCEPT !.data = FALSE]
Unnamed(w) == Piece("none", "none", <<w>>, <<>>, <<>>, TRUE)
ErrorFrame == Piece("terminal", "terminal", <<>>, <<>>, <<"x">>, TRUE)
Completed == Piece("terminal", "terminal", <<>>, <<>>, <<>>, TRUE)

Rule(id, priority, target, words, at) ==
  [id |-> id, priority |-> priority, enabled |-> TRUE, target |-> target,
   pattern |-> [words |-> words, at |-> at], protocols |-> {}, models |-> {}]

\* Text rules on a Responses stream: metadata that only raw_body sees, an
\* anchored rule, frames that end in a later Write, terminal frames.
ResponsesText ==
  [stream |-> TRUE, protocol |-> "openai_responses", model |-> "m", length |-> 4,
   rows |-> {Rule(1, 2, "assistant_text", <<"x">>, "any"), Rule(2, 1, "error_message", <<"x">>, "any"),
             Rule(3, 1, "raw_body", <<"y">>, "end"), [Rule(4, 0, "raw_body", <<"x">>, "any") EXCEPT !.enabled = FALSE]},
   events |-> {Data(<<Created>>), Data(<<Half("y")>>), Data(<<Delta("x")>>), Data(<<Delta("y"), Delta("z")>>),
               [Data(<<ErrorFrame>>) EXCEPT !.terminal = TRUE],
               [Data(<<ErrorFrame>>) EXCEPT !.kind = "failure", !.terminal = TRUE],
               [Data(<<Completed>>) EXCEPT !.terminal = TRUE]}]

\* Longer streams than the prefix and the ring, and frames that never end.
ResponsesLong ==
  [stream |-> TRUE, protocol |-> "openai_responses", model |-> "m", length |-> 5,
   rows |-> {Rule(1, 1, "assistant_text", <<"y", "x">>, "any"), Rule(2, 1, "assistant_text", <<"x">>, "any")},
   events |-> {Data(<<Created, Created>>), Data(<<Half("x"), Half("z")>>), Data(<<Half("y"), Half("y")>>),
               Data(<<Created, Delta("y")>>), Data(<<Delta("x")>>)}]

\* Chat clients: no frames to wait for, but comments; phrases cut by Writes;
\* a rule for another protocol, two of equal priority.
ChatText ==
  [stream |-> TRUE, protocol |-> "openai", model |-> "m", length |-> 5,
   rows |-> {Rule(1, 1, "assistant_text", <<"x", "y">>, "any"), Rule(2, 1, "raw_body", <<"x", "y">>, "any"),
             [Rule(3, 0, "raw_body", <<"x">>, "any") EXCEPT !.protocols = {"anthropic"}],
             [Rule(4, 0, "raw_body", <<"x">>, "any") EXCEPT !.models = {"other"}]},
   events |-> {Data(<<Comment>>), Data(<<Unnamed("x")>>), Data(<<Unnamed("y")>>)}]

\* Metadata: models declared, and changed, in mid-stream; usage at its end.
Metadata ==
  [stream |-> TRUE, protocol |-> "openai", model |-> "m", length |-> 5,
   rows |-> {Rule(1, 1, "response_model", <<"bad">>, "any"), Rule(2, 1, "zero_usage", <<>>, "any"),
             Rule(3, 1, "assistant_text", <<"x">>, "any")},
   events |-> {[Data(<<Unnamed("z")>>) EXCEPT !.declares = "m"], [Data(<<Unnamed("z")>>) EXCEPT !.declares = "bad"],
               [Data(<<Unnamed("x")>>) EXCEPT !.positive = TRUE],
               [Data(<<Unnamed("z")>>) EXCEPT !.terminal = TRUE]}]

\* The same rules on answers that do not stream.
WholeAnswer ==
  [Metadata EXCEPT !.stream = FALSE, !.length = 0,
     !.events = {[Data(<<Unnamed(w)>>) EXCEPT !.declares = m, !.positive = p] :
                   w \in {"x", "z"}, m \in {"m", "bad"}, p \in BOOLEAN}]

MCGateScenarios == {ResponsesText, ResponsesLong, ChatText, Metadata, WholeAnswer}

VARIABLES mode, writer, adapter, opened, handler, ticker, peer, live, booked, received, replay
VARIABLE followed  \* "events", "gate" or "opening"

Opening == INSTANCE StreamPreconnect WITH Modes <- {"comments", "responses", "multihop", "chat"},
             MaxItems <- 2, RewritesInPlace <- FALSE,
             upstream <- opened, timer <- ticker, client <- received

openingOf == <<mode, writer, adapter, opened, handler, ticker, peer, live, booked, received, replay>>
allVars == <<vars, gateVars, openingOf, followed>>

\* A request that is answered without streaming; one on some route.
GateAtRest == GateInit /\ case = WholeAnswer
EventsAtRest == Init /\ route = "CC" /\ plan = CHOOSE p \in LegalPlans(Up) : TRUE

OpeningAtRest == Opening!PreconnectInit /\ mode = "comments"

StreamsInit ==
  \/ followed = "events" /\ Init /\ GateAtRest /\ OpeningAtRest
  \/ followed = "gate" /\ EventsAtRest /\ GateInit /\ OpeningAtRest
  \/ followed = "opening" /\ EventsAtRest /\ GateAtRest /\ Opening!PreconnectInit
StreamsNext ==
  \/ followed = "events" /\ Next /\ UNCHANGED <<gateVars, openingOf, followed>>
  \/ followed = "gate" /\ GateNext /\ UNCHANGED <<vars, openingOf, followed>>
  \/ followed = "opening" /\ Opening!PreconnectNext /\ UNCHANGED <<vars, gateVars, followed>>

StreamsSpec == StreamsInit /\ [][StreamsNext]_allVars

\* What the timer began is one response (StreamPreconnect).
OneResponse == Opening!OneResponse
\* The end the client sees is the one on record (StreamPreconnect).
EndIsRecorded == Opening!EndIsRecorded
=============================================================================
