-------------------------- MODULE MCForwardRequest --------------------------
(***************************************************************************)
(* ForwardRequest with three routes: a cheap one, a dearer one, a reserve; *)
(* the launch plan of a request that the coordinator forwards instead      *)
(* (AttemptPlan); and the bodies that requests and answers become on their *)
(* way (Conversation).  One of them is followed, the others are at rest.   *)
(***************************************************************************)
EXTENDS ForwardRequest, AttemptPlan

CONSTANTS cheap, dear, reserve, q1, q2, q3

MCRoutes == {cheap, dear, reserve}
MCReserve == {reserve}
MCPrice == [r \in MCRoutes |-> IF r = cheap THEN 1 ELSE 2]
MCRequests == {q1, q2, q3}
OneSession == [q \in MCRequests |-> "conversation"]
\* q2 repeats the request id of q1.
MCRetryKey == [q \in MCRequests |-> IF q = q3 THEN "second id" ELSE "id"]
MCPauses == {0, 2}

Policy(count, failovers, ceiling, late, adaptive) ==
  [retry |-> TRUE, count |-> count, failover |-> failovers > 0, fmax |-> failovers,
   attempts |-> ceiling, pause |-> 2, late |-> late, adaptive |-> adaptive, armed |-> adaptive]

Retrying == Policy(1, 1, 0, TRUE, FALSE)
Adaptive == Policy(0, 2, 2, FALSE, TRUE)  \* two failovers, a limit of attempts
Limiting == Policy(2, 0, 2, TRUE, FALSE)  \* more retries than attempts
Thrifty == Policy(0, 1, 0, FALSE, TRUE)
Single == Policy(0, 0, 0, TRUE, FALSE)
Off == [Retrying EXCEPT !.retry = FALSE]
MCPolicies == {Retrying, Adaptive, Limiting, Thrifty, Single, Off}

\* One request and one event; two requests of a conversation whose route is
\* paused, under two policies, and when everything is paused; three of them.
MCScenarios ==
  {[requests |-> {q1}, groups |-> {Retrying, Adaptive, Limiting, Off}, paused |-> {cheap}, bound |-> MCRoutes, events |-> 1],
   [requests |-> {q1, q2}, groups |-> {Retrying, Thrifty}, paused |-> {cheap}, bound |-> {cheap}, events |-> 0],
   [requests |-> {q1, q2}, groups |-> {Single}, paused |-> MCRoutes, bound |-> {cheap}, events |-> 0],
   [requests |-> {q1, q2, q3}, groups |-> {Single}, paused |-> {cheap}, bound |-> {cheap}, events |-> 0]}

-----------------------------------------------------------------------------
Transport == {"retryable", "fixed"}
Rules == {"rejected", "declared", "audit"}
Every == {"ok", "caller", "config", "queue", "matched", "policy"} \cup Transport \cup Rules

Coordinated(hedge, failovers, retries, responses, limit, recovery, answers) ==
  [hedge |-> hedge, hedgeMax |-> 4, parallel |-> 2, validation |-> TRUE,
   retry |-> TRUE, failover |-> failovers > 0, failoverMax |-> failovers,
   retries |-> retries, responseRetries |-> responses, limit |-> limit,
   recovery |-> recovery, answers |-> answers]

\* A hedged request with retries that only a rejection opens; one source at a
\* time, with retries of both kinds, with a limit, with a recovery probe; three
\* tries of two sources; one source with a longer ladder, alone and hedged;
\* failover over three sources; no rules.
MCPlans ==
  {[group |-> Coordinated(TRUE, f, 0, 2, 0, FALSE, {"ok", "config", "declared", "rejected"} \cup Transport), routes |-> 2] : f \in {0, 1}}
  \cup {[group |-> Coordinated(FALSE, 0, r, rr, l, p, Every), routes |-> 2] :
          r \in {0, 1}, rr \in {-1, 1}, l \in {0, 3}, p \in BOOLEAN}
  \cup {[group |-> Coordinated(FALSE, 0, r, 2, 0, FALSE, {"ok", "rejected", "retryable"}), routes |-> 2] : r \in {0, 2}}
  \cup {[group |-> Coordinated(FALSE, 0, 1, 3, 0, FALSE, Rules \cup Transport), routes |-> 1],
         [group |-> Coordinated(TRUE, 1, 0, 3, 0, FALSE, Rules \cup Transport), routes |-> 1],
         [group |-> Coordinated(TRUE, 2, 1, -1, 0, TRUE, Rules \cup Transport), routes |-> 3],
         [group |-> [Coordinated(TRUE, 1, 1, 1, 0, FALSE, Transport) EXCEPT !.validation = FALSE], routes |-> 2]}

VARIABLES client, body, phase, asked, raw, told, spoken, left
VARIABLE followed  \* "request", "plan" or "conversation"

\* Three answers and one failover, on two openings.
Openings == {[tools |-> {"function", "web_search"}, choice |-> "required", effort |-> <<"low">>],
             [tools |-> {"function"}, choice |-> "function", effort |-> <<>>]}
Reply(parts, count, fc, cut) == [parts |-> parts, calls |-> count, fc |-> fc, cut |-> cut]
Replies == {Reply({"text"}, 0, FALSE, TRUE), Reply({"think"}, 0, FALSE, FALSE), Reply({"text"}, 1, TRUE, FALSE),
            Reply({"think", "text"}, 2, FALSE, FALSE), Reply({}, 2, TRUE, FALSE)}

Talk == INSTANCE Conversation WITH
  Clients <- {"openai_chat", "openai_responses", "anthropic"}, Exchanges <- 2, Failures <- 1,
  Says <- {{"text"}, {"text", "image"}}, Notes <- BOOLEAN

talkOf == <<client, body, phase, asked, raw, told, spoken, left>>

\* A request with one source and an outcome; one that has not begun.
PlanAtRest ==
  /\ policy = Coordinated(FALSE, 0, 1, 3, 0, FALSE, Rules \cup Transport)
  /\ entries = buildCoordinatedRoutePlan(policy, 1)
  /\ budget = <<NoBudget>> /\ started = 0 /\ attempts = <<>>
  /\ excluded = {} /\ suppressed = {} /\ claimed = 0 /\ outcome = "failed"
\* A conversation that has not begun.
TalkAtRest ==
  Talk!Init /\ client = "openai_chat" /\ body.choice = "required"
RequestAtRest == Init /\ group = Off /\ \A s \in Sessions : entry[s].route = cheap

ForwardInit ==
  \/ followed = "request" /\ Init /\ PlanAtRest /\ TalkAtRest
  \/ followed = "plan" /\ RequestAtRest /\ PlanInit /\ TalkAtRest
  \/ followed = "conversation" /\ RequestAtRest /\ PlanAtRest /\ Talk!Init
ForwardNext ==
  \/ followed = "request" /\ Next /\ UNCHANGED <<planVars, talkOf, followed>>
  \/ followed = "plan" /\ PlanNext /\ UNCHANGED <<vars, talkOf, followed>>
  \/ followed = "conversation" /\ Talk!Next /\ UNCHANGED <<vars, planVars, followed>>
ForwardSpec == ForwardInit /\ [][ForwardNext]_<<vars, planVars, talkOf, followed>>

\* Conversions keep what was asked and what was answered (Conversation).
ConversationKept == Talk!RequestKept /\ Talk!AnswerKept
\* Results follow their calls as each protocol wants them (Conversation).
ResultsFollowCalls == Talk!ResultsFollowCalls
=============================================================================
