----------------------------- MODULE RulesCache -----------------------------
(***************************************************************************)
(* The compiled response rules of a gateway group                          *)
(* (backend/gateway/response_validation_cache.go and                       *)
(* runtime_response_validation.go) and the handlers that change the rules  *)
(* (backend/api/gateway_admin.go): a request that finds no rules cached    *)
(* reads them, compiles them and stores what it compiled; a handler        *)
(* commits and then drops the entry.  Unlike the other caches this one has *)
(* neither a generation nor an age.                                        *)
(*                                                                         *)
(* The rules are their version.                                            *)
(***************************************************************************)
EXTENDS Integers

CONSTANTS Clients, MaxRules  \* bound: versions of the rules

VARIABLES
  rules,      \* the enabled rules in the database
  announced,  \* history: what they were at the last invalidation
  compiled,   \* the entry: [there, version, late]
  clients     \* the requests: [pc, version, late]

rulesVars == <<rules, announced, compiled, clients>>

NoRules == [there |-> FALSE, version |-> 0, late |-> FALSE]
Outside == [pc |-> "away", version |-> 0, late |-> FALSE]

RulesInit ==
  /\ rules = 1 /\ announced = 1 /\ compiled = NoRules
  /\ clients = [r \in Clients |-> Outside]

\* responseValidatorForGroup: the cached rules, or the query.  A query or a
\* compilation that fails leaves everything as it was.
Validate(r) ==
  /\ clients[r].pc = "away"
  /\ clients' = [clients EXCEPT ![r] =
       IF compiled.there THEN [Outside EXCEPT !.pc = "using", !.version = compiled.version]
       ELSE [Outside EXCEPT !.pc = "compiling", !.version = rules]]
  /\ UNCHANGED <<rules, announced, compiled>>

\* cacheResponseValidator
Compile(r) ==
  /\ clients[r].pc = "compiling"
  /\ compiled' = [there |-> TRUE, version |-> clients[r].version, late |-> clients[r].late]
  /\ clients' = [clients EXCEPT ![r].pc = "using", ![r].late = FALSE]
  /\ UNCHANGED <<rules, announced>>

\* The request is over, or failed to read the rules.
Close(r) ==
  /\ clients[r].pc # "away"
  /\ clients' = [clients EXCEPT ![r] = Outside]
  /\ UNCHANGED <<rules, announced, compiled>>

\* A handler has committed a rule created, changed or deleted, or an import.
\* The operator's edits follow one another.
EditRules ==
  /\ rules < MaxRules /\ announced = rules
  /\ rules' = rules + 1
  /\ UNCHANGED <<announced, compiled, clients>>

\* What InvalidateResponseValidator leaves.
Dropped == NoRules

\* The handler's next statement.  Whoever has read the rules is late.
Announce ==
  /\ announced < rules
  /\ announced' = rules /\ compiled' = Dropped
  /\ clients' = [r \in Clients |-> [clients[r] EXCEPT !.late = (clients[r].pc = "compiling")]]
  /\ UNCHANGED rules

RulesNext ==
  \/ \E r \in Clients : Validate(r) \/ Compile(r) \/ Close(r)
  \/ EditRules \/ Announce

RulesSpec == RulesInit /\ [][RulesNext]_rulesVars

-----------------------------------------------------------------------------
\* After an edit no older rules are cached - unless a request that had read
\* them before it stored them afterwards.
RulesAreCurrent == compiled.there /\ ~compiled.late => compiled.version >= announced

\* "Rule changes are handled by explicit invalidation": the rules that the
\* cache holds are those of the last edit that was announced, or later ones.
EditsTakeEffect == compiled.there => compiled.version >= announced
=============================================================================
