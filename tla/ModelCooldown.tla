--------------------------- MODULE ModelCooldown ---------------------------
(***************************************************************************)
(* One model cooldown of the gateway (backend/storage/                     *)
(* shared_model_cooldown.go, backend/gateway/model_cooldown_probe.go): the *)
(* row that takes a failing model out of scheduling, the requests that     *)
(* write and clear it, the workers and operators that probe it, and the    *)
(* settings page that arms and disarms the probes.                         *)
(*                                                                         *)
(* Times are countdowns: 0 is past or now, Null is SQL NULL, Tick is one   *)
(* unit.  A unit is long: no statement pair (read, then conditional write) *)
(* spans a Tick, but a request and a probe may span many.  The failure     *)
(* generation (temp_unschedulable_at and request id) is the request that   *)
(* recorded it.                                                            *)
(***************************************************************************)
EXTENDS Integers, FiniteSets

CONSTANTS
  Requests,         \* user requests, each served once (bound)
  Workers,          \* periodic workers, one per application instance
  Operators,        \* administrators who press "probe now"
  Pauses, Backoffs, \* lengths of a cooldown and of a retry delay
  Lease,            \* probe timeout + 30 s
  Lead,             \* the first probe comes this long before the expiry
  ClearStreak,      \* RouteRecoverSuccessClearStreak
  Scenarios         \* bounds, chosen together: the requests that come, the
                    \* failed probes and lost probers, the probes an operator
                    \* asks for and the times the settings are saved

ASSUME TimesSound ==
  /\ Pauses \subseteq Nat \ {0} /\ Backoffs \subseteq Nat \ {0}
  /\ Lease \in Nat \ {0} /\ Lead \in Nat /\ ClearStreak \in Nat \ {0}
  /\ Scenarios \subseteq [requests : SUBSET Requests, faults : Nat, asks : Nat, saves : Nat]

VARIABLES
  row,      \* the gateway_shared_model_cooldowns row
  req,      \* the requests
  prober,   \* the claims in the hands of workers and operators
  enabled,  \* ModelCooldownProbeEnabled
  config,   \* UpdateGatewayConfig between its statements
  used      \* what is used up of the bounds of the scenario

vars == <<row, req, prober, enabled, config, used>>

Null == -2  \* not a time, nor one unit short of one
NoGen == "no failure"
Nobody == "nobody"
Probers == Workers \cup Operators
ASSUME NamesApart == NoGen \notin Requests /\ Nobody \notin Probers

Time == {Null} \cup Nat
Generation == Requests \cup {NoGen}
Waiting == {"pending", "unhealthy", ""}  \* unhealthy: transient_failure, permanent_failure

Row == [gen : Generation, until : Time, next : Time, lease : Time,
        status : Waiting \cup {"absent", "probing", "manual", "healthy"},
        owner : Probers \cup {Nobody}, streak : Nat]

\* A request: of the row it was scheduled with, the failure, the pause it means
\* to clear and whether a success has anything to note; then the switch it read.
Request == [pc : {"new", "recovering", "running", "failing", "noting", "passed", "ended"},
            gen : Generation, until : Time, notes : BOOLEAN, armed : BOOLEAN]

\* A prober: the failure and pause it selected, its own copy of the lease, the
\* switch it read when its probe failed.
Prober == [pc : {"idle", "due", "asked", "probing", "judged"},
           gen : Generation, until : Time, lease : Time, armed : BOOLEAN]

Free(pc, gen) == [pc |-> pc, gen |-> gen, until |-> Null, notes |-> FALSE, armed |-> FALSE]
AtRest == [pc |-> "idle", gen |-> NoGen, until |-> Null, lease |-> Null, armed |-> FALSE]
NotSaving == [pc |-> "idle", until |-> Null, next |-> Null]
NoRow == [gen |-> NoGen, until |-> Null, next |-> Null, lease |-> Null,
          status |-> "absent", owner |-> Nobody, streak |-> 0]

-----------------------------------------------------------------------------
(* What the statements test and write. *)

Live(t) == t > 0

InFlight(c) == c.status = "probing" /\ Live(c.lease)

\* IsRouteSchedulableForModel: the part that reads the cooldown.
Blocked(c) ==
  \/ Live(c.until)
  \/ InFlight(c)
  \/ c.status \in Waiting /\ c.next = 0

\* Mutant: only a row that is still cooling is due.
DueWhileCooling(c) == Live(c.until) /\ c.next = 0 /\ c.status # "manual" /\ ~InFlight(c)

\* The WHERE clause of the periodic worker's SELECT.
Due(c) ==
  /\ c.until # Null
  /\ c.next = 0 \/ (c.next = Null /\ c.until <= Lead)
  /\ c.status # "manual" /\ ~InFlight(c)

\* modelCooldownInitialProbeAt
FirstProbe(until) == IF until < Lead THEN 0 ELSE until - Lead

\* Released by a success or by the recovery of last resort.
Released(c, status) ==
  [c EXCEPT !.until = Null, !.next = Null, !.lease = Null, !.owner = Nobody, !.status = status]

\* The upsert of a failure: a new generation, and whatever probe was under way is disowned.
FailedBy(r, pause, armed) ==
  [gen |-> r, until |-> pause, streak |-> 0, lease |-> Null, owner |-> Nobody,
   next |-> IF armed THEN FirstProbe(pause) ELSE Null,
   status |-> IF armed THEN "pending" ELSE "manual"]

\* The claim of p: the row is held out of scheduling until the lease ends.
ClaimedBy(p, c, hold) ==
  [c EXCEPT !.status = "probing", !.lease = Lease, !.owner = p,
            !.until = IF hold > Lease THEN hold ELSE Lease]

\* sharedModelCooldownClaimQuery: the row is still the one that p claimed.
Owns(p) == row.status = "probing" /\ row.owner = p /\ row.gen = prober[p].gen

\* configureSharedModelCooldownProbes, one row: skipped, or rewritten.
Skipped(c, on) ==
  \/ c.until = Null /\ c.next = Null /\ c.lease = Null /\ c.status # "probing"
  \/ ~on /\ (InFlight(c) \/ (c.status = "manual" /\ c.next = Null /\ c.lease = Null /\ c.owner = Nobody))
  \/ on /\ (c.status = "probing" \/ (c.status \notin {"", "manual", "healthy"} /\ c.next # Null))

Rearmed(c) == IF c.next # Null THEN c.next ELSE IF c.until # Null THEN FirstProbe(c.until) ELSE 0

-----------------------------------------------------------------------------
Init ==
  /\ row = NoRow
  /\ \E s \in Scenarios :
       /\ req = [r \in Requests |-> Free(IF r \in s.requests THEN "new" ELSE "ended", NoGen)]
       /\ used = [faults |-> 0, asks |-> 0, saves |-> 0, of |-> s]
  /\ prober = [p \in Probers |-> AtRest]
  /\ enabled = TRUE
  /\ config = NotSaving

Schedule(r, pc, c) ==
  req' = [req EXCEPT ![r] =
            [pc |-> pc, gen |-> c.gen, until |-> IF pc = "recovering" THEN c.until ELSE Null,
             notes |-> c.gen # NoGen \/ c.until # Null \/ c.streak > 0, armed |-> FALSE]]
Pass(r) == req' = [req EXCEPT ![r] = Free("passed", req[r].gen)]
Finish(r) == req' = [req EXCEPT ![r] = Free("ended", NoGen)]

Look(p, pc) == prober' = [prober EXCEPT ![p] = [AtRest EXCEPT !.pc = pc, !.gen = row.gen, !.until = row.until]]
Hold(p) == prober' = [prober EXCEPT ![p].pc = "probing", ![p].lease = Lease, ![p].until = Null]
Rest(p) == prober' = [prober EXCEPT ![p] = AtRest]

\* The scheduler picks the route for a request: it is free, or the request's
\* session may bypass the pause to reach its prompt cache again.
Begin(r) ==
  /\ req[r].pc = "new"
  /\ \/ ~Blocked(row) /\ Schedule(r, "running", row)
     \/ LET bypassed == [row EXCEPT !.until = Null]
        IN Live(row.until) /\ ~Blocked(bypassed) /\ Schedule(r, "running", bypassed)
  /\ UNCHANGED <<row, prober, enabled, config, used>>

\* Every route is restricted: this one is tried anyway, after its pause is cleared.
BeginRecovery(r) ==
  /\ req[r].pc = "new" /\ Blocked(row)
  /\ Schedule(r, IF Live(row.until) THEN "recovering" ELSE "running", row)
  /\ UNCHANGED <<row, prober, enabled, config, used>>

Recover(r) ==
  /\ req[r].pc = "recovering"
  /\ IF row.until = req[r].until /\ row.gen = req[r].gen
     THEN /\ row' = Released(row, "manual")
          /\ req' = [req EXCEPT ![r] = [@ EXCEPT !.pc = "running", !.until = Null, !.notes = req[r].gen # NoGen]]
     ELSE row' = row /\ Finish(r)
  /\ UNCHANGED <<prober, enabled, config, used>>

\* The first statement of the bookkeeping of a success, guarded by the
\* generation the request was scheduled with.
Succeed(r) ==
  /\ req[r].pc = "running"
  /\ IF /\ req[r].notes /\ row.status # "absent" /\ row.gen = req[r].gen
        /\ row.gen # NoGen \/ row.until # Null
     THEN /\ row' = [Released(row, "healthy") EXCEPT !.streak = @ + 1]
          /\ req' = [req EXCEPT ![r].pc = "noting"]
     ELSE row' = row /\ Pass(r)
  /\ UNCHANGED <<prober, enabled, config, used>>

\* The second one: enough successes in a row wipe the diagnostics.
WipeAfterStreak(r) ==
  /\ req[r].pc = "noting"
  /\ row' = IF row.streak >= ClearStreak THEN [NoRow EXCEPT !.status = ""] ELSE row
  /\ Pass(r)
  /\ UNCHANGED <<prober, enabled, config, used>>

\* The last retry failed; the switch is read now and the row is written later.
\* Not every endpoint can be probed.
Fail(r) ==
  /\ req[r].pc = "running"
  /\ \E probeable \in BOOLEAN :
       req' = [req EXCEPT ![r] = [@ EXCEPT !.pc = "failing", !.armed = enabled /\ probeable]]
  /\ UNCHANGED <<row, prober, enabled, config, used>>

RecordFailure(r) ==
  /\ req[r].pc = "failing"
  /\ \E pause \in Pauses : row' = FailedBy(r, pause, req[r].armed)
  /\ Finish(r)
  /\ UNCHANGED <<prober, enabled, config, used>>

\* The client left, or the failure is one that does not pause a route.
Leave(r) ==
  /\ req[r].pc = "running"
  /\ Finish(r)
  /\ UNCHANGED <<row, prober, enabled, config, used>>

-----------------------------------------------------------------------------
(* Probes. *)

SelectDue(w) ==
  /\ prober[w].pc = "idle" /\ enabled /\ Due(row)
  /\ Look(w, "due")
  /\ UNCHANGED <<row, req, enabled, config, used>>

\* The conditional UPDATE of the periodic worker.
ClaimDue(w) ==
  /\ prober[w].pc = "due"
  /\ IF Due(row) /\ row.until = prober[w].until /\ row.gen = prober[w].gen
     THEN row' = ClaimedBy(w, row, prober[w].until) /\ Hold(w)
     ELSE row' = row /\ Rest(w)
  /\ UNCHANGED <<req, enabled, config, used>>

SelectAny(o) ==
  /\ prober[o].pc = "idle" /\ row.status # "absent" /\ used.asks < used.of.asks
  /\ Look(o, "asked") /\ used' = [used EXCEPT !.asks = @ + 1]
  /\ UNCHANGED <<row, req, enabled, config>>

\* The UPDATE of "probe now" tests nothing but the lease.
ClaimNow(o) ==
  /\ prober[o].pc = "asked"
  /\ IF InFlight(row)
     THEN row' = row /\ Rest(o)
     ELSE /\ row' = [ClaimedBy(o, row, prober[o].until) EXCEPT !.next = 0]
          /\ Hold(o)
  /\ UNCHANGED <<req, enabled, config, used>>

ProbeSucceeds(p) ==
  /\ prober[p].pc = "probing"
  /\ row' = IF Owns(p) THEN Released(row, "healthy") ELSE row
  /\ Rest(p)
  /\ UNCHANGED <<req, enabled, config, used>>

\* The probe failed; the switch is read now and the row is written later.
ProbeFails(p) ==
  /\ prober[p].pc = "probing" /\ used.faults < used.of.faults
  /\ prober' = [prober EXCEPT ![p].pc = "judged", ![p].armed = enabled]
  /\ used' = [used EXCEPT !.faults = @ + 1]
  /\ UNCHANGED <<row, req, enabled, config>>

RecordProbeFailure(p) ==
  /\ prober[p].pc = "judged"
  /\ \/ ~Owns(p) /\ row' = row
     \/ /\ Owns(p) /\ prober[p].armed
        /\ \E backoff \in Backoffs :
             row' = [row EXCEPT !.until = backoff, !.next = backoff, !.lease = Null,
                                !.owner = Nobody, !.status = "unhealthy"]
     \/ /\ Owns(p) /\ ~prober[p].armed
        /\ row' = [row EXCEPT !.next = Null, !.lease = Null, !.owner = Nobody, !.status = "manual"]
  /\ Rest(p)
  /\ UNCHANGED <<req, enabled, config, used>>

\* The process of a prober stops; its claim stays in the row.
LoseProber(p) ==
  /\ prober[p].pc # "idle" /\ used.faults < used.of.faults
  /\ Rest(p) /\ used' = [used EXCEPT !.faults = @ + 1]
  /\ UNCHANGED <<row, req, enabled, config>>

-----------------------------------------------------------------------------
(* The management plane, and time. *)

\* An administrator clears the route's pauses.
ClearTempUnschedulable ==
  /\ row.status # "absent"
  /\ row' = [NoRow EXCEPT !.status = "manual"]
  /\ UNCHANGED <<req, prober, enabled, config, used>>

\* The settings are saved: the switch first, then the rows that need it.
UpdateGatewayConfig(on) ==
  /\ config.pc = "idle" /\ used.saves < used.of.saves
  /\ enabled' = on /\ used' = [used EXCEPT !.saves = @ + 1]
  /\ config' = [config EXCEPT !.pc = "saved"]
  /\ UNCHANGED <<row, req, prober>>

SelectRows ==
  /\ config.pc = "saved"
  /\ config' = IF row.status = "absent" \/ Skipped(row, enabled)
               THEN NotSaving ELSE [pc |-> "selected", until |-> row.until, next |-> row.next]
  /\ UNCHANGED <<row, req, prober, enabled, used>>

\* Mutant: a probe claimed after the SELECT loses its lease.
ConfigureRowBlindly ==
  /\ config.pc = "selected"
  /\ row' = IF enabled THEN [row EXCEPT !.next = Rearmed(config), !.status = "pending"]
            ELSE [row EXCEPT !.next = Null, !.lease = Null, !.owner = Nobody, !.status = "manual"]
  /\ config' = NotSaving
  /\ UNCHANGED <<req, prober, enabled, used>>

ConfigureRow ==
  /\ config.pc = "selected"
  /\ row' = IF InFlight(row) \/ (enabled /\ row.status = "probing") THEN row
            ELSE IF enabled THEN [row EXCEPT !.next = Rearmed(config), !.status = "pending"]
            ELSE [row EXCEPT !.next = Null, !.lease = Null, !.owner = Nobody, !.status = "manual"]
  /\ config' = NotSaving
  /\ UNCHANGED <<req, prober, enabled, used>>

Aged(t) == IF Live(t) THEN t - 1 ELSE t

\* One unit of time; nobody is between two statements.
Quiet ==
  /\ \A r \in Requests : req[r].pc \notin {"recovering", "failing", "noting"}
  /\ \A p \in Probers : prober[p].pc \in {"idle", "probing"}
  /\ config.pc = "idle"

Tick ==
  /\ Quiet
  /\ Live(row.until) \/ Live(row.next) \/ Live(row.lease)
  /\ row' = [row EXCEPT !.until = Aged(@), !.next = Aged(@), !.lease = Aged(@)]
  /\ prober' = [p \in Probers |-> [prober[p] EXCEPT !.lease = Aged(@)]]
  /\ UNCHANGED <<req, enabled, config, used>>

-----------------------------------------------------------------------------
RequestStep(r) ==
  \/ Begin(r) \/ BeginRecovery(r) \/ Recover(r) \/ Succeed(r) \/ WipeAfterStreak(r)
  \/ Fail(r) \/ RecordFailure(r) \/ Leave(r)

ProbeStep(p) == ProbeSucceeds(p) \/ ProbeFails(p) \/ RecordProbeFailure(p) \/ LoseProber(p)

Next ==
  \/ \E r \in Requests : RequestStep(r)
  \/ \E w \in Workers : SelectDue(w) \/ ClaimDue(w)
  \/ \E o \in Operators : SelectAny(o) \/ ClaimNow(o)
  \/ \E p \in Probers : ProbeStep(p)
  \/ ClearTempUnschedulable
  \/ \E on \in BOOLEAN : UpdateGatewayConfig(on)
  \/ SelectRows \/ ConfigureRow
  \/ Tick

Spec == Init /\ [][Next]_vars

(***************************************************************************)
(* A started statement pair ends, a probe ends (it has a timeout), a due   *)
(* row is met by a periodic worker, and time passes however often an        *)
(* operator asks.                                                          *)
(***************************************************************************)
Fairness ==
  /\ \A r \in Requests : WF_vars(Recover(r) \/ WipeAfterStreak(r) \/ RecordFailure(r))
  /\ \A w \in Workers : WF_vars(SelectDue(w) \/ ClaimDue(w))
  /\ \A o \in Operators : WF_vars(ClaimNow(o))
  /\ \A p \in Probers : WF_vars(ProbeStep(p))
  /\ WF_vars(SelectRows \/ ConfigureRow)
  /\ SF_vars(Tick)

FairSpec == Spec /\ Fairness

-----------------------------------------------------------------------------
(* Properties. *)

\* The shape of the state.
TypeOK ==
  /\ row \in Row
  /\ req \in [Requests -> Request]
  /\ prober \in [Probers -> Prober]
  /\ enabled \in BOOLEAN
  /\ config \in [pc : {"idle", "saved", "selected"}, until : Time, next : Time]
  /\ used.of \in Scenarios
  /\ \A what \in {"faults", "asks", "saves"} : used[what] \in 0..used.of[what]

Probing(p) == prober[p].pc \in {"probing", "judged"}

\* Two application instances do not probe one failure at the same time, however
\* the settings are saved meanwhile: of two probes of the same generation in
\* flight, one has outlived its lease.  (An operator may ask for a second one.)
OneProbePerFailure ==
  \A p, q \in Workers :
    /\ p # q /\ Probing(p) /\ Probing(q) /\ used.asks = 0
    /\ Live(prober[p].lease) /\ Live(prober[q].lease)
    => prober[p].gen # prober[q].gen

\* A paused or half-closed route opens again, whatever was lost on the way:
\* failed probes and lost probers are bounded, the rest is fairness.  (Saving the
\* settings meanwhile can re-arm a row whose pause was just cleared.)
RouteReopens == [](used.saves = 0) => (Blocked(row) ~> ~Blocked(row))
=============================================================================
