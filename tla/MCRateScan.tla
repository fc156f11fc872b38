----------------------------- MODULE MCRateScan -----------------------------
(***************************************************************************)
(* RateScan with two jobs, two groups and two subscribers, one of which    *)
(* has subscribed to the changes of one group only.                        *)
(***************************************************************************)
EXTENDS RateScan

CONSTANTS j1, j2, g1, g2, n1, n2, s1, s2, a1, a2

MCJobs == {j1, j2}
MCGroups == {g1, g2}
MCWants == [s \in {s1, s2} |-> IF s = s2 THEN {<<"changed", g1>>}
                               ELSE {"changed", "added", "removed"} \X MCGroups]
Both(kind) == [j \in MCJobs |-> kind]
Rates(a, b) == [g \in MCGroups |-> IF g = g1 THEN a ELSE b]
NoRates == Rates(0, 0)

Quiet == [modes |-> {"password"}, saved |-> {TRUE}, kind |-> Both("rates"), events |-> {}, budget |-> 0,
          offers |-> {NoRates}, known |-> {NoRates}, posted |-> {{}}, keys |-> {MCGroups}]

\* Overlapping scans of changing rates; one scan where only groups with keys are
\* reported; announcements; two balances, also beside a deletion; sessions beside
\* each operation of the operator; a scan beside a deletion.
Changing == {[Quiet EXCEPT !.offers = {Rates(1, 0), Rates(2, 1)}, !.known = {NoRates, Rates(1, 1)},
                           !.events = {"reoffer"}, !.budget = 1]}
Keyed == {[Quiet EXCEPT !.offers = {Rates(1, 0), Rates(2, 1), Rates(0, 2)}, !.known = {Rates(1, 1), Rates(2, 0)},
                        !.kind[j2] = "call", !.events = {"reoffer", "fault"}, !.budget = 2, !.keys = {MCGroups, {g1}}]}
Announcing == {[Quiet EXCEPT !.posted = {{}, {n1}}, !.events = {"publish", "retain"}, !.budget = 2]}
Balances == {[Quiet EXCEPT !.kind = Both("balance"), !.events = {"fault"}, !.budget = 1],
             [Quiet EXCEPT !.kind = Both("balance"), !.modes = {"token"}, !.saved = {FALSE},
                           !.events = {"expire", "delete"}, !.budget = 2]}
Logins == {[Quiet EXCEPT !.modes = {"password", "token"}, !.saved = BOOLEAN, !.kind = [j \in MCJobs |-> k[j]],
                         !.events = {"call", "expire", "fault", o},
                         !.budget = IF o = "credential" THEN 5 ELSE 4] :
             o \in Operations, k \in {Both("call"), [Both("call") EXCEPT ![j2] = "test"]}}
Deleting == {[Quiet EXCEPT !.modes = {"token"}, !.saved = {FALSE}, !.events = {"call", "expire", "delete"}, !.budget = 3,
                           !.posted = {{n1}}, !.kind[j2] = "call", !.offers = {Rates(1, 2)}, !.known = {Rates(1, 1)}]}
MCScenarios == Changing \cup Keyed \cup Announcing \cup Balances \cup Logins \cup Deleting
=============================================================================
