---- MODULE MCAccountSync ----
EXTENDS AccountSync

CONSTANTS a1, a2, c1, c2

\* a1 and a2 are on channels of their own, equally cheap at first.
MCChannelOf == [a \in Accounts |-> IF a = a2 THEN c2 ELSE c1]
MCFirstRates == [a \in Accounts |-> 1]

\* Two accounts and one event or edit; one account that is replaced and
\* another event; one account, overlapping applies and an event.
MCScenarios == {[list |-> <<a1, a2>>, manual |-> 0, edits |-> 0, events |-> 1],
                [list |-> <<a1, a2>>, manual |-> 0, edits |-> 1, events |-> 0],
                [list |-> <<a1>>, manual |-> 0, edits |-> 1, events |-> 1],
                [list |-> <<a1>>, manual |-> 1, edits |-> 0, events |-> 1]}

\* The second account moves to the front, the first is removed or disabled.
MCEdits == {[list |-> <<a2, a1>>, on |-> {a1, a2}],
            [list |-> <<a2>>, on |-> {a2}],
            [list |-> <<a1, a2>>, on |-> {a2}]}

\* For SlotsKept: both accounts on one channel, as in the tests.
MCOneChannel == [a \in Accounts |-> c1]
MCSlotScenarios == {[list |-> <<a1, a2>>, manual |-> 0, edits |-> 1, events |-> 2]}
====
