----------------------- MODULE MCUpstreamConcurrency -----------------------
(***************************************************************************)
(* Instances for TLC of the two parts that decide how many upstream calls  *)
(* a request may have: UpstreamConcurrency, whose stale targets carry the  *)
(* old limit, the new one, or a negative value that means no limit; and    *)
(* HedgeRace, three attempts of which two run at a time.  They share no    *)
(* state, so one is followed and the other is at rest.                     *)
(***************************************************************************)
EXTENDS UpstreamConcurrency, HedgeRace, TLC

Limits == {-5, 1, 2}

VARIABLE followed  \* which of the two

ForwardingInit == followed \in {"slots", "hedge"} /\ Init /\ RaceInit
ForwardingNext ==
  \/ followed = "slots" /\ Next /\ UNCHANGED <<hedgeVars, followed>>
  \/ followed = "hedge" /\ RaceNext /\ UNCHANGED <<vars, followed>>
\* Nothing that is fair is enabled in the slots at rest.
ForwardingSpec ==
  ForwardingInit /\ [][ForwardingNext]_<<vars, hedgeVars, followed>> /\ Fairness
=============================================================================
