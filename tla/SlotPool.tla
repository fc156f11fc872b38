------------------------------ MODULE SlotPool ------------------------------
(***************************************************************************)
(* What the per-upstream concurrency limiter promises, without queues,     *)
(* counters or goroutines: a set of attempts that own a slot and a         *)
(* capacity that any newcomer may change.  An attempt may become an owner  *)
(* only while the owners fit the capacity then in force; lowering the      *)
(* capacity evicts nobody; a slot is given up only by its own owner.       *)
(***************************************************************************)
EXTENDS Integers, FiniteSets

CONSTANT Attempts

VARIABLES owners, cap

poolVars == <<owners, cap>>

Unlimited == 0

Fits(S, c) == c = Unlimited \/ Cardinality(S) <= c

PoolInit == owners = {} /\ cap \in Int

\* A newcomer sets the capacity; it and queued attempts may be let in.
Admit ==
  /\ cap' \in Int
  /\ owners \subseteq owners'
  /\ owners' \subseteq Attempts
  /\ owners' # owners => Fits(owners', cap')

\* One owner leaves; queued attempts may be let in behind it.
GiveUp(a) ==
  /\ a \in owners
  /\ cap' = cap
  /\ owners \ {a} \subseteq owners'
  /\ owners' \subseteq Attempts \ {a}
  /\ owners' # owners \ {a} => Fits(owners', cap)

PoolNext == Admit \/ \E a \in Attempts : GiveUp(a)

PoolSpec == PoolInit /\ [][PoolNext]_poolVars
=============================================================================
