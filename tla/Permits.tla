------------------------------- MODULE Permits --------------------------------
(***************************************************************************)
(* What the waiter limit promises, in whole steps: a request gets a permit *)
(* while fewer than Limit are out, is turned away only at a moment when    *)
(* all of them are, and gives its permit back once.                        *)
(***************************************************************************)
EXTENDS Naturals, FiniteSets

CONSTANTS
  Request,          \* those who ask for a permit
  Limit             \* how many permits there are

VARIABLES
  holders,          \* requests that have a permit
  turned_away       \* requests that were refused and have not been told yet

Asking(q) == q \notin holders \cup turned_away

Init == holders = {} /\ turned_away = {}

Grant(q) ==
  /\ Asking(q)
  /\ Cardinality(holders) < Limit
  /\ holders' = holders \cup {q}
  /\ UNCHANGED turned_away

TurnAway(q) ==
  /\ Asking(q)
  /\ Cardinality(holders) = Limit
  /\ turned_away' = turned_away \cup {q}
  /\ UNCHANGED holders

GiveBack(q) == q \in holders /\ holders' = holders \ {q} /\ UNCHANGED turned_away

Tell(q) ==
  q \in turned_away /\ turned_away' = turned_away \ {q} /\ UNCHANGED holders

Next == \E q \in Request : Grant(q) \/ TurnAway(q) \/ GiveBack(q) \/ Tell(q)

Spec == Init /\ [][Next]_<<holders, turned_away>>

=============================================================================
