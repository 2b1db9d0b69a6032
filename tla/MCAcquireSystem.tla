---------------------------- MODULE MCAcquireSystem ----------------------------
(* Three requests for one identity, two permits: two that reject their like
   and one that queues. *)
EXTENDS AcquireSystem

CONSTANTS q1, q2, q3, a

MCWants == [q \in Request |-> a]
=============================================================================
