------------------------------- MODULE MCLockSet -------------------------------
(* Two threads of one process and one of another, which lock overlapping sets
   of three identities a < b < d. *)
EXTENDS LockSet

CONSTANTS t1, t2, t3, p1, p2, m1, m3, a, b, d, c1, c2, c3, c4, c5, c6, c7, c8, c9

MCThreadProcess == [t \in Thread |-> IF t = t3 THEN p2 ELSE p1]

MCManagerProcess == [m \in Manager |-> IF m = m3 THEN p2 ELSE p1]

(* Keys that differ, and keys that a lossy or case-folding path_sort_key
   makes equal. *)
MCPathKey == [i \in Identity |-> CASE i = a -> 1 [] i = b -> 2 [] i = d -> 3]

SameKey == [i \in Identity |-> IF i = d THEN 2 ELSE 1]

MCSlots == [t \in Thread |-> CASE t = t1 -> <<c1, c2, c3>>
                               [] t = t2 -> <<c4, c5, c6>>
                               [] t = t3 -> <<c7, c8, c9>>]

Req(m, i, k, p) == [mgr |-> m, id |-> i, rank |-> k, policy |-> p]

MCRequests ==
  {Req(m, i, 10, p) : m \in Manager, i \in Identity, p \in Policy}
    \cup {Req(m, a, 20, "Queue") : m \in Manager}

(* Orders of the caller's own, either policy, one identity twice under two
   classes, and the empty set. *)
MCLockSets ==
  {<<>>} \cup UNION {{<<Req(m, d, 10, "Reject"), Req(m, a, 10, "Reject"), Req(m, b, 10, "Reject")>>,
          <<Req(m, b, 10, "Reject"), Req(m, a, 10, "Reject")>>,
          <<Req(m, d, 10, "Queue"), Req(m, b, 10, "Queue")>>,
          <<Req(m, a, 10, "Queue"), Req(m, a, 20, "Queue")>>} : m \in Manager}
=============================================================================
