---------------------------- MODULE MCLockManager ----------------------------
(***************************************************************************)
(* Instances of LockManager for TLC: two threads in one process and one in *)
(* another, each process with a manager (and the first with a second one,  *)
(* for the runs that use it), over two identities a < b.                   *)
(***************************************************************************)
EXTENDS LockManager, TLC

CONSTANTS t1, t2, t3, p1, p2, m1, m2, m3, a, b

MCThreadProcess == [t \in Thread |-> IF t = t3 THEN p2 ELSE p1]

MCManagerProcess == [m \in Manager |-> IF m = m3 THEN p2 ELSE p1]

MCPathKey == [i \in Identity |-> IF i = a THEN 1 ELSE 2]

Req(m, i, k, p) == [mgr |-> m, id |-> i, rank |-> k, policy |-> p]

(* Both policies, and identity b under two classes, so that equal ranks are
   ordered by path and one identity appears as two entries. *)
MixedRequests ==
  {Req(m1, a, 20, "Reject"), Req(m1, a, 20, "Queue"), Req(m1, b, 20, "Reject"),
   Req(m1, b, 10, "Queue"), Req(m3, a, 20, "Reject"), Req(m3, b, 20, "Queue")}

(* One manager per process and one class per identity, all Reject. *)
HierarchyRequests ==
  {Req(m, i, 10, "Reject") : m \in {m1, m3}, i \in {a, b}}

(* A class for each of the two identities, the first one's above. *)
ClassRequests == {Req(m1, a, 20, "Reject"), Req(m1, b, 10, "Reject")}

(* A Queue owner, or an owner in a second manager, beside Reject requests. *)
TwoManagerRequests ==
  {Req(m1, a, 10, "Reject"), Req(m1, a, 10, "Queue"), Req(m2, a, 10, "Reject")}

OneThreadPairs == {<<t1, t2>>, <<t2, t1>>}

CallSymmetry == Permutations(Call)

=============================================================================
