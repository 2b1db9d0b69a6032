----------------------------- MODULE MCLockWaiter -----------------------------
(* One waiter, two tasks that may poll it, and panics wherever foreign code
   runs. *)
EXTENDS LockWaiter

CONSTANTS k1, k2
=============================================================================
