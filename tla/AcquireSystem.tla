----------------------------- MODULE AcquireSystem -----------------------------
(***************************************************************************)
(* LockManager::acquire and acquire_timeout from end to end (src/lib.rs):  *)
(* several requests of one manager, each with a caller that may give up,   *)
(* a worker thread, a permit of the limiter and at last a guard.  The      *)
(* caller, the worker and whoever drops the guard each take part of a      *)
(* request's steps, and none of them waits for the others where the code   *)
(* does not.                                                               *)
(*                                                                         *)
(* The worker runs acquire_blocking on a thread of its own, whose          *)
(* HELD_LOCK_ORDER is empty: the order check lets every request pass, and  *)
(* the registration goes with the thread.  Both are left out.  Panics are  *)
(* the business of LockWaiter and LockManager.                             *)
(***************************************************************************)
EXTENDS WaiterLimiter

CONSTANTS
  Identity,         \* canonical lock identities
  Wants,            \* the identity each request asks for
  Rejects,          \* requests with SameProcessPolicy::Reject; the others queue
  NoIdentity        \* owned by a request without a lock

ASSUME RequestsAssumption ==
  /\ Wants \in [Request -> Identity] /\ Rejects \subseteq Request
  /\ NoIdentity \notin Identity

(***************************************************************************)
(* The caller: "new"; "spawning" with a permit; "waiting" with a           *)
(* LockWaiter; "leaving" for a deadline or by dropping it; "owner" of the  *)
(* guard; "ended".                                                         *)
(***************************************************************************)
CallerPhase == {"new", "spawning", "waiting", "leaving", "owner", "ended"}

(***************************************************************************)
(* The worker: "opening" the path and reserving; "asleep" in the kernel;   *)
(* "granted"; "returning" from the closure with its result; "settling"     *)
(* with the permit gone; "published"; "gone" as nobody was waiting.        *)
(***************************************************************************)
WorkerPhase == {"none", "opening", "asleep", "granted", "returning", "settling",
                "published", "gone"}

(***************************************************************************)
(* The guard: with the worker, in the state shared with the waiter, with   *)
(* the caller, "dropping" when the library drops it, then the steps of a   *)
(* release: "unlocked", "unreserved", "released".                          *)
(***************************************************************************)
GuardPhase == {"none", "worker", "slot", "caller", "dropping", "unlocked",
               "unreserved", "released"}

VARIABLES
  caller,           \* phase of its caller
  worker,           \* phase of its worker
  guard,            \* where its guard is
  events,           \* the events emitted for it
  locked,           \* requests whose descriptor has the kernel's lock
  reserved          \* reserved_in_process of the manager

vars == <<limiter, caller, worker, guard, events, locked, reserved>>

Init ==
  /\ LimiterInit
  /\ caller = [q \in Request |-> "new"]
  /\ worker = [q \in Request |-> "none"]
  /\ guard = [q \in Request |-> "none"]
  /\ events = [q \in Request |-> {}]
  /\ locked = {}
  /\ reserved = {}

CallerGoes(q, p) == caller' = [caller EXCEPT ![q] = p]

WorkerGoes(q, p) == worker' = [worker EXCEPT ![q] = p]

GuardGoes(q, p) == guard' = [guard EXCEPT ![q] = p]

Emit(q, kind) == events' = [events EXCEPT ![q] = @ \cup {kind}]

RemoveReservation(q) ==
  reserved' = IF q \in Rejects THEN reserved \ {Wants[q]} ELSE reserved

-----------------------------------------------------------------------------
(* The caller's side of acquire. *)

Acquire(q) ==
  /\ caller[q] = "new"
  /\ Load(q)
  /\ UNCHANGED <<caller, worker, guard, events, locked, reserved>>

TurnedAway(q) ==
  /\ Refuse(q) /\ CallerGoes(q, "ended")
  /\ UNCHANGED <<worker, guard, events, locked, reserved>>

Admitted(q) ==
  /\ Exchange(q) /\ CallerGoes(q, "spawning")
  /\ UNCHANGED <<worker, guard, events, locked, reserved>>

TryAgain(q) ==
  /\ ExchangeFails(q)
  /\ UNCHANGED <<caller, worker, guard, events, locked, reserved>>

Spawn(q) ==
  /\ caller[q] = "spawning"
  /\ CallerGoes(q, "waiting") /\ WorkerGoes(q, "opening")
  /\ UNCHANGED <<limiter, guard, events, locked, reserved>>

(* Mutant: the permit is not owned by the closure. *)
SpawnFailsWithPermit(q) ==
  /\ caller[q] = "spawning"
  /\ CallerGoes(q, "ended")
  /\ UNCHANGED <<limiter, worker, guard, events, locked, reserved>>

(* Mutant: the permit is given back by the error path and by its drop. *)
SpawnFailsTwice(q) ==
  /\ caller[q] = "spawning"
  /\ CallerGoes(q, "ended")
  /\ stage' = [stage EXCEPT ![q] = "idle"]
  /\ active' = active - 2
  /\ UNCHANGED <<current, worker, guard, events, locked, reserved>>

(* No thread: the closure is dropped, with the permit in it, and the cancel
   callback is not called. *)
SpawnFails(q) ==
  /\ caller[q] = "spawning"
  /\ CallerGoes(q, "ended") /\ DropPermit(q)
  /\ UNCHANGED <<worker, guard, events, locked, reserved>>

-----------------------------------------------------------------------------
(* The worker: acquire_blocking inside the closure. *)

(* The path is opened and the identity reserved, or either fails. *)
Open(q) ==
  /\ worker[q] = "opening"
  /\ \/ /\ q \in Rejects => Wants[q] \notin reserved
        /\ reserved' = IF q \in Rejects THEN reserved \cup {Wants[q]} ELSE reserved
        /\ WorkerGoes(q, "asleep")
     \/ WorkerGoes(q, "returning") /\ UNCHANGED reserved
  /\ UNCHANGED <<limiter, caller, guard, events, locked>>

KernelGrant(q) ==
  /\ worker[q] = "asleep"
  /\ \A p \in locked : Wants[p] # Wants[q]
  /\ locked' = locked \cup {q}
  /\ WorkerGoes(q, "granted")
  /\ UNCHANGED <<limiter, caller, guard, events, reserved>>

NativeError(q) ==
  /\ worker[q] = "asleep"
  /\ RemoveReservation(q) /\ WorkerGoes(q, "returning")
  /\ UNCHANGED <<limiter, caller, guard, events, locked>>

(* Acquired is emitted, and acquire_blocking returns a guard. *)
ReturnGuard(q) ==
  /\ worker[q] = "granted"
  /\ Emit(q, "Acquired") /\ GuardGoes(q, "worker")
  /\ WorkerGoes(q, "returning")
  /\ UNCHANGED <<limiter, caller, locked, reserved>>

(* The closure returns its result and drops the permit. *)
ReturnPermit(q) ==
  /\ worker[q] = "returning"
  /\ DropPermit(q) /\ WorkerGoes(q, "settling")
  /\ UNCHANGED <<caller, guard, events, locked, reserved>>

(* Mutant: the result is published whoever is there to take it. *)
SettleBlindly(q) ==
  /\ worker[q] = "settling"
  /\ WorkerGoes(q, "published")
  /\ guard' = [guard EXCEPT ![q] = IF @ = "worker" THEN "slot" ELSE @]
  /\ UNCHANGED <<limiter, caller, events, locked, reserved>>

(* settle_waiter_completion: the result is published while a receiver is
   alive, and dropped by the worker otherwise. *)
Settle(q) ==
  /\ worker[q] = "settling"
  /\ IF caller[q] \in {"waiting", "leaving"}
     THEN /\ WorkerGoes(q, "published")
          /\ guard' = [guard EXCEPT ![q] = IF @ = "worker" THEN "slot" ELSE @]
     ELSE /\ WorkerGoes(q, "gone")
          /\ guard' = [guard EXCEPT ![q] = IF @ = "worker" THEN "dropping" ELSE @]
  /\ UNCHANGED <<limiter, caller, events, locked, reserved>>

-----------------------------------------------------------------------------
(* The caller again: the result, or the end of its patience. *)

Take(q) ==
  /\ caller[q] = "waiting" /\ worker[q] = "published"
  /\ CallerGoes(q, IF guard[q] = "slot" THEN "owner" ELSE "ended")
  /\ guard' = [guard EXCEPT ![q] = IF @ = "slot" THEN "caller" ELSE @]
  /\ UNCHANGED <<limiter, worker, events, locked, reserved>>

(* acquire_timeout has seen no result at its deadline; or the waiter of
   acquire is dropped, result or not. *)
GiveUp(q, why) ==
  /\ caller[q] = "waiting"
  /\ why = "TimedOut" => worker[q] # "published"
  /\ CallerGoes(q, "leaving") /\ Emit(q, why)
  /\ UNCHANGED <<limiter, worker, guard, locked, reserved>>

(* Mutant: the caller takes the reservation of its request back. *)
DetachReservation(q) ==
  /\ caller[q] = "leaving"
  /\ CallerGoes(q, "ended")
  /\ guard' = [guard EXCEPT ![q] = IF @ = "slot" THEN "dropping" ELSE @]
  /\ RemoveReservation(q)
  /\ UNCHANGED <<limiter, worker, events, locked>>

(* Mutant: the caller unlocks the request's file, and leaves the guard to
   the worker. *)
DetachUnlocks(q) ==
  /\ caller[q] = "leaving"
  /\ CallerGoes(q, "ended")
  /\ guard' = [guard EXCEPT ![q] = IF @ = "slot" THEN "dropping" ELSE @]
  /\ locked' = locked \ {q}
  /\ UNCHANGED <<limiter, worker, events, reserved>>

(* LockWaiter::drop: no receiver any more, and no published result. *)
Detach(q) ==
  /\ caller[q] = "leaving"
  /\ CallerGoes(q, "ended")
  /\ guard' = [guard EXCEPT ![q] = IF @ = "slot" THEN "dropping" ELSE @]
  /\ UNCHANGED <<limiter, worker, events, locked, reserved>>

-----------------------------------------------------------------------------
(* The release of a guard, by its owner or by the library. *)

(* Mutant: Released is emitted first. *)
AnnounceAndUnlock(q) ==
  /\ guard[q] \in {"caller", "dropping"}
  /\ Emit(q, "Released") /\ GuardGoes(q, "unlocked")
  /\ CallerGoes(q, "ended")
  /\ UNCHANGED <<limiter, worker, locked, reserved>>

Unlock(q) ==
  /\ guard[q] \in {"caller", "dropping"}
  /\ locked' = locked \ {q}
  /\ GuardGoes(q, "unlocked") /\ CallerGoes(q, "ended")
  /\ UNCHANGED <<limiter, worker, events, reserved>>

Unreserve(q) ==
  /\ guard[q] = "unlocked"
  /\ RemoveReservation(q) /\ GuardGoes(q, "unreserved")
  /\ UNCHANGED <<limiter, caller, worker, events, locked>>

EmitReleased(q) ==
  /\ guard[q] = "unreserved"
  /\ Emit(q, "Released") /\ GuardGoes(q, "released")
  /\ UNCHANGED <<limiter, caller, worker, locked, reserved>>

CallerStep(q) ==
  \/ TurnedAway(q) \/ Admitted(q) \/ TryAgain(q) \/ Spawn(q) \/ SpawnFails(q)
  \/ Take(q) \/ Detach(q)

WorkerStep(q) ==
  \/ Open(q) \/ KernelGrant(q) \/ NativeError(q) \/ ReturnGuard(q)
  \/ ReturnPermit(q) \/ Settle(q)

GuardStep(q) == Unlock(q) \/ Unreserve(q) \/ EmitReleased(q)

Next ==
  \E q \in Request :
     \/ Acquire(q)
     \/ CallerStep(q)
     \/ \E why \in {"TimedOut", "Cancelled"} : GiveUp(q, why)
     \/ WorkerStep(q)
     \/ GuardStep(q)

Spec == Init /\ [][Next]_vars

(***************************************************************************)
(* Fairness: a caller inside a call and a worker go on, the kernel does    *)
(* not leave a lock free with someone asleep for it, and owners drop their *)
(* guards.  Nobody has to ask or to give up, and nothing has to fail.      *)
(***************************************************************************)
Fairness ==
  \A q \in Request :
     /\ WF_vars(TurnedAway(q)) /\ WF_vars(Admitted(q)) /\ WF_vars(TryAgain(q))
     /\ WF_vars(Spawn(q)) /\ WF_vars(Take(q)) /\ WF_vars(Detach(q))
     /\ WF_vars(Open(q)) /\ WF_vars(KernelGrant(q)) /\ WF_vars(ReturnGuard(q))
     /\ WF_vars(ReturnPermit(q)) /\ WF_vars(Settle(q)) /\ WF_vars(GuardStep(q))

FairSpec == Spec /\ Fairness

-----------------------------------------------------------------------------

(* Every variable has its type; active stays in 0..Limit, so that no failure
   path gives a permit back twice. *)
TypeOK ==
  /\ LimiterTypeOK
  /\ caller \in [Request -> CallerPhase]
  /\ worker \in [Request -> WorkerPhase]
  /\ guard \in [Request -> GuardPhase]
  /\ events \in [Request -> SUBSET {"Acquired", "Released", "TimedOut", "Cancelled"}]
  /\ locked \in SUBSET Request
  /\ reserved \in SUBSET Identity

(* The reservation of a Reject request, from before the kernel wait to the
   end of the release. *)
Claims(q) ==
  /\ q \in Rejects
  /\ \/ worker[q] \in {"asleep", "granted"}
     \/ guard[q] \notin {"none", "unreserved", "released"}

(* An abandoned request keeps its reservation for as long as its worker may
   still get the lock, and nothing but its own end takes it away: a retry
   is refused so long and no longer, and never doubles the claim. *)
ReservationSpan ==
  /\ \A i \in Identity :
        i \in reserved <=> \E q \in Request : Claims(q) /\ Wants[q] = i
  /\ \A p, q \in Request :
        Claims(p) /\ Claims(q) /\ Wants[p] = Wants[q] => p = q

(* What the event stream says of ownership.  A request announced Acquired
   and not Released owns the lock or is past its unlock, so that at most
   one of those which overlap in the stream is the owner; one announced
   Released owns nothing; and who was told TimedOut or Cancelled is not
   given the guard. *)
EventsTellOwnership ==
  \A q \in Request :
     /\ "Acquired" \in events[q] /\ "Released" \notin events[q] =>
           q \in locked \/ guard[q] \in {"unlocked", "unreserved"}
     /\ "Released" \in events[q] => q \notin locked
     /\ caller[q] = "owner" =>
           /\ "Acquired" \in events[q]
           /\ events[q] \cap {"TimedOut", "Cancelled"} = {}

(***************************************************************************)
(* A request owns its identity from the grant that its worker sees to the  *)
(* unlock of its guard, whoever has the guard by then; what the kernel's   *)
(* table says is left aside.  However their callers, workers and guards    *)
(* are scheduled and whoever gives up, the requests of a manager are       *)
(* clients of the abstract lock: a request begins to own while no other    *)
(* does, with a guard on its way to a caller, to a caller who has gone, or *)
(* with the library, and no guard outlives its lock.                       *)
(***************************************************************************)
Owns(q) == worker[q] = "granted" \/ guard[q] \in {"worker", "slot", "caller", "dropping"}

Owned == [q \in Request |-> IF Owns(q) THEN Wants[q] ELSE NoIdentity]

Abstract == INSTANCE ExclusiveLock WITH Client <- Request, hold <- Owned

ImplementsExclusiveLock == Abstract!Spec

Abandoned(q) == caller[q] = "leaving"

Owes(q) ==
  \/ q \in locked
  \/ "Acquired" \in events[q] /\ "Released" \notin events[q]
  \/ Claims(q)
  \/ stage[q] = "permitted"

(* A request that timed out or was dropped, before, during or after the
   grant, comes to owe nothing: neither the lock, nor its reservation, nor
   its permit, nor a Released event for the Acquired one it may yet emit. *)
AbandonedOwesNothing == \A q \in Request : Abandoned(q) ~> [](~Owes(q))

(* Permits come back: no way out of a request keeps one, so that a manager
   whose callers time out, cancel or fail to spawn does not run dry. *)
PermitsComeBack ==
  \A q \in Request : stage[q] = "permitted" ~> stage[q] # "permitted"

=============================================================================
